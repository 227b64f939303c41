SPECIFICATION Spec
CONSTANTS
  Clients = {c1, c2}
  AsyncClients = {c2}
  OptionObjects = {p1}
  Keys = {"k1", "k2"}
  EnvKeys = {""}
  EnvApplications = {"app"}
  Kinds = {"log", "logBeat"}
  Types = {"bool", "int"}
  RecordLevels = {35}
  MaxObjects = 3
  MaxLogged = 2
CHECK_DEADLOCK FALSE
INVARIANTS
  BuilderIsolated
  DeliveredAsMeant
  OwnKey
