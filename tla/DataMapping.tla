---------------------------- MODULE DataMapping -----------------------------
(***************************************************************************)
(* What the SDK makes of levels, of the types of attribute values, of      *)
(* values that are not set and of the environment: pure functions of       *)
(* logging_handler.py, builders.py, _transport.py and options.py.          *)
(***************************************************************************)
EXTENDS Integers, FiniteSetsExt

None == "None"

-----------------------------------------------------------------------------
(* Levels *)

LogLevels == {"Trace", "Debug", "Info", "Warning", "Error", "Critical", "Exception"}

WireLevel(level) == IF level = "Trace" THEN "Debug" ELSE level

StandardLevel ==
  [n \in {10, 20, 30, 40, 50} |->
     CASE n = 10 -> "Debug" [] n = 20 -> "Info" [] n = 30 -> "Warning"
       [] n = 40 -> "Error" [] n = 50 -> "Critical"]

MapLevel(n) ==
  IF n \in DOMAIN StandardLevel THEN StandardLevel[n]
  ELSE IF n >= 50 THEN "Critical"
  ELSE IF n >= 40 THEN "Error"
  ELSE IF n >= 30 THEN "Warning"
  ELSE IF n >= 20 THEN "Info"
  ELSE "Debug"

(* What it should be: the highest standard level that n reaches.           *)
LevelReached(n) ==
  LET reached == {s \in DOMAIN StandardLevel : s <= n}
  IN  IF reached = {} THEN "Debug" ELSE StandardLevel[Max(reached)]

-----------------------------------------------------------------------------
(* Attributes *)

(* isinstance(): in Python a bool is an int, too.                          *)
InstanceOf(type) == IF type = "bool" THEN {"bool", "int"} ELSE {type}

IsNumber(type) == InstanceOf(type) \cap {"int", "float"} # {}

FieldOf_NumbersFirst(type) ==               \* fault: another order of tests
  IF IsNumber(type) THEN "attributesN"
  ELSE IF "bool" \in InstanceOf(type) THEN "attributesB"
  ELSE IF "datetime" \in InstanceOf(type) THEN "attributesD"
  ELSE "attributesS"
FieldOf(type) ==
  IF "bool" \in InstanceOf(type) THEN "attributesB"
  ELSE IF IsNumber(type) THEN "attributesN"
  ELSE IF "datetime" \in InstanceOf(type) THEN "attributesD"
  ELSE "attributesS"

(* What it should be: one field for each type of the wire format.          *)
FieldMeant == [bool |-> "attributesB", int |-> "attributesN", float |-> "attributesN",
               datetime |-> "attributesD", str |-> "attributesS"]

-----------------------------------------------------------------------------
(* Values that are not set *)

(* A variable of the environment that is empty counts as not set.          *)
EnvDefault(value) == IF value = "" THEN None ELSE value

FromEnv(env, overrides) ==
  [f \in DOMAIN env |-> IF overrides[f] # None THEN overrides[f] ELSE EnvDefault(env[f])]

Set(fields) == {f \in DOMAIN fields : fields[f] # None}
Filled(items) == {f \in DOMAIN items : items[f] # {}}

(* serialize_body(): what is None stays out, levels go by their names.     *)
Body(fields, items) ==
  [fields |-> [f \in Set(fields) |->
                 IF f = "level" THEN WireLevel(fields[f]) ELSE fields[f]],
   items  |-> [f \in Filled(items) |-> items[f]]]
=============================================================================
