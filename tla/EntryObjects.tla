---------------------------- MODULE EntryObjects ----------------------------
(***************************************************************************)
(* The objects that an application and the SDK share by reference: entries *)
(* (models.py) with their lists and maps, the builders that grow them      *)
(* (builders.py), the options of clients (options.py), and the clients     *)
(* that stamp defaults into an entry when it is logged and serialise it    *)
(* when its batch is sent (client.py, _transport.py).                      *)
(*                                                                         *)
(* An object is an index of heap; its lists and maps are indices of cells, *)
(* which two objects may share.  Of the fields of an entry those are kept  *)
(* that the SDK treats differently: "application" stands for what a caller *)
(* sets and a client of logs stamps, "environment" for what it always      *)
(* stamps (collection, too).  builder.log() is Build and Log;              *)
(* send_log_batch() is Log of each entry, and their Sends.                 *)
(***************************************************************************)
EXTENDS DataMapping, Sequences, SequencesExt

CONSTANTS
  Clients, AsyncClients,
  OptionObjects, Keys,
  EnvKeys, EnvApplications,   \* values of LOGDB_API_KEY, LOGDB_DEFAULT_APPLICATION
  Kinds,          \* of the entries: log, logBeat, logCache
  Types,          \* of attribute values
  RecordLevels,   \* of log records
  MaxObjects,     \* bound: entries
  MaxLogged       \* bound: calls of log() and emit()

ASSUME EntryObjectsAssumption ==
  /\ AsyncClients \subseteq Clients
  /\ Kinds \subseteq {"log", "logBeat", "logCache"}
  /\ Types \subseteq {"bool", "int", "float", "datetime", "str"}
  /\ RecordLevels \subseteq Int
  /\ {MaxObjects, MaxLogged} \subseteq Nat

Fields == {"level", "application", "environment", "apiKey"}
Collections == {"label", "attributesB", "attributesN", "attributesD", "attributesS",
                "tag", "field"}

VARIABLES
  options,   \* options[p]: api_key and default_application of an options object
  opts,      \* opts[c]: _opts of a client; None while it does not exist
  own,       \* history: the key that the client was made with
  rekeyed,   \* history: the options whose key was changed under a client
  heap,      \* heap[o]: the kind, the fields, the cells and the holder of an entry
  cells,     \* cells[i]: a list or a map, as a set
  asked,     \* history: what the application asked for, by value
  logged,    \* history: how often an entry was logged
  touched,   \* history: the entries that the application changed afterwards
  pending    \* what the batchers hold: the entries themselves

configuration == <<options, opts, own, rekeyed>>
objects == <<heap, cells, asked>>
traffic == <<logged, touched, pending>>
vars    == <<configuration, objects, traffic>>

Blank == [f \in Fields |-> None]
Nothing == [f \in Collections |-> {}]

Init ==
  /\ options \in [OptionObjects ->
       {FromEnv(env, kwargs) : env \in [key : EnvKeys, application : EnvApplications],
                               kwargs \in [key : Keys \cup {None}, application : {None}]}]
  /\ opts = [c \in Clients |-> None]
  /\ own  = [c \in Clients |-> None]
  /\ rekeyed = {}
  /\ heap = << >> /\ cells = << >> /\ asked = << >>
  /\ logged = << >> /\ touched = {}
  /\ pending = {}

-----------------------------------------------------------------------------
(* Clients.  Without an options object the constructor makes a new one:    *)
(* one that no other client has.                                           *)

KeyAfter_Kept(old, given) == IF old = None THEN given ELSE old   \* fault
KeyAfter(old, given) == IF given = None THEN old ELSE given

Keyless(key) == key \in {None, ""}

(* A constructor that raises LogDBConfigError has changed the options.     *)
Construct(c, p, given) ==
  LET key == KeyAfter(options[p].key, given) IN
  /\ opts[c] = None
  /\ options' = [options EXCEPT ![p].key = key]
  /\ rekeyed' = IF key # options[p].key /\ \E d \in Clients : opts[d] = p
                THEN rekeyed \cup {p} ELSE rekeyed
  /\ IF Keyless(key)
     THEN UNCHANGED <<opts, own>>
     ELSE /\ opts' = [opts EXCEPT ![c] = p]
          /\ own'  = [own EXCEPT ![c] = IF given = None THEN options[p].key ELSE given]
  /\ UNCHANGED <<objects, traffic>>

-----------------------------------------------------------------------------
(* Entries *)

New == Len(heap) + 1
Room == Len(heap) < MaxObjects
MayLog == FoldSeq(+, 0, logged) < MaxLogged

Entry(holder, kind, fields) ==
  [holder |-> holder, kind |-> kind, fields |-> fields, cell |-> [f \in Collections |-> 0]]
HeldBy(holder) == {o \in DOMAIN heap : heap[o].holder = holder}
Want(fields, items) == [fields |-> fields, items |-> items]

Allocate(object, want, all) ==
  /\ Room
  /\ heap'   = Append(heap, object)
  /\ cells'  = all
  /\ asked'  = Append(asked, want)
  /\ logged' = Append(logged, 0)

(* The application makes an entry, with some fields of its own.            *)
NewEntry(kind) ==
  /\ \E fields \in [Fields -> {None, "mine"}] :
       /\ fields.level = None /\ fields.environment = None
       /\ kind # "log" => fields.application = None
       /\ Allocate(Entry("app", kind, fields), Want(fields, Nothing), cells)
  /\ UNCHANGED <<configuration, touched, pending>>

(* It changes an entry that it has logged, and that may still wait.        *)
AppSets(o) ==
  /\ logged[o] > 0 /\ o \notin touched
  /\ heap'    = [heap EXCEPT ![o].fields.apiKey = "changed"]
  /\ asked'   = [asked EXCEPT ![o].fields.apiKey = "changed"]
  /\ touched' = touched \cup {o}
  /\ UNCHANGED <<configuration, cells, logged, pending>>

-----------------------------------------------------------------------------
(* Builders.  _with() is dataclasses.replace(): a new entry with the same  *)
(* cells.                                                                  *)

Becomes(object, want, all) ==
  /\ Allocate(object, want, all)
  /\ UNCHANGED <<configuration, touched, pending>>

Create(kind) == Becomes(Entry("builder", kind, Blank), Want(Blank, Nothing), cells)

SetField(b, f, value) ==
  Becomes([heap[b] EXCEPT !.fields[f] = value],
          [asked[b] EXCEPT !.fields[f] = value], cells)

(* The setters that a builder of this kind has.                            *)
Settable(kind) == CASE kind = "log" -> {"application", "environment", "level"}
                    [] kind = "logBeat" -> {"environment"}
                    [] OTHER -> {}

LevelOfException(level) == IF level = None THEN "Exception" ELSE level

SetException(b) ==
  /\ heap[b].kind = "log"
  /\ LET level == asked[b].fields.level IN
     Becomes([heap[b] EXCEPT !.fields.level = LevelOfException(@)],
             [asked[b] EXCEPT !.fields.level = IF level = None THEN "Exception" ELSE @],
             cells)

Items(i) == IF i = 0 THEN {} ELSE cells[i]

(* list() or dict() copies before it adds.                                 *)
Added_InPlace(i, item) ==                   \* fault: no copy
  IF i = 0 THEN [all |-> Append(cells, {item}), at |-> Len(cells) + 1]
  ELSE [all |-> [cells EXCEPT ![i] = @ \cup {item}], at |-> i]
Added(i, item) == [all |-> Append(cells, Items(i) \cup {item}), at |-> Len(cells) + 1]

AddItem(b, f, item, meant) ==
  LET new == Added(heap[b].cell[f], item) IN
  Becomes([heap[b] EXCEPT !.cell[f] = new.at],
          [asked[b] EXCEPT !.items[meant] = @ \cup {item}], new.all)

AddToLog(b) ==
  /\ heap[b].kind = "log"
  /\ \/ \E l \in {1, 2} : AddItem(b, "label", l, "label")
     \/ \E type \in Types : AddItem(b, FieldOf(type), type, FieldMeant[type])

AddToBeat(b) ==
  /\ heap[b].kind = "logBeat"
  /\ \E f \in {"tag", "field"} : AddItem(b, f, 1, f)

Setter(b) == \/ \E f \in Settable(heap[b].kind) \ {"level"} : SetField(b, f, "mine")
             \/ "level" \in Settable(heap[b].kind) /\ SetField(b, "level", "Trace")

(* deepcopy(): the cells are copied, too.                                  *)
Build(b) ==
  LET used == SetToSeq({f \in Collections : heap[b].cell[f] # 0})
      copies == [i \in DOMAIN used |-> cells[heap[b].cell[used[i]]]]
      cell == [f \in Collections |->
                 IF heap[b].cell[f] = 0 THEN 0
                 ELSE Len(cells) + CHOOSE i \in DOMAIN used : used[i] = f]
  IN  /\ Allocate([heap[b] EXCEPT !.cell = cell, !.holder = "app"], asked[b],
                  cells \o copies)
      /\ UNCHANGED <<configuration, touched, pending>>

-----------------------------------------------------------------------------
(* log() *)

Stamped(kind) == CASE kind = "log"      -> {"application", "environment", "apiKey"}
                   [] kind = "logBeat"  -> {"environment", "apiKey"}
                   [] kind = "logCache" -> {"apiKey"}

Default(c, f) == CASE f = "application" -> options[opts[c]].application
                   [] f = "environment" -> "production"
                   [] f = "apiKey"      -> options[opts[c]].key

StampedValue(value, default) == IF value = None THEN default ELSE value

Stamp(c, object) ==
  [object EXCEPT !.fields = [f \in Fields |->
     IF f \in Stamped(object.kind) THEN StampedValue(@[f], Default(c, f)) ELSE @[f]]]

(* What the caller may expect: its own values, and the client's defaults.  *)
Meant(c, kind, want) ==
  Body([f \in Fields |-> IF want.fields[f] = None /\ f \in Stamped(kind)
                         THEN Default(c, f) ELSE want.fields[f]],
       want.items)

Waits(c, o, meant, stamped) ==
  pending' = pending \cup {[client |-> c, object |-> o, meant |-> meant, stamped |-> stamped]}

(* The batcher gets the caller's own entry.                                *)
Log(c, o) ==
  /\ opts[c] # None
  /\ MayLog
  /\ heap'   = [heap EXCEPT ![o] = Stamp(c, @)]
  /\ logged' = [logged EXCEPT ![o] = @ + 1]
  /\ Waits(c, o, Meant(c, heap[o].kind, asked[o]), TRUE)
  /\ UNCHANGED <<configuration, cells, asked, touched>>

(* emit() of a LogDBHandler: an entry that nobody else holds.  The handler *)
(* of an async client goes past log(), and nobody stamps the entry.        *)
Emit(c, n, types) ==
  LET fields == [Blank EXCEPT !.level = MapLevel(n)]
      filled == {FieldOf(t) : t \in types}
      used   == SetToSeq(filled)
      all    == cells \o [i \in DOMAIN used |-> {t \in types : FieldOf(t) = used[i]}]
      object == [Entry("handler", "log", fields) EXCEPT !.cell = [f \in Collections |->
                   IF f \in filled THEN Len(cells) + CHOOSE i \in DOMAIN used : used[i] = f
                   ELSE 0]]
      want   == Want([Blank EXCEPT !.level = LevelReached(n)],
                     [f \in Collections |-> {t \in types : FieldMeant[t] = f}])
      sync   == c \notin AsyncClients
  IN  /\ opts[c] # None /\ Room /\ MayLog /\ "log" \in Kinds
      /\ heap'   = Append(heap, IF sync THEN Stamp(c, object) ELSE object)
      /\ cells'  = all
      /\ asked'  = Append(asked, want)
      /\ logged' = Append(logged, 1)
      /\ Waits(c, New, IF sync THEN Meant(c, "log", want) ELSE Body(want.fields, want.items), sync)
      /\ UNCHANGED <<configuration, touched>>

(* _raw_send(): body and key are what they are by then.                    *)
Content(o) == Want(heap[o].fields, [f \in Collections |-> Items(heap[o].cell[f])])

Header(key) == IF Keyless(key) THEN None ELSE key   \* left out

Request(m) == [body |-> Body(Content(m.object).fields, Content(m.object).items),
               key  |-> Header(options[opts[m.client]].key)]

Send(m) ==
  /\ pending' = pending \ {m}
  /\ UNCHANGED <<configuration, objects, logged, touched>>

-----------------------------------------------------------------------------

Next ==
  \/ \E c \in Clients, p \in OptionObjects, key \in Keys \cup {None, ""} : Construct(c, p, key)
  \/ \E kind \in Kinds : NewEntry(kind) \/ Create(kind)
  \/ \E o \in HeldBy("app") : AppSets(o) \/ \E c \in Clients : Log(c, o)
  \/ \E b \in HeldBy("builder") : \/ Setter(b) \/ SetException(b)
                                 \/ AddToLog(b) \/ AddToBeat(b) \/ Build(b)
  \/ \E c \in Clients, n \in RecordLevels, types \in SUBSET Types : Emit(c, n, types)
  \/ \E m \in pending : Send(m)

Spec == Init /\ [][Next]_vars

-----------------------------------------------------------------------------
(* Properties *)

(* Growing, building or logging what comes of a builder never changes what *)
(* an older builder or one forked from the same base holds ("sharing a     *)
(* base builder across handlers is safe", builders.py:8-9): _with() shares *)
(* the lists and maps of the entry, the setters copy before they add.      *)
BuilderIsolated ==
  \A b \in HeldBy("builder") : Content(b) = asked[b]

(* What the server gets of an entry is what its caller asked for, by value *)
(* and each attribute under the field of its type, with the defaults of    *)
(* the client that logged it where the caller set nothing: for an entry    *)
(* that was logged once and not changed since.  An entry is buffered by    *)
(* reference and stamped in place, so that logging it again or changing it *)
(* does reach the one that waits.  No default is meant for the entries of  *)
(* an async client's handler, which go past the stamping.                  *)
DeliveredAsMeant ==
  \A m \in pending :
    logged[m.object] = 1 /\ m.object \notin touched => Request(m).body = m.meant

(* A client authenticates with the key that it was made with, and stamps   *)
(* that key, whatever other clients do, unless another constructor put     *)
(* another key into the options object that they share (client.py:132).    *)
OwnKey ==
  \A m \in pending :
    opts[m.client] \notin rekeyed =>
      /\ Request(m).key = own[m.client]
      /\ (/\ m.stamped /\ logged[m.object] = 1
          /\ asked[m.object].fields.apiKey = None)
         => Request(m).body.fields.apiKey = own[m.client]
=============================================================================
