------------------------- MODULE EntryObjectsProofs ------------------------
(***************************************************************************)
(* What DataMapping computes, for every input, and what EntryObjects keeps *)
(* apart, for any number of clients, options objects, entries and calls.   *)
(***************************************************************************)
EXTENDS EntryObjects, SequenceTheorems, FiniteSetTheorems, TLAPS

-----------------------------------------------------------------------------
(* Levels and the types of attributes *)

(* The largest number of a set of levels that n reaches, by its name.      *)
LEMMA MaxIs ==
  ASSUME NEW S \in SUBSET Int, NEW m \in S, \A s \in S : s <= m
  PROVE  Max(S) = m
<1>1. \E x \in S : \A y \in S : x >= y
  OBVIOUS
<1>2. Max(S) \in S /\ \A y \in S : Max(S) >= y
  BY <1>1 DEF Max
<1>3. ASSUME NEW x \in S, \A y \in S : x >= y PROVE x = m
  <2>1. x >= m /\ x <= m /\ x \in Int /\ m \in Int
    BY <1>3
  <2> QED
    BY <2>1
<1> QED
  BY <1>2, <1>3

(* map_python_level() gives a record the highest standard level that its   *)
(* number reaches, for numbers between, below and above the standard ones  *)
(* too (logging_handler.py).                                               *)
THEOREM LevelsMapped == \A n \in Int : MapLevel(n) = LevelReached(n)
<1> SUFFICES ASSUME NEW n \in Int PROVE MapLevel(n) = LevelReached(n)
  OBVIOUS
<1> DEFINE reached == {s \in {10, 20, 30, 40, 50} : s <= n}
<1>1. DOMAIN StandardLevel = {10, 20, 30, 40, 50}
  BY DEF StandardLevel
<1>2. /\ StandardLevel[10] = "Debug" /\ StandardLevel[20] = "Info"
      /\ StandardLevel[30] = "Warning" /\ StandardLevel[40] = "Error"
      /\ StandardLevel[50] = "Critical"
  BY DEF StandardLevel
<1>3. LevelReached(n) = IF reached = {} THEN "Debug" ELSE StandardLevel[Max(reached)]
  BY <1>1 DEF LevelReached
<1>4. reached \in SUBSET Int
  OBVIOUS
<1>5. CASE n < 10
  BY <1>1, <1>3, <1>5 DEF MapLevel
<1>6. ASSUME NEW m \in {10, 20, 30, 40, 50}, m <= n, n < m + 10 \/ m = 50
      PROVE  LevelReached(n) = StandardLevel[m]
  <2>1. m \in reached /\ \A s \in reached : s <= m
    BY <1>6
  <2> QED
    BY <1>3, <1>4, <2>1, MaxIs
<1>7. CASE n >= 10
  <2>1. PICK m \in {10, 20, 30, 40, 50} : m <= n /\ (n < m + 10 \/ m = 50)
    BY <1>7
  <2>2. MapLevel(n) = StandardLevel[m]
    BY <1>1, <1>2, <2>1 DEF MapLevel
  <2> QED
    BY <1>6, <2>1, <2>2
<1> QED
  BY <1>5, <1>7

(* The isinstance() tests of add_attribute() and of the handler send each  *)
(* type to its own field of the wire format, a bool not to the numbers.    *)
THEOREM AttributesMapped ==
  \A type \in {"bool", "int", "float", "datetime", "str"} :
    FieldOf(type) = FieldMeant[type]
BY DEF FieldOf, FieldMeant, IsNumber, InstanceOf

-----------------------------------------------------------------------------
(* A set as a sequence *)

LEMMA Listing ==
  ASSUME NEW S, IsFiniteSet(S)
  PROVE  /\ Len(SetToSeq(S)) \in Nat
         /\ SetToSeq(S) \in [1 .. Len(SetToSeq(S)) -> S]
         /\ \A x \in S : \E i \in 1 .. Len(SetToSeq(S)) : SetToSeq(S)[i] = x
<1> DEFINE n == Cardinality(S)
           s == SetToSeq(S)
<1>1. n \in Nat /\ ExistsBijection(1 .. n, S)
  BY FS_CardinalityType
<1>2. \E f \in [1 .. n -> S] : IsInjective(f)
  BY <1>1 DEF ExistsBijection, Bijection, Injection
<1>3. s \in [1 .. n -> S] /\ IsInjective(s)
  BY <1>2 DEF SetToSeq
<1>4. s \in Injection(1 .. n, S)
  BY <1>3 DEF Injection
<1>5. IsFiniteSet(1 .. n) /\ Cardinality(1 .. n) = n
  BY <1>1, FS_Interval
<1>6. s \in Surjection(1 .. n, S)
  BY <1>4, <1>5, FS_Injection
<1>7. \A x \in S : \E i \in 1 .. n : s[i] = x
  BY <1>6 DEF Surjection
<1>8. Len(s) = n
  BY <1>1, <1>3
<1> QED BY <1>1, <1>3, <1>7, <1>8

LEMMA FiniteCollections == ASSUME NEW S \in SUBSET Collections PROVE IsFiniteSet(S)
<1> DEFINE all == <<"label", "attributesB", "attributesN", "attributesD", "attributesS",
                    "tag", "field">>
<1>1. all \in Seq(Collections) /\ Len(all) = 7
  BY DEF Collections
<1>2. \A f \in Collections : \E n \in 1 .. 7 : all[n] = f
  BY DEF Collections
<1>3. IsFiniteSet(Collections)
  BY <1>1, <1>2 DEF IsFiniteSet
<1> QED BY <1>3, FS_Subset

-----------------------------------------------------------------------------
(* Shapes, and what an object holds of what was asked for *)

Values == {None, "", "mine", "changed", "production"} \cup LogLevels
            \cup Keys \cup EnvKeys \cup EnvApplications

AllItems == {1, 2} \cup Types

Object == [holder : {"app", "builder", "handler"}, kind : {"log", "logBeat", "logCache"},
           fields : [Fields -> Values], cell : [Collections -> Nat]]
Wanted == [fields : [Fields -> Values], items : [Collections -> SUBSET AllItems]]

Shapes ==
  /\ heap \in Seq(Object) /\ asked \in Seq(Wanted) /\ logged \in Seq(Nat)
  /\ cells \in Seq(SUBSET AllItems)
  /\ Len(asked) = Len(heap) /\ Len(logged) = Len(heap)
  /\ \A o \in DOMAIN heap, f \in Collections : heap[o].cell[f] <= Len(cells)

(* An object that two others came of holds what was asked of it and no     *)
(* more: nothing is written into a list or map that exists.                *)
ItemsAsAsked ==
  \A o \in DOMAIN heap, f \in Collections : Items(heap[o].cell[f]) = asked[o].items[f]

(* Only log() changes the fields of an entry, and nobody logs a builder's. *)
FieldsAsAsked ==
  \A o \in DOMAIN heap :
    /\ logged[o] = 0 => heap[o].fields = asked[o].fields
    /\ heap[o].holder = "builder" => logged[o] = 0

ObjectsInv == Shapes /\ ItemsAsAsked /\ FieldsAsAsked

ItemsIn(all, i) == IF i = 0 THEN {} ELSE all[i]

(* A new object whose lists and maps, among the old ones and some new, are *)
(* as they were asked for.                                                 *)
Fits(object, want, all) ==
  /\ object \in Object /\ want \in Wanted /\ all \in Seq(SUBSET AllItems)
  /\ Len(cells) <= Len(all) /\ \A i \in 1 .. Len(cells) : all[i] = cells[i]
  /\ \A f \in Collections : /\ object.cell[f] <= Len(all)
                            /\ ItemsIn(all, object.cell[f]) = want.items[f]

(* The old objects keep what they hold.                                    *)
OldKept ==
  /\ DOMAIN heap' = DOMAIN heap \cup {New}
  /\ \A o \in DOMAIN heap : heap'[o] = heap[o] /\ asked'[o] = asked[o] /\ logged'[o] = logged[o]

LEMMA NewObject ==
  ASSUME ObjectsInv, NEW object, NEW want, NEW all, NEW n \in {0, 1},
         Fits(object, want, all),
         n = 0 => object.fields = want.fields,
         object.holder = "builder" => n = 0,
         heap' = Append(heap, object), cells' = all, asked' = Append(asked, want),
         logged' = Append(logged, n)
  PROVE  /\ ObjectsInv' /\ OldKept
         /\ heap'[New] = object /\ asked'[New] = want /\ logged'[New] = n
<1>0. /\ heap \in Seq(Object) /\ asked \in Seq(Wanted) /\ logged \in Seq(Nat)
      /\ cells \in Seq(SUBSET AllItems)
      /\ Len(asked) = Len(heap) /\ Len(logged) = Len(heap)
      /\ \A o \in DOMAIN heap, f \in Collections : heap[o].cell[f] <= Len(cells)
      /\ object \in Object /\ want \in Wanted /\ all \in Seq(SUBSET AllItems)
  BY DEF ObjectsInv, Shapes, Fits
<1>1. /\ heap' \in Seq(Object) /\ asked' \in Seq(Wanted) /\ logged' \in Seq(Nat)
      /\ cells' \in Seq(SUBSET AllItems)
      /\ Len(heap') = Len(heap) + 1 /\ Len(asked') = Len(heap') /\ Len(logged') = Len(heap')
  BY <1>0
<1>2. /\ DOMAIN heap = 1 .. Len(heap) /\ DOMAIN heap' = 1 .. New /\ Len(heap) \in Nat
      /\ New = Len(heap) + 1 /\ Len(cells) \in Nat /\ Len(all) \in Nat
  BY <1>0, <1>1 DEF New
<1>3. OldKept
  BY <1>0, <1>2 DEF OldKept
<1>4. heap'[New] = object /\ asked'[New] = want /\ logged'[New] = n
  BY <1>0, <1>2
<1>5. ASSUME NEW o \in DOMAIN heap' PROVE o = New \/ o \in DOMAIN heap
  BY <1>2
<1>6. ASSUME NEW o \in DOMAIN heap', NEW f \in Collections
      PROVE  heap'[o].cell[f] <= Len(cells') /\ ItemsIn(cells', heap'[o].cell[f]) = asked'[o].items[f]
  <2>1. CASE o = New
    BY <1>4, <2>1 DEF Fits
  <2>2. CASE o \in DOMAIN heap
    <3>1. heap'[o] = heap[o] /\ asked'[o] = asked[o] /\ heap[o] \in Object
      BY <1>0, <1>2, <1>3, <2>2 DEF OldKept
    <3>2. heap[o].cell[f] \in Nat
      BY <3>1 DEF Object
    <3>3. heap[o].cell[f] <= Len(cells) /\ Items(heap[o].cell[f]) = asked[o].items[f]
      BY <2>2 DEF ObjectsInv, Shapes, ItemsAsAsked
    <3>4. heap[o].cell[f] # 0 => cells'[heap[o].cell[f]] = cells[heap[o].cell[f]]
      BY <1>2, <3>2, <3>3 DEF Fits
    <3>5. Len(cells) <= Len(cells')
      BY DEF Fits
    <3> QED BY <1>2, <3>1, <3>2, <3>3, <3>4, <3>5 DEF Items, ItemsIn
  <2> QED BY <1>5, <2>1, <2>2
<1>7. FieldsAsAsked'
  <2> SUFFICES ASSUME NEW o \in DOMAIN heap'
               PROVE  /\ logged'[o] = 0 => heap'[o].fields = asked'[o].fields
                      /\ heap'[o].holder = "builder" => logged'[o] = 0
    BY DEF FieldsAsAsked
  <2>1. CASE o = New
    BY <1>4, <2>1
  <2>2. CASE o \in DOMAIN heap
    BY <1>3, <2>2 DEF OldKept, ObjectsInv, FieldsAsAsked
  <2> QED BY <1>5, <2>1, <2>2
<1> QED BY <1>1, <1>3, <1>4, <1>6, <1>7 DEF ObjectsInv, Shapes, ItemsAsAsked, Items, ItemsIn

-----------------------------------------------------------------------------
(* The builders *)

(* The lists and maps of an old object fit a new one that shares them.     *)
LEMMA Shares ==
  ASSUME ObjectsInv, NEW o \in DOMAIN heap
  PROVE  /\ heap[o] \in Object /\ asked[o] \in Wanted /\ cells \in Seq(SUBSET AllItems)
         /\ Len(cells) \in Nat
         /\ \A f \in Collections :
              /\ heap[o].cell[f] \in 0 .. Len(cells)
              /\ ItemsIn(cells, heap[o].cell[f]) = asked[o].items[f]
              /\ asked[o].items[f] \in SUBSET AllItems
<1>1. /\ heap \in Seq(Object) /\ asked \in Seq(Wanted) /\ cells \in Seq(SUBSET AllItems)
      /\ Len(asked) = Len(heap)
      /\ \A f \in Collections : heap[o].cell[f] <= Len(cells)
      /\ \A f \in Collections : Items(heap[o].cell[f]) = asked[o].items[f]
  BY DEF ObjectsInv, Shapes, ItemsAsAsked
<1>2. heap[o] \in Object /\ asked[o] \in Wanted /\ Len(cells) \in Nat
  BY <1>1
<1>3. \A f \in Collections : /\ heap[o].cell[f] \in Nat
                             /\ asked[o].items[f] \in SUBSET AllItems
  BY <1>2 DEF Object, Wanted
<1> QED BY <1>1, <1>2, <1>3 DEF Items, ItemsIn

LEMMA AllocateKeeps ==
  ASSUME ObjectsInv, NEW object, NEW want, NEW all,
         Fits(object, want, all), object.fields = want.fields, Allocate(object, want, all)
  PROVE  ObjectsInv' /\ OldKept
BY NewObject DEF Allocate

BuilderStep(b) == Setter(b) \/ SetException(b) \/ AddToLog(b) \/ AddToBeat(b) \/ Build(b)

(* A blank entry, made by the application or by a builder.                 *)
LEMMA NewEntryKeeps ==
  ASSUME ObjectsInv, NEW kind \in Kinds, NewEntry(kind) \/ Create(kind)
  PROVE  ObjectsInv' /\ OldKept
<1>0. cells \in Seq(SUBSET AllItems) /\ Len(cells) \in Nat
  BY DEF ObjectsInv, Shapes
<1>1. PICK holder \in {"app", "builder"}, fields \in [Fields -> {None, "mine"}] :
        Allocate(Entry(holder, kind, fields), Want(fields, Nothing), cells)
  BY DEF NewEntry, Create, Becomes, Blank
<1>2. kind \in {"log", "logBeat", "logCache"}
  BY EntryObjectsAssumption DEF EntryObjectsAssumption
<1>3. fields \in [Fields -> Values]
  BY DEF Values
<1>4. Entry(holder, kind, fields) \in Object /\ Want(fields, Nothing) \in Wanted
  BY <1>2, <1>3 DEF Entry, Object, Want, Nothing, Wanted
<1>5. Fits(Entry(holder, kind, fields), Want(fields, Nothing), cells)
  BY <1>0, <1>4 DEF Fits, Entry, Want, Nothing, ItemsIn
<1>6. Entry(holder, kind, fields).fields = Want(fields, Nothing).fields
  BY DEF Entry, Want
<1> QED BY <1>1, <1>5, <1>6, AllocateKeeps

(* A setter of a field shares every list and map.                          *)
LEMMA SetFieldKeeps ==
  ASSUME ObjectsInv, NEW b \in HeldBy("builder"), NEW f \in Fields, NEW value \in Values,
         SetField(b, f, value)
  PROVE  ObjectsInv' /\ OldKept
<1> DEFINE object == [heap[b] EXCEPT !.fields[f] = value]
           want == [asked[b] EXCEPT !.fields[f] = value]
<1>0. b \in DOMAIN heap /\ heap[b].holder = "builder" /\ heap[b].fields = asked[b].fields
  BY DEF HeldBy, ObjectsInv, FieldsAsAsked
<1>1. /\ heap[b] \in Object /\ asked[b] \in Wanted /\ cells \in Seq(SUBSET AllItems)
      /\ Len(cells) \in Nat
      /\ \A g \in Collections : /\ heap[b].cell[g] \in 0 .. Len(cells)
                                /\ ItemsIn(cells, heap[b].cell[g]) = asked[b].items[g]
  BY <1>0, Shares
<1>2. object \in Object /\ want \in Wanted
  BY <1>1 DEF Object, Wanted
<1>3. object.cell = heap[b].cell /\ want.items = asked[b].items /\ object.fields = want.fields
  BY <1>0, <1>1 DEF Object, Wanted
<1> HIDE DEF object, want
<1>4. Fits(object, want, cells)
  BY <1>1, <1>2, <1>3 DEF Fits
<1>5. Allocate(object, want, cells)
  BY DEF SetField, Becomes, object, want
<1> QED BY <1>3, <1>4, <1>5, AllocateKeeps

(* What is added goes into a copy.                                         *)
LEMMA AddItemKeeps ==
  ASSUME ObjectsInv, NEW b \in HeldBy("builder"), NEW f \in Collections, NEW item \in AllItems,
         AddItem(b, f, item, f)
  PROVE  ObjectsInv' /\ OldKept
<1> DEFINE added == Items(heap[b].cell[f]) \cup {item}
           all == Append(cells, added)
           object == [heap[b] EXCEPT !.cell[f] = Len(cells) + 1]
           want == [asked[b] EXCEPT !.items[f] = @ \cup {item}]
<1>0. b \in DOMAIN heap /\ heap[b].holder = "builder" /\ heap[b].fields = asked[b].fields
  BY DEF HeldBy, ObjectsInv, FieldsAsAsked
<1>1. /\ heap[b] \in Object /\ asked[b] \in Wanted /\ cells \in Seq(SUBSET AllItems)
      /\ Len(cells) \in Nat
      /\ \A g \in Collections : /\ heap[b].cell[g] \in 0 .. Len(cells)
                                /\ ItemsIn(cells, heap[b].cell[g]) = asked[b].items[g]
                                /\ asked[b].items[g] \in SUBSET AllItems
  BY <1>0, Shares
<1>2. added = asked[b].items[f] \cup {item} /\ added \in SUBSET AllItems
  BY <1>1 DEF Items, ItemsIn
<1> HIDE DEF added
<1>3. /\ all \in Seq(SUBSET AllItems) /\ Len(all) = Len(cells) + 1
      /\ all[Len(cells) + 1] = added /\ \A i \in 1 .. Len(cells) : all[i] = cells[i]
  BY <1>1, <1>2
<1>4. /\ object \in Object /\ object.fields = heap[b].fields
      /\ \A g \in Collections : object.cell[g] = IF g = f THEN Len(cells) + 1
                                                 ELSE heap[b].cell[g]
  <2> DEFINE cell == [heap[b].cell EXCEPT ![f] = Len(cells) + 1]
  <2>1. heap[b].cell \in [Collections -> Nat]
    BY <1>1 DEF Object
  <2>2. cell \in [Collections -> Nat]
    BY <1>1, <2>1
  <2>3. \A g \in Collections : cell[g] = IF g = f THEN Len(cells) + 1 ELSE heap[b].cell[g]
    BY <2>1
  <2>4. object = [heap[b] EXCEPT !.cell = cell]
    OBVIOUS
  <2> HIDE DEF cell, object
  <2>5. object \in Object /\ object.fields = heap[b].fields /\ object.cell = cell
    BY <1>1, <2>2, <2>4 DEF Object
  <2> QED BY <2>3, <2>5
<1>5. /\ want \in Wanted /\ want.fields = asked[b].fields
      /\ \A g \in Collections : want.items[g] = IF g = f THEN added ELSE asked[b].items[g]
  BY <1>1, <1>2 DEF Wanted
<1>6. Allocate(object, want, all)
  BY DEF AddItem, Added, Becomes, added
<1> HIDE DEF object, want, all
<1>7. ASSUME NEW g \in Collections
      PROVE  object.cell[g] <= Len(all) /\ ItemsIn(all, object.cell[g]) = want.items[g]
  <2>1. CASE g = f
    BY <1>1, <1>3, <1>4, <1>5, <2>1 DEF ItemsIn
  <2>2. CASE g # f
    <3>1. object.cell[g] = heap[b].cell[g] /\ want.items[g] = asked[b].items[g]
      BY <1>4, <1>5, <2>2
    <3>2. heap[b].cell[g] \in 0 .. Len(cells)
      BY <1>1
    <3>3. heap[b].cell[g] # 0 => all[heap[b].cell[g]] = cells[heap[b].cell[g]]
      BY <1>3, <3>2
    <3> QED BY <1>1, <1>3, <3>1, <3>2, <3>3 DEF ItemsIn
  <2> QED BY <2>1, <2>2
<1>8. Fits(object, want, all)
  BY <1>1, <1>3, <1>4, <1>5, <1>7 DEF Fits
<1> QED BY <1>0, <1>4, <1>5, <1>6, <1>8, AllocateKeeps

(* New lists and maps, one for each field that has something: f gets the   *)
(* content content[f] (deepcopy(), and the attributes of a log record).    *)
CopiesOf(U, content) == [i \in DOMAIN SetToSeq(U) |-> content[SetToSeq(U)[i]]]

CellsOf(U) ==
  [f \in Collections |->
     IF f \in U THEN Len(cells) + CHOOSE i \in DOMAIN SetToSeq(U) : SetToSeq(U)[i] = f
     ELSE 0]

LEMMA Copied ==
  ASSUME cells \in Seq(SUBSET AllItems), NEW U \in SUBSET Collections,
         NEW content \in [U -> SUBSET AllItems]
  PROVE  LET all  == cells \o CopiesOf(U, content)
             cell == CellsOf(U)
         IN  /\ all \in Seq(SUBSET AllItems)
             /\ Len(cells) <= Len(all) /\ \A i \in 1 .. Len(cells) : all[i] = cells[i]
             /\ cell \in [Collections -> Nat]
             /\ \A f \in Collections :
                  /\ cell[f] <= Len(all)
                  /\ ItemsIn(all, cell[f]) = IF f \in U THEN content[f] ELSE {}
<1> DEFINE used == SetToSeq(U)
           n == Len(used)
           copies == CopiesOf(U, content)
           cell == CellsOf(U)
<1>1. n \in Nat /\ used \in [1 .. n -> U] /\ \A f \in U : \E i \in 1 .. n : used[i] = f
  BY FiniteCollections, Listing
<1>2. copies = [i \in DOMAIN used |-> content[used[i]]]
  BY DEF CopiesOf
<1>2a. cell = [f \in Collections |->
                 IF f \in U THEN Len(cells) + CHOOSE i \in DOMAIN used : used[i] = f ELSE 0]
  BY DEF CellsOf
<1> HIDE DEF used, n, copies, cell
<1>3. DOMAIN used = 1 .. n
  BY <1>1
<1>4. copies \in [1 .. n -> SUBSET AllItems]
  BY <1>1, <1>2, <1>3
<1>5. copies \in Seq(SUBSET AllItems) /\ Len(copies) = n
  BY <1>1, <1>4
<1>6. Len(cells) \in Nat
  OBVIOUS
<1>7. /\ cells \o copies \in Seq(SUBSET AllItems)
      /\ Len(cells \o copies) = Len(cells) + n
      /\ \A i \in 1 .. Len(cells) + n :
           (cells \o copies)[i] = IF i <= Len(cells) THEN cells[i] ELSE copies[i - Len(cells)]
  BY <1>5, ConcatProperties
<1>8. \A i \in 1 .. Len(cells) : (cells \o copies)[i] = cells[i]
  BY <1>1, <1>6, <1>7
<1>9. ASSUME NEW f \in Collections
      PROVE  /\ cell[f] \in Nat /\ cell[f] <= Len(cells \o copies)
             /\ ItemsIn(cells \o copies, cell[f]) = IF f \in U THEN content[f] ELSE {}
  <2>1. CASE f \in U
    <3> DEFINE i == CHOOSE j \in DOMAIN used : used[j] = f
    <3>1. i \in 1 .. n /\ used[i] = f
      BY <1>1, <1>3, <2>1
    <3>2. cell[f] = Len(cells) + i
      BY <1>2a, <2>1
    <3> HIDE DEF i
    <3>3. copies[i] = content[f]
      BY <1>2, <1>3, <3>1
    <3>4. (cells \o copies)[Len(cells) + i] = copies[i]
      <4>1. Len(cells) + i \in 1 .. Len(cells) + n /\ ~(Len(cells) + i <= Len(cells))
        BY <1>1, <1>6, <3>1
      <4>2. (Len(cells) + i) - Len(cells) = i
        BY <1>1, <1>6, <3>1
      <4> QED BY <1>7, <4>1, <4>2
    <3> QED BY <1>1, <1>6, <1>7, <2>1, <3>1, <3>2, <3>3, <3>4 DEF ItemsIn
  <2>2. CASE f \notin U
    BY <1>1, <1>2a, <1>6, <1>7, <2>2 DEF ItemsIn
  <2> QED BY <2>1, <2>2
<1>10. cell \in [Collections -> Nat]
  BY <1>2a, <1>9
<1>11. Len(cells) <= Len(cells \o copies)
  BY <1>1, <1>6, <1>7
<1> QED BY <1>7, <1>8, <1>9, <1>10, <1>11, Zenon DEF copies, cell

LEMMA BuildKeeps ==
  ASSUME ObjectsInv, NEW b \in HeldBy("builder"), Build(b)
  PROVE  ObjectsInv' /\ OldKept
<1> DEFINE U == {f \in Collections : heap[b].cell[f] # 0}
           content == [f \in U |-> cells[heap[b].cell[f]]]
           used == SetToSeq(U)
           copies == [i \in DOMAIN used |-> cells[heap[b].cell[used[i]]]]
           cell == [f \in Collections |->
                      IF heap[b].cell[f] = 0 THEN 0
                      ELSE Len(cells) + CHOOSE i \in DOMAIN used : used[i] = f]
           object == [heap[b] EXCEPT !.cell = cell, !.holder = "app"]
<1>0. b \in DOMAIN heap /\ heap[b].holder = "builder" /\ heap[b].fields = asked[b].fields
  BY DEF HeldBy, ObjectsInv, FieldsAsAsked
<1>1. /\ heap[b] \in Object /\ asked[b] \in Wanted /\ cells \in Seq(SUBSET AllItems)
      /\ Len(cells) \in Nat
      /\ \A g \in Collections : /\ heap[b].cell[g] \in 0 .. Len(cells)
                                /\ ItemsIn(cells, heap[b].cell[g]) = asked[b].items[g]
                                /\ asked[b].items[g] \in SUBSET AllItems
  BY <1>0, Shares
<1>2. Allocate(object, asked[b], cells \o copies)
  BY DEF Build
<1>3. content \in [U -> SUBSET AllItems]
  BY <1>1 DEF ItemsIn
<1>4. \A f \in Collections : (IF f \in U THEN content[f] ELSE {}) = asked[b].items[f]
  BY <1>1 DEF ItemsIn
<1>5. copies = CopiesOf(U, content)
  <2>1. IsFiniteSet(U)
    BY FiniteCollections
  <2>2. used \in [1 .. Len(used) -> U]
    BY <2>1, Listing
  <2>3. \A i \in DOMAIN used : content[used[i]] = cells[heap[b].cell[used[i]]]
    BY <2>2
  <2> HIDE DEF content
  <2> QED BY <2>3 DEF CopiesOf
<1>6. cell = CellsOf(U)
  <2>1. \A f \in Collections : f \in U <=> heap[b].cell[f] # 0
    OBVIOUS
  <2> QED BY <2>1 DEF CellsOf
<1>7. U \in SUBSET Collections
  OBVIOUS
<1>8. object = [heap[b] EXCEPT !.cell = cell, !.holder = "app"]
  OBVIOUS
<1> HIDE DEF cell, copies, content, used, U, object
<1>9. /\ cells \o copies \in Seq(SUBSET AllItems)
      /\ Len(cells) <= Len(cells \o copies)
      /\ \A i \in 1 .. Len(cells) : (cells \o copies)[i] = cells[i]
      /\ cell \in [Collections -> Nat]
      /\ \A f \in Collections :
           /\ cell[f] <= Len(cells \o copies)
           /\ ItemsIn(cells \o copies, cell[f]) = IF f \in U THEN content[f] ELSE {}
  BY <1>1, <1>3, <1>5, <1>6, <1>7, Copied
<1>10. object \in Object /\ object.cell = cell /\ object.fields = heap[b].fields
  BY <1>1, <1>8, <1>9 DEF Object
<1>11. Fits(object, asked[b], cells \o copies)
  BY <1>1, <1>4, <1>9, <1>10 DEF Fits
<1> QED BY <1>0, <1>2, <1>10, <1>11, AllocateKeeps

LEMMA BuilderKeeps ==
  ASSUME ObjectsInv, NEW b \in HeldBy("builder"), BuilderStep(b)
  PROVE  ObjectsInv' /\ OldKept
<1>1. CASE Setter(b)
  <2>1. {"application", "environment", "level"} \subseteq Fields
        /\ {"mine", "Trace"} \subseteq Values
    BY DEF Fields, Values, LogLevels
  <2>2. Settable(heap[b].kind) \subseteq {"application", "environment", "level"}
    BY DEF Settable
  <2> QED BY <1>1, <2>1, <2>2, SetFieldKeeps DEF Setter
<1>2. CASE SetException(b)
  <2> DEFINE level == asked[b].fields.level
  <2>1. b \in DOMAIN heap /\ heap[b].fields = asked[b].fields
    BY DEF HeldBy, ObjectsInv, FieldsAsAsked
  <2>2. heap[b] \in Object /\ asked[b] \in Wanted
    BY <2>1, Shares
  <2>3. level \in Values /\ "level" \in Fields /\ "Exception" \in Values
    BY <2>2 DEF Wanted, Fields, Values, LogLevels
  <2>4. SetField(b, "level", LevelOfException(level))
    <3>1. /\ heap[b].fields["level"] = level
          /\ [heap[b] EXCEPT !.fields.level = LevelOfException(@)]
               = [heap[b] EXCEPT !.fields["level"] = LevelOfException(level)]
      BY <2>1, <2>2, <2>3 DEF Object
    <3>2. [asked[b] EXCEPT !.fields.level = IF level = None THEN "Exception" ELSE @]
            = [asked[b] EXCEPT !.fields["level"] = LevelOfException(level)]
      BY <2>2 DEF LevelOfException, Wanted
    <3> QED BY <1>2, <3>1, <3>2 DEF SetException, SetField
  <2> QED BY <2>3, <2>4, SetFieldKeeps DEF LevelOfException
<1>3. CASE AddToLog(b)
  <2>1. \A type \in Types : FieldOf(type) = FieldMeant[type] /\ FieldOf(type) \in Collections
    BY EntryObjectsAssumption, AttributesMapped
       DEF EntryObjectsAssumption, FieldMeant, Collections
  <2>2. "label" \in Collections /\ {1, 2} \cup Types \subseteq AllItems
    BY DEF Collections, AllItems
  <2> QED BY <1>3, <2>1, <2>2, AddItemKeeps DEF AddToLog
<1>4. CASE AddToBeat(b)
  <2>1. {"tag", "field"} \subseteq Collections /\ 1 \in AllItems
    BY DEF Collections, AllItems
  <2> QED BY <1>4, <2>1, AddItemKeeps DEF AddToBeat
<1>5. CASE Build(b)
  BY <1>5, BuildKeeps
<1> QED BY <1>1, <1>2, <1>3, <1>4, <1>5 DEF BuilderStep

-----------------------------------------------------------------------------
(* Clients and their keys *)

(* A client that exists has the key it was made with, as long as no other  *)
(* constructor put another key into its options object.                    *)
KeyKept(c) ==
  opts[c] # None /\ opts[c] \notin rekeyed =>
    options[opts[c]].key = own[c] /\ ~Keyless(own[c])

ConfigInv ==
  /\ options \in [OptionObjects -> [key : Values, application : Values]]
  /\ opts \in [Clients -> OptionObjects \cup {None}]
  /\ own \in [Clients -> Values]
  /\ \A c \in Clients : KeyKept(c)

LEMMA ConstructKeeps ==
  ASSUME ConfigInv, NEW c \in Clients, NEW p \in OptionObjects,
         NEW given \in Keys \cup {None, ""}, Construct(c, p, given)
  PROVE  /\ ConfigInv' /\ rekeyed \subseteq rekeyed'
         /\ \A d \in Clients : opts[d] # None => opts'[d] = opts[d] /\ own'[d] = own[d]
<1> DEFINE key == KeyAfter(options[p].key, given)
<1>0. /\ options \in [OptionObjects -> [key : Values, application : Values]]
      /\ opts \in [Clients -> OptionObjects \cup {None}]
      /\ own \in [Clients -> Values]
      /\ opts[c] = None
  BY DEF ConfigInv, Construct
<1>1. given \in Values /\ options[p].key \in Values
  BY <1>0 DEF Values
<1>2. key \in Values /\ key = IF given = None THEN options[p].key ELSE given
  BY <1>1 DEF KeyAfter
<1>3. /\ options' = [options EXCEPT ![p].key = key]
      /\ rekeyed' = IF key # options[p].key /\ \E d \in Clients : opts[d] = p
                    THEN rekeyed \cup {p} ELSE rekeyed
      /\ IF Keyless(key) THEN UNCHANGED <<opts, own>>
         ELSE opts' = [opts EXCEPT ![c] = p] /\ own' = [own EXCEPT ![c] = key]
  BY <1>2 DEF Construct
<1> HIDE DEF key
<1>4. /\ options' \in [OptionObjects -> [key : Values, application : Values]]
      /\ options'[p].key = key
      /\ \A q \in OptionObjects \ {p} : options'[q] = options[q]
  BY <1>0, <1>2, <1>3
<1>5. /\ opts' \in [Clients -> OptionObjects \cup {None}] /\ own' \in [Clients -> Values]
      /\ \A d \in Clients \ {c} : opts'[d] = opts[d] /\ own'[d] = own[d]
  BY <1>0, <1>2, <1>3
<1>6. rekeyed \subseteq rekeyed'
  BY <1>3
<1>7. ASSUME NEW d \in Clients, opts'[d] # None, opts'[d] \notin rekeyed'
      PROVE  options'[opts'[d]].key = own'[d] /\ ~Keyless(own'[d])
  <2>1. CASE d = c
    <3>1. ~Keyless(key) /\ opts'[c] = p /\ own'[c] = key
      BY <1>0, <1>3, <1>7, <2>1
    <3> QED BY <1>4, <2>1, <3>1
  <2>2. CASE d # c
    <3>1. opts'[d] = opts[d] /\ own'[d] = own[d] /\ opts[d] \in OptionObjects
      BY <1>0, <1>5, <1>7, <2>2
    <3>2. options[opts[d]].key = own[d] /\ ~Keyless(own[d])
      BY <1>6, <1>7, <3>1 DEF ConfigInv, KeyKept
    <3>3. CASE opts[d] = p
      <4>1. key = options[p].key
        BY <1>3, <1>7, <3>1, <3>3
      <4> QED BY <1>4, <3>1, <3>2, <3>3, <4>1
    <3>4. CASE opts[d] # p
      BY <1>4, <3>1, <3>2, <3>4
    <3> QED BY <3>3, <3>4
  <2> QED BY <2>1, <2>2
<1>8. \A d \in Clients : opts[d] # None => opts'[d] = opts[d] /\ own'[d] = own[d]
  BY <1>0, <1>5
<1> QED BY <1>4, <1>5, <1>6, <1>7, <1>8 DEF ConfigInv, KeyKept

-----------------------------------------------------------------------------
(* What waits in the batchers *)

Known(m) == /\ m.client \in Clients /\ opts[m.client] # None
            /\ m.object \in DOMAIN heap /\ logged[m.object] > 0

(* An entry that was logged once has the fields its caller asked for and   *)
(* the defaults of that time, and the key of its client.                   *)
Stamps(m) ==
  /\ logged[m.object] = 1 /\ m.object \notin touched =>
       m.meant = Body(heap[m.object].fields, asked[m.object].items)
  /\ (/\ m.stamped /\ logged[m.object] = 1 /\ opts[m.client] \notin rekeyed
      /\ asked[m.object].fields.apiKey = None)
     => heap[m.object].fields.apiKey = own[m.client]

PendingInv == \A m \in pending : Known(m) /\ Stamps(m)

EntryInv == ObjectsInv /\ ConfigInv /\ PendingInv

(* log() fills what the caller left open, and nothing else.                *)
LEMMA StampIsMeant ==
  ASSUME ConfigInv, NEW c \in Clients, opts[c] # None,
         NEW object \in Object, NEW want \in Wanted, object.fields = want.fields
  PROVE  /\ Stamp(c, object) \in Object
         /\ Stamp(c, object).cell = object.cell /\ Stamp(c, object).holder = object.holder
         /\ Body(Stamp(c, object).fields, want.items) = Meant(c, object.kind, want)
         /\ want.fields.apiKey = None => Stamp(c, object).fields.apiKey = options[opts[c]].key
<1> DEFINE stamped == [f \in Fields |->
             IF f \in Stamped(object.kind)
             THEN StampedValue(object.fields[f], Default(c, f)) ELSE object.fields[f]]
<1>1. /\ object.kind \in {"log", "logBeat", "logCache"} /\ object.fields \in [Fields -> Values]
  BY DEF Object
<1>2. Stamp(c, object) = [object EXCEPT !.fields = stamped]
  BY DEF Stamp
<1>3. /\ Stamped(object.kind) \subseteq {"application", "environment", "apiKey"}
      /\ "apiKey" \in Stamped(object.kind)
  BY <1>1 DEF Stamped
<1>4. opts[c] \in OptionObjects /\ options[opts[c]] \in [key : Values, application : Values]
  BY DEF ConfigInv
<1>5. \A f \in Stamped(object.kind) : Default(c, f) \in Values
  BY <1>3, <1>4 DEF Default, Values
<1>6. stamped \in [Fields -> Values]
  BY <1>1, <1>5 DEF StampedValue
<1>7. stamped = [f \in Fields |-> IF want.fields[f] = None /\ f \in Stamped(object.kind)
                                  THEN Default(c, f) ELSE want.fields[f]]
  BY DEF StampedValue
<1>8. want.fields.apiKey = None => stamped.apiKey = options[opts[c]].key
  <2>1. Default(c, "apiKey") = options[opts[c]].key /\ "apiKey" \in Fields
    BY DEF Default, Fields
  <2> QED BY <1>3, <2>1 DEF StampedValue
<1>9. Meant(c, object.kind, want) = Body(stamped, want.items)
  BY <1>7 DEF Meant
<1> HIDE DEF stamped
<1>10. /\ Stamp(c, object) \in Object /\ Stamp(c, object).fields = stamped
       /\ Stamp(c, object).cell = object.cell /\ Stamp(c, object).holder = object.holder
  BY <1>2, <1>6 DEF Object
<1> QED BY <1>8, <1>9, <1>10

(* New objects leave alone what waits.                                     *)
LEMMA PendingKept ==
  ASSUME ObjectsInv, OldKept, NEW m, Known(m), Stamps(m),
         UNCHANGED <<configuration, touched>>
  PROVE  Known(m)' /\ Stamps(m)'
<1>1. m.object \in DOMAIN heap /\ DOMAIN heap = 1 .. Len(heap) /\ Len(heap) \in Nat
  BY DEF ObjectsInv, Shapes, Known
<1>2. /\ heap'[m.object] = heap[m.object] /\ asked'[m.object] = asked[m.object]
      /\ logged'[m.object] = logged[m.object]
  BY <1>1 DEF OldKept
<1>3. m.object \in DOMAIN heap'
  BY <1>1 DEF OldKept
<1> QED BY <1>1, <1>2, <1>3 DEF Known, Stamps, configuration

LEMMA LogKeeps ==
  ASSUME EntryInv, NEW c \in Clients, NEW o \in HeldBy("app"), Log(c, o)
  PROVE  EntryInv'
<1> DEFINE object == Stamp(c, heap[o])
           new == [client |-> c, object |-> o, meant |-> Meant(c, heap[o].kind, asked[o]),
                   stamped |-> TRUE]
<1>0. /\ o \in DOMAIN heap /\ heap[o].holder = "app" /\ opts[c] # None
      /\ heap \in Seq(Object) /\ logged \in Seq(Nat) /\ Len(logged) = Len(heap)
      /\ DOMAIN heap = 1 .. Len(heap) /\ logged[o] \in Nat
  BY DEF EntryInv, ObjectsInv, Shapes, HeldBy, Log
<1>1. /\ heap' = [heap EXCEPT ![o] = object] /\ logged' = [logged EXCEPT ![o] = logged[o] + 1]
      /\ pending' = pending \cup {new}
      /\ UNCHANGED <<configuration, cells, asked, touched>>
  BY DEF Log, Waits
<1>2. /\ heap[o] \in Object /\ asked[o] \in Wanted
      /\ \A f \in Collections : heap[o].cell[f] \in 0 .. Len(cells)
  BY <1>0, Shares DEF EntryInv
<1>3. \A want \in Wanted : heap[o].fields = want.fields =>
        /\ Body(object.fields, want.items) = Meant(c, heap[o].kind, want)
        /\ want.fields.apiKey = None => object.fields.apiKey = options[opts[c]].key
  BY <1>0, <1>2, StampIsMeant DEF EntryInv
<1>4. object \in Object /\ object.cell = heap[o].cell /\ object.holder = "app"
  <2> DEFINE want == [fields |-> heap[o].fields, items |-> asked[o].items]
  <2>1. want \in Wanted /\ heap[o].fields = want.fields
    BY <1>2 DEF Object, Wanted
  <2> HIDE DEF want
  <2> QED BY <1>0, <1>2, <2>1, StampIsMeant DEF EntryInv
<1> HIDE DEF object
<1>5. /\ heap' \in Seq(Object) /\ logged' \in Seq(Nat)
      /\ Len(heap') = Len(heap) /\ Len(logged') = Len(heap) /\ DOMAIN heap' = DOMAIN heap
      /\ heap'[o] = object /\ logged'[o] = logged[o] + 1
      /\ \A q \in DOMAIN heap \ {o} : heap'[q] = heap[q] /\ logged'[q] = logged[q]
  BY <1>0, <1>1, <1>4
<1>6. ObjectsInv'
  <2>1. \A q \in DOMAIN heap : heap'[q].cell = heap[q].cell
    BY <1>4, <1>5
  <2>2. Shapes' /\ ItemsAsAsked'
    BY <1>1, <1>5, <2>1 DEF EntryInv, ObjectsInv, Shapes, ItemsAsAsked, Items
  <2>3. FieldsAsAsked'
    <3> SUFFICES ASSUME NEW q \in DOMAIN heap
                 PROVE  /\ logged'[q] = 0 => heap'[q].fields = asked[q].fields
                        /\ heap'[q].holder = "builder" => logged'[q] = 0
      BY <1>1, <1>5 DEF FieldsAsAsked
    <3>1. CASE q = o
      BY <1>0, <1>4, <1>5, <3>1
    <3>2. CASE q # o
      BY <1>5, <3>2 DEF EntryInv, ObjectsInv, FieldsAsAsked
    <3> QED BY <3>1, <3>2
  <2> QED BY <2>2, <2>3 DEF ObjectsInv
<1>7. ConfigInv'
  BY <1>1 DEF EntryInv, ConfigInv, KeyKept, configuration
<1>8. ASSUME NEW m \in pending PROVE Known(m)' /\ Stamps(m)'
  <2>1. Known(m) /\ Stamps(m)
    BY DEF EntryInv, PendingInv
  <2>2. CASE m.object = o
    <3>1. logged'[m.object] > 1
      BY <1>0, <1>5, <2>1, <2>2 DEF Known
    <3> QED BY <1>1, <1>5, <2>1, <2>2, <3>1 DEF Known, Stamps, configuration
  <2>3. CASE m.object # o
    BY <1>1, <1>5, <2>1, <2>3 DEF Known, Stamps, configuration
  <2> QED BY <2>2, <2>3
<1>9. ASSUME NEW m, m = new PROVE Known(m)' /\ Stamps(m)'
  <2>1. m.client = c /\ m.object = o /\ m.meant = Meant(c, heap[o].kind, asked[o])
    BY <1>9
  <2> HIDE DEF new
  <2>2. Known(m)'
    BY <1>0, <1>1, <1>5, <2>1 DEF Known, configuration
  <2>3. ASSUME logged'[o] = 1
        PROVE  /\ m.meant = Body(heap'[o].fields, asked[o].items)
               /\ asked[o].fields.apiKey = None => heap'[o].fields.apiKey = options[opts[c]].key
    <3>1. heap[o].fields = asked[o].fields
      BY <1>0, <1>5, <2>3 DEF EntryInv, ObjectsInv, FieldsAsAsked
    <3> QED BY <1>2, <1>3, <1>5, <2>1, <3>1
  <2>4. opts[c] \notin rekeyed => options[opts[c]].key = own[c]
    BY <1>0 DEF EntryInv, ConfigInv, KeyKept
  <2>5. UNCHANGED <<opts, own, rekeyed, asked, touched>>
    BY <1>1 DEF configuration
  <2> QED BY <2>1, <2>2, <2>3, <2>4, <2>5 DEF Stamps
<1> HIDE DEF new
<1> QED BY <1>1, <1>6, <1>7, <1>8, <1>9 DEF EntryInv, PendingInv

(* The entry of a log record, before it is stamped.                        *)
IsRecord(n, types, object, want, all) ==
  LET filled == {FieldOf(t) : t \in types}
      used == SetToSeq(filled)
      fields == [Blank EXCEPT !.level = MapLevel(n)]
  IN  /\ all = cells \o [i \in DOMAIN used |-> {t \in types : FieldOf(t) = used[i]}]
      /\ object = [Entry("handler", "log", fields) EXCEPT !.cell =
           [f \in Collections |->
              IF f \in filled THEN Len(cells) + CHOOSE i \in DOMAIN used : used[i] = f ELSE 0]]
      /\ want = Want([Blank EXCEPT !.level = LevelReached(n)],
                     [f \in Collections |-> {t \in types : FieldMeant[t] = f}])

LEMMA RecordEntry ==
  ASSUME ObjectsInv, NEW n \in RecordLevels, NEW types \in SUBSET Types,
         NEW object, NEW want, NEW all, IsRecord(n, types, object, want, all)
  PROVE  /\ Fits(object, want, all) /\ object.fields = want.fields
         /\ object.kind = "log" /\ object.holder = "handler"
<1> DEFINE U == {FieldOf(t) : t \in types}
           used == SetToSeq(U)
           content == [f \in U |-> {t \in types : FieldOf(t) = f}]
           copies == [i \in DOMAIN used |-> {t \in types : FieldOf(t) = used[i]}]
           cell == [f \in Collections |->
                      IF f \in U THEN Len(cells) + CHOOSE i \in DOMAIN used : used[i] = f
                      ELSE 0]
           fields == [Blank EXCEPT !.level = MapLevel(n)]
           items == [f \in Collections |-> {t \in types : FieldMeant[t] = f}]
<1>1. /\ all = cells \o copies
      /\ object = [Entry("handler", "log", fields) EXCEPT !.cell = cell]
      /\ want = Want([Blank EXCEPT !.level = LevelReached(n)], items)
  BY DEF IsRecord
<1>2. MapLevel(n) = LevelReached(n) /\ n \in Int
  BY EntryObjectsAssumption, LevelsMapped DEF EntryObjectsAssumption
<1>3. \A t \in types : FieldOf(t) = FieldMeant[t] /\ FieldOf(t) \in Collections
  BY EntryObjectsAssumption, AttributesMapped
     DEF EntryObjectsAssumption, FieldMeant, Collections
<1>4. U \in SUBSET Collections
  BY <1>3
<1>5. content \in [U -> SUBSET AllItems]
  BY DEF AllItems
<1>6. items \in [Collections -> SUBSET AllItems]
      /\ \A f \in Collections : items[f] = IF f \in U THEN content[f] ELSE {}
  BY <1>3 DEF AllItems
<1>7. copies = CopiesOf(U, content)
  <2>1. IsFiniteSet(U)
    BY <1>4, FiniteCollections
  <2>2. used \in [1 .. Len(used) -> U]
    BY <2>1, Listing
  <2>3. \A i \in DOMAIN used : content[used[i]] = {t \in types : FieldOf(t) = used[i]}
    BY <2>2
  <2> HIDE DEF content
  <2> QED BY <2>3 DEF CopiesOf
<1>8. cell = CellsOf(U)
  BY DEF CellsOf
<1>9. fields = [Blank EXCEPT !.level = LevelReached(n)] /\ fields \in [Fields -> Values]
  <2>1. MapLevel(n) \in Values
    BY <1>2 DEF MapLevel, StandardLevel, Values, LogLevels
  <2>2. Blank \in [Fields -> Values]
    BY DEF Blank, Values
  <2> QED BY <1>2, <2>1, <2>2
<1>10. cells \in Seq(SUBSET AllItems)
  BY DEF ObjectsInv, Shapes
<1> HIDE DEF U, used, content, copies, cell, fields, items
<1>11. /\ cells \o copies \in Seq(SUBSET AllItems)
       /\ Len(cells) <= Len(cells \o copies)
       /\ \A i \in 1 .. Len(cells) : (cells \o copies)[i] = cells[i]
       /\ cell \in [Collections -> Nat]
       /\ \A f \in Collections :
            /\ cell[f] <= Len(cells \o copies)
            /\ ItemsIn(cells \o copies, cell[f]) = IF f \in U THEN content[f] ELSE {}
  BY <1>4, <1>5, <1>7, <1>8, <1>10, Copied
<1>12. /\ object \in Object /\ object.fields = fields /\ object.kind = "log"
       /\ object.holder = "handler" /\ object.cell = cell
  BY <1>1, <1>9, <1>11 DEF Entry, Object
<1>13. want \in Wanted /\ want.fields = fields /\ want.items = items
  BY <1>1, <1>6, <1>9 DEF Want, Wanted
<1>14. Fits(object, want, all)
  BY <1>1, <1>6, <1>11, <1>12, <1>13 DEF Fits
<1> QED BY <1>12, <1>13, <1>14

LEMMA EmitKeeps ==
  ASSUME EntryInv, NEW c \in Clients, NEW n \in RecordLevels, NEW types \in SUBSET Types,
         Emit(c, n, types)
  PROVE  EntryInv'
<1>1. PICK object, want, all :
        /\ IsRecord(n, types, object, want, all)
        /\ opts[c] # None
        /\ heap' = Append(heap, IF c \notin AsyncClients THEN Stamp(c, object) ELSE object)
        /\ cells' = all /\ asked' = Append(asked, want) /\ logged' = Append(logged, 1)
        /\ Waits(c, New, IF c \notin AsyncClients THEN Meant(c, "log", want)
                         ELSE Body(want.fields, want.items), c \notin AsyncClients)
        /\ UNCHANGED <<configuration, touched>>
  BY DEF Emit, IsRecord
<1>2. /\ Fits(object, want, all) /\ object.fields = want.fields
      /\ object.kind = "log" /\ object.holder = "handler"
  BY <1>1, RecordEntry DEF EntryInv
<1> DEFINE entry == IF c \notin AsyncClients THEN Stamp(c, object) ELSE object
           meant == IF c \notin AsyncClients THEN Meant(c, "log", want)
                    ELSE Body(want.fields, want.items)
<1>3. object \in Object /\ want \in Wanted
  BY <1>2 DEF Fits
<1>4. /\ entry \in Object /\ entry.cell = object.cell /\ entry.holder = "handler"
      /\ meant = Body(entry.fields, want.items)
      /\ c \notin AsyncClients /\ want.fields.apiKey = None =>
           entry.fields.apiKey = options[opts[c]].key
  BY <1>1, <1>2, <1>3, StampIsMeant DEF EntryInv
<1>5. /\ heap' = Append(heap, entry) /\ UNCHANGED <<configuration, touched>>
      /\ pending' = pending \cup {[client |-> c, object |-> New, meant |-> meant,
                                   stamped |-> c \notin AsyncClients]}
  BY <1>1 DEF Waits
<1> HIDE DEF entry, meant
<1>6. Fits(entry, want, all)
  BY <1>2, <1>4 DEF Fits
<1>7. /\ ObjectsInv' /\ OldKept
      /\ heap'[New] = entry /\ asked'[New] = want /\ logged'[New] = 1
  <2>1. cells' = all /\ asked' = Append(asked, want) /\ logged' = Append(logged, 1)
    BY <1>1
  <2>2. heap' = Append(heap, entry) /\ entry.holder # "builder" /\ ObjectsInv
    BY <1>4, <1>5 DEF EntryInv
  <2>3. 1 \in {0, 1} /\ 1 # 0
    OBVIOUS
  <2> QED BY <1>6, <2>1, <2>2, <2>3, NewObject
<1>8. ConfigInv'
  BY <1>5 DEF EntryInv, ConfigInv, KeyKept, configuration
<1>9. ASSUME NEW m \in pending PROVE Known(m)' /\ Stamps(m)'
  BY <1>5, <1>7, PendingKept DEF EntryInv, PendingInv
<1>10. ASSUME NEW m, m = [client |-> c, object |-> New, meant |-> meant,
                          stamped |-> c \notin AsyncClients]
       PROVE  Known(m)' /\ Stamps(m)'
  <2>1. /\ m.client = c /\ m.object = New /\ m.meant = meant
        /\ m.stamped = (c \notin AsyncClients)
    BY <1>10
  <2>2. UNCHANGED <<opts, own, rekeyed>>
    BY <1>5 DEF configuration
  <2>3. New \in DOMAIN heap'
    BY <1>7 DEF OldKept
  <2>4. opts[c] \notin rekeyed => options[opts[c]].key = own[c]
    BY <1>1 DEF EntryInv, ConfigInv, KeyKept
  <2>5. Known(m)'
    <3>1. opts'[m.client] # None /\ m.client \in Clients
      BY <1>1, <2>1, <2>2
    <3>2. m.object \in DOMAIN heap'
      BY <2>1, <2>3
    <3>3. logged'[m.object] > 0
      BY <1>7, <2>1
    <3> QED BY <3>1, <3>2, <3>3 DEF Known
  <2>6. Stamps(m)'
    BY <1>4, <1>7, <2>1, <2>2, <2>4 DEF Stamps
  <2> QED BY <2>5, <2>6
<1> QED BY <1>5, <1>7, <1>8, <1>9, <1>10 DEF EntryInv, PendingInv

(* What the application changes itself it has asked for.                   *)
LEMMA AppSetsKeeps ==
  ASSUME EntryInv, NEW o \in HeldBy("app"), AppSets(o)
  PROVE  EntryInv'
<1>0. /\ o \in DOMAIN heap /\ logged[o] > 0
      /\ heap \in Seq(Object) /\ asked \in Seq(Wanted) /\ logged \in Seq(Nat)
      /\ Len(asked) = Len(heap) /\ DOMAIN heap = 1 .. Len(heap) /\ DOMAIN asked = DOMAIN heap
  BY DEF EntryInv, ObjectsInv, Shapes, HeldBy, AppSets
<1> DEFINE object == [heap[o] EXCEPT !.fields.apiKey = "changed"]
           want == [asked[o] EXCEPT !.fields.apiKey = "changed"]
<1>1. /\ heap' = [heap EXCEPT ![o] = object] /\ asked' = [asked EXCEPT ![o] = want]
      /\ touched' = touched \cup {o}
      /\ UNCHANGED <<configuration, cells, logged, pending>>
  BY DEF AppSets
<1>2. heap[o] \in Object /\ asked[o] \in Wanted
  BY <1>0
<1>3. /\ object \in Object /\ object.cell = heap[o].cell /\ object.holder = heap[o].holder
      /\ want \in Wanted /\ want.items = asked[o].items /\ want.fields.apiKey = "changed"
  BY <1>2 DEF Object, Wanted, Values, Fields
<1> HIDE DEF object, want
<1>4. /\ heap' \in Seq(Object) /\ asked' \in Seq(Wanted)
      /\ Len(heap') = Len(heap) /\ Len(asked') = Len(heap) /\ DOMAIN heap' = DOMAIN heap
      /\ heap'[o] = object /\ asked'[o] = want
      /\ \A q \in DOMAIN heap \ {o} : heap'[q] = heap[q] /\ asked'[q] = asked[q]
  BY <1>0, <1>1, <1>3
<1>5. ObjectsInv'
  <2>1. \A q \in DOMAIN heap : /\ heap'[q].cell = heap[q].cell
                               /\ heap'[q].holder = heap[q].holder
                               /\ asked'[q].items = asked[q].items
    BY <1>3, <1>4
  <2>2. Shapes' /\ ItemsAsAsked'
    BY <1>1, <1>4, <2>1 DEF EntryInv, ObjectsInv, Shapes, ItemsAsAsked, Items
  <2>3. FieldsAsAsked'
    BY <1>0, <1>1, <1>4, <2>1 DEF EntryInv, ObjectsInv, FieldsAsAsked
  <2> QED BY <2>2, <2>3 DEF ObjectsInv
<1>6. ConfigInv'
  BY <1>1 DEF EntryInv, ConfigInv, KeyKept, configuration
<1>7. ASSUME NEW m \in pending PROVE Known(m)' /\ Stamps(m)'
  <2>1. Known(m) /\ Stamps(m)
    BY DEF EntryInv, PendingInv
  <2>2. CASE m.object = o
    <3>1. m.object \in touched' /\ asked'[m.object].fields.apiKey # None
      BY <1>1, <1>3, <1>4, <2>2 DEF None
    <3> QED BY <1>1, <1>4, <2>1, <3>1 DEF Known, Stamps, configuration
  <2>3. CASE m.object # o
    <3>1. m.object \in DOMAIN heap \ {o} /\ (m.object \in touched' <=> m.object \in touched)
      BY <1>1, <2>1, <2>3 DEF Known
    <3> QED BY <1>1, <1>4, <2>1, <3>1 DEF Known, Stamps, configuration
  <2> QED BY <2>2, <2>3
<1> QED BY <1>1, <1>5, <1>6, <1>7 DEF EntryInv, PendingInv

LEMMA EntryInvNext == EntryInv /\ [Next]_vars => EntryInv'
<1> SUFFICES ASSUME EntryInv, [Next]_vars PROVE EntryInv'
  OBVIOUS
<1>1. ASSUME NEW c \in Clients, NEW p \in OptionObjects, NEW given \in Keys \cup {None, ""},
             Construct(c, p, given)
      PROVE  EntryInv'
  <2>1. /\ ConfigInv' /\ rekeyed \subseteq rekeyed'
        /\ \A d \in Clients : opts[d] # None => opts'[d] = opts[d] /\ own'[d] = own[d]
    BY <1>1, ConstructKeeps DEF EntryInv
  <2>2. UNCHANGED <<heap, cells, asked, logged, touched, pending>>
    BY <1>1 DEF Construct, objects, traffic
  <2>3. ObjectsInv'
    BY <2>2 DEF EntryInv, ObjectsInv, Shapes, ItemsAsAsked, FieldsAsAsked, Items
  <2>4. PendingInv'
    BY <2>1, <2>2 DEF EntryInv, PendingInv, Known, Stamps
  <2> QED BY <2>1, <2>3, <2>4 DEF EntryInv
<1>2. ASSUME ObjectsInv', OldKept, UNCHANGED <<configuration, touched, pending>>
      PROVE  EntryInv'
  <2>1. ConfigInv'
    BY <1>2 DEF EntryInv, ConfigInv, KeyKept, configuration
  <2>2. PendingInv'
    BY <1>2, PendingKept DEF EntryInv, PendingInv
  <2> QED BY <1>2, <2>1, <2>2 DEF EntryInv
<1>3. ASSUME NEW kind \in Kinds, NewEntry(kind) \/ Create(kind) PROVE EntryInv'
  BY <1>2, <1>3, NewEntryKeeps DEF NewEntry, Create, Becomes, EntryInv
<1>4. ASSUME NEW b \in HeldBy("builder"), BuilderStep(b) PROVE EntryInv'
  <2>1. UNCHANGED <<configuration, touched, pending>>
    BY <1>4 DEF BuilderStep, Setter, SetField, SetException, AddToLog, AddToBeat, AddItem,
                Becomes, Build
  <2> QED BY <1>2, <1>4, <2>1, BuilderKeeps DEF EntryInv
<1>5. ASSUME NEW m \in pending, Send(m) PROVE EntryInv'
  <2>1. UNCHANGED <<configuration, heap, cells, asked, logged, touched>> /\ pending' \subseteq pending
    BY <1>5 DEF Send, objects
  <2> QED
    BY <2>1 DEF EntryInv, ObjectsInv, Shapes, ItemsAsAsked, FieldsAsAsked, Items,
                ConfigInv, KeyKept, configuration, PendingInv, Known, Stamps
<1>6. CASE UNCHANGED vars
  BY <1>6 DEF vars, objects, traffic, EntryInv, ObjectsInv, Shapes, ItemsAsAsked,
              FieldsAsAsked, Items, ConfigInv, KeyKept, configuration, PendingInv, Known, Stamps
<1> QED
  BY <1>1, <1>3, <1>4, <1>5, <1>6, LogKeeps, EmitKeeps, AppSetsKeeps DEF Next, BuilderStep

LEMMA EntryInvInit == Init => EntryInv
<1> SUFFICES ASSUME Init PROVE EntryInv
  OBVIOUS
<1>1. ObjectsInv
  BY EmptySeq DEF Init, ObjectsInv, Shapes, ItemsAsAsked, FieldsAsAsked
<1>2. options \in [OptionObjects -> [key : Values, application : Values]]
  <2>1. ASSUME NEW env \in [key : EnvKeys, application : EnvApplications],
               NEW kwargs \in [key : Keys \cup {None}, application : {None}]
        PROVE  FromEnv(env, kwargs) \in [key : Values, application : Values]
    <3>1. DOMAIN env = {"key", "application"}
      OBVIOUS
    <3>2. \A f \in {"key", "application"} :
            /\ kwargs[f] # None => kwargs[f] \in Values
            /\ EnvDefault(env[f]) \in Values
      BY DEF EnvDefault, Values
    <3> QED BY <3>1, <3>2 DEF FromEnv
  <2> QED BY <2>1 DEF Init
<1>3. ConfigInv
  BY <1>2 DEF Init, ConfigInv, KeyKept, Values
<1>4. PendingInv
  BY DEF Init, PendingInv
<1> QED BY <1>1, <1>3, <1>4 DEF EntryInv

(* The inductive invariant: the old lists and maps stay as they are, only  *)
(* logging changes the fields of an entry, and what waits has them as they *)
(* were then.                                                              *)
THEOREM EntryInvHolds == Spec => []EntryInv
BY EntryInvInit, EntryInvNext, PTL DEF Spec

(* The list and map of every object hold what was asked for.               *)
LEMMA ContentAsAsked ==
  ASSUME ObjectsInv, NEW o \in DOMAIN heap
  PROVE  /\ [f \in Collections |-> Items(heap[o].cell[f])] = asked[o].items
         /\ heap[o] \in Object /\ asked[o] \in Wanted
<1>1. asked[o] \in Wanted /\ heap[o] \in Object
  BY Shares
<1>2. \A f \in Collections : Items(heap[o].cell[f]) = asked[o].items[f]
  BY DEF ObjectsInv, ItemsAsAsked
<1>3. asked[o].items \in [Collections -> SUBSET AllItems]
  BY <1>1 DEF Wanted
<1> QED BY <1>1, <1>2, <1>3

(* Growing, building or logging what comes of a builder never changes what *)
(* another builder holds (builders.py: _with, the setters, build).         *)
THEOREM BuilderIsolatedHolds == Spec => []BuilderIsolated
<1>1. EntryInv => BuilderIsolated
  <2> SUFFICES ASSUME EntryInv, NEW b \in HeldBy("builder") PROVE Content(b) = asked[b]
    BY DEF BuilderIsolated
  <2>1. b \in DOMAIN heap /\ heap[b].fields = asked[b].fields
    BY DEF HeldBy, EntryInv, ObjectsInv, FieldsAsAsked
  <2>2. Content(b) = [fields |-> asked[b].fields, items |-> asked[b].items]
    BY <2>1, ContentAsAsked DEF Content, Want, EntryInv
  <2>3. asked[b] \in Wanted
    BY <2>1, ContentAsAsked DEF EntryInv
  <2> QED BY <2>2, <2>3 DEF Wanted
<1> QED BY <1>1, EntryInvHolds, PTL

(* The server gets of an entry what its caller asked for, by value and by  *)
(* type, with the defaults of the client that logged it (client.py: log,   *)
(* logging_handler.py: emit, _transport.py: serialize_body).               *)
THEOREM DeliveredAsMeantHolds == Spec => []DeliveredAsMeant
<1>1. EntryInv => DeliveredAsMeant
  <2> SUFFICES ASSUME EntryInv, NEW m \in pending, logged[m.object] = 1, m.object \notin touched
               PROVE  Request(m).body = m.meant
    BY DEF DeliveredAsMeant
  <2>1. /\ m.object \in DOMAIN heap
        /\ m.meant = Body(heap[m.object].fields, asked[m.object].items)
    BY DEF EntryInv, PendingInv, Known, Stamps
  <2>2. Request(m).body = Body(heap[m.object].fields, asked[m.object].items)
    BY <2>1, ContentAsAsked DEF Request, Content, Want, EntryInv
  <2> QED BY <2>1, <2>2
<1> QED BY <1>1, EntryInvHolds, PTL

(* A client sends with the key that it was made with, and stamps that key, *)
(* unless another constructor changed the options that they share          *)
(* (client.py and async_client.py: __init__).                              *)
THEOREM OwnKeyHolds == Spec => []OwnKey
<1>1. EntryInv => OwnKey
  <2> SUFFICES ASSUME EntryInv, NEW m \in pending, opts[m.client] \notin rekeyed
               PROVE  /\ Request(m).key = own[m.client]
                      /\ (/\ m.stamped /\ logged[m.object] = 1
                          /\ asked[m.object].fields.apiKey = None)
                         => Request(m).body.fields.apiKey = own[m.client]
    BY DEF OwnKey
  <2>1. /\ m.client \in Clients /\ opts[m.client] # None /\ m.object \in DOMAIN heap
        /\ options[opts[m.client]].key = own[m.client] /\ ~Keyless(own[m.client])
    BY DEF EntryInv, PendingInv, Known, ConfigInv, KeyKept
  <2>2. Request(m).key = own[m.client]
    BY <2>1 DEF Request, Header
  <2>3. ASSUME m.stamped, logged[m.object] = 1, asked[m.object].fields.apiKey = None
        PROVE  Request(m).body.fields.apiKey = own[m.client]
    <3>1. heap[m.object].fields.apiKey = own[m.client] /\ own[m.client] # None
      BY <2>1, <2>3 DEF EntryInv, PendingInv, Stamps, Keyless
    <3>2. heap[m.object].fields \in [Fields -> Values] /\ "apiKey" \in Fields
      BY <2>1, ContentAsAsked DEF EntryInv, Object, Fields
    <3>3. "apiKey" \in Set(heap[m.object].fields)
      BY <3>1, <3>2 DEF Set
    <3>4. Request(m).body.fields = Body(heap[m.object].fields, Content(m.object).items).fields
      BY DEF Request, Content, Want
    <3> QED BY <3>1, <3>3, <3>4 DEF Body
  <2> QED BY <2>2, <2>3
<1> QED BY <1>1, EntryInvHolds, PTL
=============================================================================
