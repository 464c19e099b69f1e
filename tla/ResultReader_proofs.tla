------------------------- MODULE ResultReader_proofs -------------------------
(***************************************************************************)
(* Theorems about ResultReader, for any record types, any result sets and  *)
(* any size of the array of indices.                                       *)
(*                                                                         *)
(* The two walks meet in the array: a step of a type has the slot whose    *)
(* number is that of the steps with a slot before it, in both.  ReaderInv  *)
(* says so and is inductive with the types.                                *)
(***************************************************************************)
EXTENDS ResultReader, FiniteSetTheorems, SequenceTheorems, WellFoundedInduction, NaturalsInduction, TLAPS

(* Counting steps. *)
LEMMA CountType ==
    ASSUME NEW steps, NEW kinds, NEW n \in Nat
    PROVE  /\ IsFiniteSet({i \in 1..n : steps[i].t \in kinds})
           /\ Count(steps, n, kinds) \in Nat
<1>1. IsFiniteSet(1..n)
  BY FS_Interval
<1>2. {i \in 1..n : steps[i].t \in kinds} \in SUBSET (1..n)
  OBVIOUS
<1>3. IsFiniteSet({i \in 1..n : steps[i].t \in kinds})
  BY <1>1, <1>2, FS_Subset
<1> QED  BY <1>3, FS_CardinalityType DEF Count

LEMMA CountNone ==
    ASSUME NEW steps, NEW kinds
    PROVE  Count(steps, 0, kinds) = 0
<1>1. {i \in 1..0 : steps[i].t \in kinds} = {}
  OBVIOUS
<1> QED  BY <1>1, FS_EmptySet DEF Count

LEMMA CountStep ==
    ASSUME NEW steps, NEW kinds, NEW n \in Nat \ {0}
    PROVE  Count(steps, n, kinds) =
             IF steps[n].t \in kinds THEN Count(steps, n - 1, kinds) + 1
                                     ELSE Count(steps, n - 1, kinds)
<1> DEFINE S == {i \in 1..n - 1 : steps[i].t \in kinds}
           U == {i \in 1..n : steps[i].t \in kinds}
<1>1. IsFiniteSet(S) /\ n \notin S
  <2>1. n - 1 \in Nat
    OBVIOUS
  <2>2. IsFiniteSet({i \in 1..n - 1 : steps[i].t \in kinds})
    BY <2>1, CountType, Zenon
  <2> QED  BY <2>1, <2>2
<1>2. CASE steps[n].t \in kinds
  <2>1. U = S \cup {n}
    BY <1>2
  <2> HIDE DEF S, U
  <2>2. Cardinality(U) = Cardinality(S) + 1
    BY <1>1, <2>1, FS_AddElement
  <2> QED  BY <1>2, <2>2 DEF S, U, Count
<1>3. CASE steps[n].t \notin kinds
  <2>1. U = S
    BY <1>3
  <2> QED  BY <1>3, <2>1 DEF Count
<1> QED  BY <1>2, <1>3

LEMMA CountGrows ==
    ASSUME NEW steps, NEW kinds, NEW m \in Nat, NEW n \in Nat, m <= n
    PROVE  Count(steps, m, kinds) <= Count(steps, n, kinds)
<1> DEFINE S == {i \in 1..m : steps[i].t \in kinds}
           U == {i \in 1..n : steps[i].t \in kinds}
<1>1. S \in SUBSET U
  OBVIOUS
<1>2. IsFiniteSet(U)
  BY CountType
<1> HIDE DEF S, U
<1>3. Cardinality(S) <= Cardinality(U)
  BY <1>1, <1>2, FS_Subset
<1> QED  BY <1>3 DEF S, U, Count

(* A column list that has a name has a first column of that name. *)
LEMMA FirstColumn ==
    ASSUME NEW n, NEW k \in DOMAIN columns, columns[k] = n, columns \in Seq(Name)
    PROVE  IndexOf(n) # {}
<1> DEFINE T == {i \in Nat : i \in DOMAIN columns /\ columns[i] = n}
<1>1. T \subseteq Nat /\ T # {}
  OBVIOUS
<1>2. PICK x \in T : \A y \in T : ~ (<<y, x>> \in OpToRel(<, Nat))
  <2> HIDE DEF T
  <2> QED  BY <1>1, WFMin, NatLessThanWellFounded, Zenon
<1>3. \A y \in T : ~ (y < x)
  <2>1. \A y \in Nat : y < x => <<y, x>> \in OpToRel(<, Nat)
    BY <1>1, Zenon DEF OpToRel
  <2> QED  BY <1>1, <1>2, <2>1
<1>4. x \in IndexOf(n)
  BY <1>3 DEF IndexOf
<1> QED  BY <1>4

(* What the input is. *)
LEMMA InputFacts ==
    ASSUME InputInv, ReaderTypeOK
    PROVE  /\ several \in BOOLEAN
           /\ Len(types) \in Nat \ {0} /\ DOMAIN types = 1..Len(types)
           /\ ~several => Len(types) = 1
           /\ Len(sets) \in Nat /\ DOMAIN sets = 1..Len(sets)
           /\ \A f \in 1..Len(types) : types[f] \in Seq(Step) /\ Balanced(types[f])
           /\ \A f : SetAt(f).columns \in Seq(Name) /\ SetAt(f).rows \in Nat
           /\ \A f : f \notin DOMAIN sets => SetAt(f).rows = 0
<1>1. PICK reading \in Readings :
        several = reading.several /\ types = reading.types /\ sets = reading.sets
  BY DEF InputInv
<1>2. /\ several \in BOOLEAN /\ types \in Seq(Seq(Step)) /\ types # <<>>
      /\ several \/ Len(types) = 1
      /\ \A i \in DOMAIN types : Balanced(types[i])
      /\ sets \in Seq([columns : Seq(Name), rows : Nat])
  BY <1>1, ReaderAssumption
<1>3. ASSUME NEW f
      PROVE  SetAt(f).columns \in Seq(Name) /\ SetAt(f).rows \in Nat
  <2>1. CASE f \in DOMAIN sets
    <3> DEFINE S == [columns : Seq(Name), rows : Nat]
    <3>1. sets \in Seq(S) /\ f \in 1..Len(sets)
      BY <1>2, <2>1
    <3> HIDE DEF S
    <3>2. sets[f] \in S
      BY <3>1, ElementOfSeq
    <3> QED  BY <2>1, <3>2 DEF SetAt, S
  <2>2. CASE f \notin DOMAIN sets
    BY <2>2 DEF SetAt
  <2> QED  BY <2>1, <2>2
<1>4. \A f : f \notin DOMAIN sets => SetAt(f).rows = 0
  BY DEF SetAt
<1> QED  BY <1>2, <1>3, <1>4

(* What the record type and the result set at hand are. *)
LEMMA HereFacts ==
    ASSUME InputInv, ReaderTypeOK
    PROVE  /\ field \in 1..Len(types)
           /\ type \in Seq(Step) /\ Len(type) \in Nat /\ DOMAIN type = 1..Len(type)
           /\ columns \in Seq(Name) /\ Len(columns) \in Nat
           /\ DOMAIN columns = 1..Len(columns)
           /\ rows \in Nat /\ row \in Nat /\ pos \in Nat \ {0} /\ Slots \in Nat
           /\ \A i \in 1..Len(type) :
                /\ type[i].t \in {"leaf", "fixed", "other", "open", "close"}
                /\ type[i].t = "leaf" => type[i].name \in Name
<1>1. field \in 1..Len(types) /\ pos \in 1..Len(type) + 1 /\ row \in 0..rows
  BY InputFacts DEF ReaderTypeOK
<1>2. type \in Seq(Step) /\ columns \in Seq(Name) /\ rows \in Nat
  BY <1>1, InputFacts DEF type, columns, rows
<1>3. \A i \in 1..Len(type) : type[i] \in Step
  BY <1>2
<1>4. Len(type) \in Nat /\ Len(columns) \in Nat
  BY <1>2
<1>5. \A s \in Step : /\ s.t \in {"leaf", "fixed", "other", "open", "close"}
                      /\ s.t = "leaf" => s.name \in Name
  BY DEF Step
<1> QED  BY <1>1, <1>2, <1>3, <1>4, <1>5, ReaderAssumption

(* The slots before a step of the type at hand. *)
LEMMA SlotFacts ==
    ASSUME InputInv, ReaderTypeOK
    PROVE  /\ SlotsOf(type, 0) = 0
           /\ \A n \in 0..Len(type) : SlotsOf(type, n) \in Nat
           /\ \A n \in 1..Len(type) :
                SlotsOf(type, n) = IF type[n].t = "open" THEN SlotsOf(type, n - 1)
                                                        ELSE SlotsOf(type, n - 1) + 1
           /\ \A m, n \in 0..Len(type) : m <= n => SlotsOf(type, m) <= SlotsOf(type, n)
<1>1. Len(type) \in Nat
  BY HereFacts
<1>2. ASSUME NEW n \in 1..Len(type)
      PROVE  SlotsOf(type, n) = IF type[n].t = "open" THEN SlotsOf(type, n - 1)
                                                     ELSE SlotsOf(type, n - 1) + 1
  <2>1. n \in Nat \ {0} /\ type[n].t \in {"leaf", "fixed", "other", "open", "close"}
    BY <1>1, HereFacts
  <2> QED  BY <2>1, CountStep DEF SlotsOf
<1>3. ASSUME NEW n \in 0..Len(type)
      PROVE  n \in Nat /\ SlotsOf(type, n) \in Nat
  <2>1. n \in Nat
    BY <1>1
  <2> QED  BY <2>1, CountType DEF SlotsOf
<1>4. ASSUME NEW m \in 0..Len(type), NEW n \in 0..Len(type), m <= n
      PROVE  SlotsOf(type, m) <= SlotsOf(type, n)
  <2>1. m \in Nat /\ n \in Nat
    BY <1>3
  <2> QED  BY <1>4, <2>1, CountGrows DEF SlotsOf
<1> QED  BY <1>2, <1>3, <1>4, CountNone DEF SlotsOf

(* The sub-messages open before a step of the type at hand. *)
LEMMA OpenFacts ==
    ASSUME InputInv, ReaderTypeOK
    PROVE  /\ Opened(type, 0) = 0
           /\ \A n \in 0..Len(type) : Opened(type, n) \in Nat
           /\ \A n \in 1..Len(type) :
                Opened(type, n) = IF type[n].t = "open" THEN Opened(type, n - 1) + 1
                                  ELSE IF type[n].t = "close" THEN Opened(type, n - 1) - 1
                                  ELSE Opened(type, n - 1)
<1>1. Len(type) \in Nat /\ Balanced(type)
  BY HereFacts, InputFacts DEF type
<1>2. ASSUME NEW n \in 0..Len(type)
      PROVE  Count(type, n, {"open"}) \in Nat /\ Count(type, n, {"close"}) \in Nat
  <2>1. n \in Nat
    BY <1>1
  <2> QED  BY <2>1, CountType
<1>3. \A n \in 0..Len(type) : Opened(type, n) \in Nat
  BY <1>1, <1>2 DEF Opened, Balanced
<1>4. ASSUME NEW n \in 1..Len(type)
      PROVE  Opened(type, n) = IF type[n].t = "open" THEN Opened(type, n - 1) + 1
                               ELSE IF type[n].t = "close" THEN Opened(type, n - 1) - 1
                               ELSE Opened(type, n - 1)
  <2>1. n \in Nat \ {0} /\ n - 1 \in 0..Len(type)
    BY <1>1
  <2>2. Count(type, n, {"open"}) = IF type[n].t = "open" THEN Count(type, n - 1, {"open"}) + 1
                                                       ELSE Count(type, n - 1, {"open"})
    BY <2>1, CountStep
  <2>3. Count(type, n, {"close"}) = IF type[n].t = "close" THEN Count(type, n - 1, {"close"}) + 1
                                                         ELSE Count(type, n - 1, {"close"})
    BY <2>1, CountStep
  <2>4. Count(type, n - 1, {"open"}) \in Nat /\ Count(type, n - 1, {"close"}) \in Nat
    BY <1>2, <2>1
  <2> QED  BY <2>2, <2>3, <2>4 DEF Opened
<1> QED  BY <1>3, <1>4, CountNone DEF Opened

(* What a step changes nothing of when it stays with the result set. *)
LEMMA SameInput ==
    ASSUME UNCHANGED <<input, place>>
    PROVE  /\ field' = field /\ lost' = lost /\ several' = several
           /\ types' = types /\ sets' = sets
           /\ type' = type /\ columns' = columns /\ rows' = rows
           /\ \A f : SetAt(f)' = SetAt(f)
           /\ \A f, i : Known(f, i)' = Known(f, i)
           /\ \A n : IndexOf(n)' = IndexOf(n)
<1>1. field' = field /\ lost' = lost /\ several' = several /\ types' = types /\ sets' = sets
  BY DEF input, place
<1>2. \A f : SetAt(f)' = SetAt(f)
  BY <1>1 DEF SetAt
<1>3. type' = type /\ columns' = columns /\ rows' = rows
  BY <1>1, <1>2 DEF type, columns, rows
<1>4. \A f, i : Known(f, i)' = Known(f, i)
  BY <1>1, <1>2 DEF Known
<1>5. \A n : IndexOf(n)' = IndexOf(n)
  BY <1>3 DEF IndexOf
<1> QED  BY <1>1, <1>2, <1>3, <1>4, <1>5

(* The input never changes. *)
LEMMA SameReading ==
    ASSUME InputInv, UNCHANGED input
    PROVE  InputInv'
BY DEF InputInv, input

(* A step within a row hands nothing on. *)
LEMMA WithinRow ==
    ASSUME InputInv, ReaderTypeOK, ReaderInv, UNCHANGED <<input, place, row, results>>,
           pc = "reading", pc' \in {"reading", "aborted", "undefined"}
    PROVE  PlaceInv' /\ FilledInv' /\ EachFieldItsColumn'
<1>1. PlaceInv'
  BY HereFacts DEF ReaderInv, PlaceInv, Running
<1>2. FilledInv'
  <2>1. \A f : SetAt(f)' = SetAt(f)
    BY SameInput
  <2> QED  BY <2>1 DEF ReaderInv, FilledInv, input, place
<1>3. EachFieldItsColumn'
  <2>1. \A f, i : Known(f, i)' = Known(f, i)
    BY SameInput
  <2> QED  BY <2>1 DEF ReaderInv, EachFieldItsColumn, input, place
<1> QED  BY <1>1, <1>2, <1>3

(* AddFirstReturnRecord takes the next slot for the step it is at. *)
LEMMA TakeFacts ==
    ASSUME InputInv, ReaderTypeOK, SlotInv, UNCHANGED <<input, place, row>>,
           pc = "reading", row = 1, pos <= Len(type), type[pos].t # "open",
           NEW last \in 0..Len(columns), TakeSlot(last),
           Known(field, pos) => last \in IndexOf(type[pos].name)
    PROVE  /\ pos' = pos + 1
           /\ pc' \in {"reading", "undefined"}
           /\ arrIndex' \in [0..Slots - 1 -> 0..Len(columns)]
           /\ pc' = "reading" => nIndex' = SlotsOf(type, pos)
           /\ pc' = "undefined" => SlotsOf(type, Len(type)) > Slots
           /\ SlotInv'
<1>1. /\ pos \in 1..Len(type) /\ Len(type) \in Nat /\ Slots \in Nat
      /\ DOMAIN type = 1..Len(type)
  BY HereFacts
<1>2. /\ nIndex = SlotsOf(type, pos - 1) /\ SlotsOf(type, pos) = nIndex + 1
      /\ nIndex \in Nat
      /\ SlotsOf(type, Len(type)) \in Nat /\ nIndex + 1 <= SlotsOf(type, Len(type))
  <2>1. nIndex = SlotsOf(type, pos - 1)
    BY DEF ReaderTypeOK
  <2>2. pos - 1 \in 0..Len(type) /\ pos \in 0..Len(type) /\ Len(type) \in 0..Len(type)
    BY <1>1
  <2>3. SlotsOf(type, pos - 1) \in Nat /\ SlotsOf(type, Len(type)) \in Nat
    BY <2>2, SlotFacts
  <2>4. SlotsOf(type, pos) = SlotsOf(type, pos - 1) + 1
    BY <1>1, SlotFacts
  <2>5. SlotsOf(type, pos) <= SlotsOf(type, Len(type))
    BY <1>1, <2>2, SlotFacts
  <2> QED  BY <2>1, <2>3, <2>4, <2>5
<1>3. /\ field' = field /\ type' = type /\ \A f, i : Known(f, i)' = Known(f, i)
      /\ \A n : IndexOf(n)' = IndexOf(n)
  BY SameInput
<1>4. CASE nIndex < Slots
  <2>1. /\ arrIndex' = [arrIndex EXCEPT ![nIndex] = last]
        /\ nIndex' = nIndex + 1 /\ pc' = "reading" /\ pos' = pos + 1
    BY <1>4 DEF TakeSlot
  <2>2. /\ arrIndex \in [0..Slots - 1 -> 0..Len(columns)] /\ nIndex \in 0..Slots - 1
        /\ arrIndex' \in [0..Slots - 1 -> 0..Len(columns)]
    <3>1. arrIndex \in [0..Slots - 1 -> 0..Len(columns)]
      BY DEF ReaderTypeOK
    <3>2. nIndex \in 0..Slots - 1
      BY <1>1, <1>2, <1>4
    <3> QED  BY <2>1, <3>1, <3>2
  <2>3. ASSUME NEW j \in 1..Len(type), Known(field, j), j < pos + 1
        PROVE  arrIndex'[SlotsOf(type, j - 1)] \in IndexOf(type[j].name)
    <3>1. CASE j = pos
      <4>1. arrIndex'[nIndex] = last
        BY <2>1, <2>2
      <4> QED  BY <1>2, <2>3, <3>1, <4>1
    <3>2. CASE j # pos
      <4>1. j < pos /\ j - 1 \in 0..Len(type) /\ j \in 0..Len(type) /\ pos - 1 \in 0..Len(type)
        BY <1>1, <2>3, <3>2
      <4>2. arrIndex[SlotsOf(type, j - 1)] \in IndexOf(type[j].name)
        BY <1>1, <2>3, <4>1 DEF SlotInv, Running
      <4>3. type[j].t = "leaf"
        BY <2>3 DEF Known, type
      <4>4. SlotsOf(type, j) = SlotsOf(type, j - 1) + 1 /\ SlotsOf(type, j) <= nIndex
        BY <1>1, <1>2, <4>1, <4>3, SlotFacts
      <4>5. SlotsOf(type, j - 1) \in 0..Slots - 1 /\ SlotsOf(type, j - 1) # nIndex
        BY <1>1, <1>2, <1>4, <4>1, <4>4, SlotFacts
      <4> QED  BY <2>1, <2>2, <4>2, <4>5
    <3> QED  BY <3>1, <3>2
  <2>4. SlotInv'
    <3>1. pos' - 1 = pos
      BY <1>1, <2>1
    <3>2. SlotsOf(type, pos) <= Slots
      BY <1>1, <1>2, <1>4
    <3> QED  BY <1>1, <1>3, <2>1, <2>3, <3>1, <3>2 DEF SlotInv, Running
  <2> QED  BY <1>2, <2>1, <2>2, <2>4
<1>5. CASE ~ (nIndex < Slots)
  <2>1. /\ pc' = "undefined" /\ pos' = pos + 1 /\ UNCHANGED <<nIndex, arrIndex>>
    BY <1>5 DEF TakeSlot
  <2>2. SlotsOf(type, Len(type)) > Slots
    BY <1>1, <1>2, <1>5
  <2> QED  BY <2>1, <2>2 DEF ReaderTypeOK, SlotInv, Running
<1> QED  BY <1>4, <1>5

(* The types after a step within a row. *)
LEMMA RowTypes ==
    ASSUME InputInv, ReaderTypeOK, UNCHANGED <<input, place, row, results>>,
           pc' \in {"reading", "aborted", "undefined"}, pos' \in 1..Len(type) + 1,
           arrIndex' \in [0..Slots - 1 -> 0..Len(columns)],
           record' \in [DOMAIN type -> Cell],
           pc' = "reading" => nIndex' = SlotsOf(type, pos' - 1),
           pc' = "reading" /\ row = 1 =>
             found' \in Seq(0..Len(columns)) /\ Len(found') = Opened(type, pos' - 1) + 1
    PROVE  ReaderTypeOK'
<1>1. /\ field' = field /\ lost' = lost /\ types' = types
      /\ type' = type /\ columns' = columns /\ rows' = rows
  BY SameInput
<1>2. /\ results' = results /\ row' = row
  OBVIOUS
<1>3. /\ field \in DOMAIN types /\ lost \in BOOLEAN /\ row \in 0..rows
      /\ DOMAIN results = DOMAIN types
      /\ \A f \in DOMAIN types : results[f] \in Seq([DOMAIN types[f] -> Cell])
  BY DEF ReaderTypeOK
<1> QED  BY <1>1, <1>2, <1>3 DEF ReaderTypeOK

LEMMA KeepReadByName ==
    ASSUME InputInv, ReaderTypeOK, ReaderInv, ReadByName
    PROVE  ReaderTypeOK' /\ ReaderInv'
<1>1. /\ row = 1 /\ pc = "reading" /\ pos <= Len(type) /\ type[pos].t = "leaf"
      /\ pos \in 1..Len(type) /\ Len(type) \in Nat /\ DOMAIN type = 1..Len(type)
      /\ UNCHANGED <<input, place, row, results>>
  BY HereFacts DEF ReadByName, At
<1>2. PICK last \in IF IndexOf(type[pos].name) = {} THEN {Head(found)}
                                                  ELSE IndexOf(type[pos].name) :
        found' = <<last>> \o Tail(found) /\ TakeSlot(last)
  BY DEF ReadByName
<1>3. /\ found \in Seq(0..Len(columns)) /\ Len(found) = Opened(type, pos - 1) + 1
      /\ Opened(type, pos - 1) \in Nat /\ Opened(type, pos) = Opened(type, pos - 1)
  <2>1. pos - 1 \in 0..Len(type)
    BY <1>1
  <2> QED  BY <1>1, <2>1, OpenFacts DEF ReaderTypeOK
<1>4. IndexOf(type[pos].name) \subseteq 0..Len(columns) /\ Head(found) \in 0..Len(columns)
  <2>1. DOMAIN columns = 1..Len(columns) /\ Len(columns) \in Nat
    BY HereFacts
  <2>2. IndexOf(type[pos].name) \subseteq 0..Len(columns)
    BY <2>1 DEF IndexOf
  <2>3. found # <<>>
    BY <1>3
  <2> QED  BY <1>3, <2>2, <2>3, HeadTailProperties
<1>5. last \in 0..Len(columns)
  BY <1>2, <1>4
<1>6. Known(field, pos) => IndexOf(type[pos].name) # {}
  BY HereFacts, FirstColumn DEF Known, type, columns
<1>7. Known(field, pos) => last \in IndexOf(type[pos].name)
  BY <1>2, <1>6
<1>8. /\ pos' = pos + 1 /\ pc' \in {"reading", "undefined"}
      /\ arrIndex' \in [0..Slots - 1 -> 0..Len(columns)]
      /\ pc' = "reading" => nIndex' = SlotsOf(type, pos)
      /\ pc' = "undefined" => SlotsOf(type, Len(type)) > Slots
      /\ SlotInv'
  BY <1>1, <1>2, <1>5, <1>7, TakeFacts DEF ReaderInv
<1>9. found' \in Seq(0..Len(columns)) /\ Len(found') = Opened(type, pos) + 1
  <2> DEFINE S == 0..Len(columns)
  <2>1. found \in Seq(S) /\ found # <<>> /\ last \in S
    BY <1>3, <1>5
  <2> HIDE DEF S
  <2>2. Tail(found) \in Seq(S) /\ Len(Tail(found)) = Len(found) - 1
    BY <2>1, HeadTailProperties
  <2>3. <<last>> \in Seq(S) /\ Len(<<last>>) = 1
    BY <2>1
  <2>4. <<last>> \o Tail(found) \in Seq(S) /\ Len(<<last>> \o Tail(found)) = Len(found)
    BY <1>3, <2>1, <2>2, <2>3, ConcatProperties
  <2> QED  BY <1>2, <1>3, <2>4 DEF S
<1>10. /\ record' \in [DOMAIN type -> Cell]
       /\ \A j \in DOMAIN type : j # pos => record'[j] = record[j]
       /\ Known(field, pos) => record'[pos] = Value(field, row, type[pos].name)
  <2> DEFINE cell == IF IndexOf(type[pos].name) = {} THEN Missing
                                                    ELSE Value(field, row, type[pos].name)
  <2>1. type[pos].name \in Name /\ field \in Nat /\ row \in Nat
    BY <1>1, HereFacts, InputFacts
  <2>2. cell \in Cell
    BY <2>1 DEF Cell, Value
  <2>3. record \in [DOMAIN type -> Cell] /\ record' = [record EXCEPT ![pos] = cell]
    BY DEF ReadByName, ReaderTypeOK
  <2> HIDE DEF cell
  <2>4. /\ record' \in [DOMAIN type -> Cell] /\ record'[pos] = cell
        /\ \A j \in DOMAIN type : j # pos => record'[j] = record[j]
    BY <1>1, <2>2, <2>3
  <2> QED  BY <1>6, <2>4 DEF cell
<1>11. pos' - 1 = pos /\ pos' \in 1..Len(type) + 1
  BY <1>1, <1>8
<1>12. ReaderTypeOK'
  BY <1>1, <1>8, <1>9, <1>10, <1>11, RowTypes
<1>13. /\ field' = field /\ type' = type /\ \A f, i : Known(f, i)' = Known(f, i)
  BY <1>1, SameInput
<1>14. RecordInv'
  <2> SUFFICES ASSUME NEW j \in DOMAIN type, j < pos + 1, Known(field, j)
               PROVE  record'[j] = Value(field, row, type[j].name)
    BY <1>1, <1>8, <1>13 DEF RecordInv, Running, Value
  <2>1. CASE j = pos
    BY <1>10, <2>1
  <2>2. CASE j # pos
    <3>1. j < pos
      BY <1>1, <2>2
    <3>2. record[j] = Value(field, row, type[j].name)
      BY <1>1, <3>1 DEF ReaderInv, RecordInv, Running
    <3> QED  BY <1>10, <2>2, <3>2
  <2> QED  BY <2>1, <2>2
<1>15. EndInv'
  BY <1>8, <1>13 DEF EndInv
<1>16. PlaceInv' /\ FilledInv' /\ EachFieldItsColumn'
  BY <1>1, <1>8, WithinRow
<1> QED  BY <1>8, <1>12, <1>14, <1>15, <1>16 DEF ReaderInv

(* A step that is not a field known to the result leaves the record as it is. *)
LEMMA RecordKept ==
    ASSUME InputInv, ReaderTypeOK, ReaderInv, UNCHANGED <<input, place, row, record>>,
           pc = "reading", pos <= Len(type), pos' \in {pos, pos + 1},
           ~ Known(field, pos)
    PROVE  RecordInv'
<1>1. /\ field' = field /\ type' = type /\ row' = row /\ record' = record
      /\ \A f, i : Known(f, i)' = Known(f, i)
  BY SameInput
<1>2. pos \in Nat /\ DOMAIN type = 1..Len(type) /\ Len(type) \in Nat
  BY HereFacts
<1> SUFFICES ASSUME NEW j \in DOMAIN type, j < pos', Known(field, j)
             PROVE  record[j] = Value(field, row, type[j].name)
  BY <1>1 DEF RecordInv, Running, Value
<1>3. j # pos
  OBVIOUS
<1>4. j < pos
  BY <1>2, <1>3
<1> QED  BY <1>4 DEF ReaderInv, RecordInv, Running

LEMMA KeepDescend ==
    ASSUME InputInv, ReaderTypeOK, ReaderInv, Descend
    PROVE  ReaderTypeOK' /\ ReaderInv'
<1>1. /\ row = 1 /\ pc = "reading" /\ pos <= Len(type) /\ type[pos].t = "open"
      /\ pos \in 1..Len(type) /\ Len(type) \in Nat /\ DOMAIN type = 1..Len(type)
      /\ found' = <<0>> \o found /\ pos' = pos + 1
      /\ pc' = pc /\ nIndex' = nIndex /\ arrIndex' = arrIndex
      /\ UNCHANGED <<input, place, row, record, results>>
  BY HereFacts DEF Descend, At
<1>2. pos - 1 \in 0..Len(type) /\ pos' - 1 = pos /\ pos' \in 1..Len(type) + 1
  BY <1>1
<1>3. /\ found \in Seq(0..Len(columns)) /\ Len(found) = Opened(type, pos - 1) + 1
      /\ Opened(type, pos - 1) \in Nat /\ Opened(type, pos) = Opened(type, pos - 1) + 1
  BY <1>1, <1>2, OpenFacts DEF ReaderTypeOK
<1>4. SlotsOf(type, pos) = SlotsOf(type, pos - 1) /\ nIndex = SlotsOf(type, pos - 1)
  BY <1>1, SlotFacts DEF ReaderTypeOK
<1>5. found' \in Seq(0..Len(columns)) /\ Len(found') = Opened(type, pos) + 1
  <2> DEFINE S == 0..Len(columns)
  <2>1. found \in Seq(S) /\ 0 \in S
    BY <1>3, HereFacts
  <2> HIDE DEF S
  <2>2. <<0>> \in Seq(S) /\ Len(<<0>>) = 1
    BY <2>1
  <2>3. <<0>> \o found \in Seq(S) /\ Len(<<0>> \o found) = 1 + Len(found)
    BY <2>1, <2>2, ConcatProperties
  <2> QED  BY <1>1, <1>3, <2>3 DEF S
<1>6. ReaderTypeOK'
  BY <1>1, <1>2, <1>4, <1>5, RowTypes DEF ReaderTypeOK
<1>7. ~ Known(field, pos)
  BY <1>1 DEF Known, type
<1>8. RecordInv'
  BY <1>1, <1>7, RecordKept
<1>9. /\ field' = field /\ type' = type /\ \A f, i : Known(f, i)' = Known(f, i)
      /\ \A n : IndexOf(n)' = IndexOf(n)
  BY <1>1, SameInput
<1>10. SlotInv'
  <2>1. ASSUME NEW j \in DOMAIN type, j < pos + 1, Known(field, j)
        PROVE  arrIndex[SlotsOf(type, j - 1)] \in IndexOf(type[j].name)
    <3>1. j # pos
      BY <1>7, <2>1
    <3>2. j < pos
      BY <1>1, <2>1, <3>1
    <3> QED  BY <1>1, <2>1, <3>2 DEF ReaderInv, SlotInv, Running
  <2>2. SlotsOf(type, pos' - 1) <= Slots
    BY <1>1, <1>2, <1>4 DEF ReaderInv, SlotInv, Running
  <2> QED  BY <1>1, <1>9, <2>1, <2>2 DEF SlotInv, Running
<1>11. EndInv'
  BY <1>1 DEF EndInv
<1>12. PlaceInv' /\ FilledInv' /\ EachFieldItsColumn'
  BY <1>1, WithinRow
<1> QED  BY <1>6, <1>8, <1>10, <1>11, <1>12 DEF ReaderInv

LEMMA KeepAscend ==
    ASSUME InputInv, ReaderTypeOK, ReaderInv, Ascend
    PROVE  ReaderTypeOK' /\ ReaderInv'
<1>1. /\ row = 1 /\ pc = "reading" /\ pos <= Len(type) /\ type[pos].t = "close"
      /\ pos \in 1..Len(type) /\ Len(type) \in Nat /\ DOMAIN type = 1..Len(type)
      /\ found' = Tail(found) /\ TakeSlot(found[2])
      /\ UNCHANGED <<input, place, row, record, results>>
  BY HereFacts DEF Ascend, At
<1>2. pos - 1 \in 0..Len(type) /\ pos \in 0..Len(type)
  BY <1>1
<1>3. /\ found \in Seq(0..Len(columns)) /\ Len(found) = Opened(type, pos - 1) + 1
      /\ Opened(type, pos - 1) \in Nat /\ Opened(type, pos) = Opened(type, pos - 1) - 1
      /\ Opened(type, pos) \in Nat
  BY <1>1, <1>2, OpenFacts DEF ReaderTypeOK
<1>4. found[2] \in 0..Len(columns)
  <2>1. 2 \in 1..Len(found)
    BY <1>3
  <2> QED  BY <1>3, <2>1, ElementOfSeq
<1>5. ~ Known(field, pos)
  BY <1>1 DEF Known, type
<1>6. /\ pos' = pos + 1 /\ pc' \in {"reading", "undefined"}
      /\ arrIndex' \in [0..Slots - 1 -> 0..Len(columns)]
      /\ pc' = "reading" => nIndex' = SlotsOf(type, pos)
      /\ pc' = "undefined" => SlotsOf(type, Len(type)) > Slots
      /\ SlotInv'
  BY <1>1, <1>4, <1>5, TakeFacts DEF ReaderInv
<1>7. found' \in Seq(0..Len(columns)) /\ Len(found') = Opened(type, pos) + 1
  <2>1. found # <<>>
    BY <1>3
  <2> QED  BY <1>1, <1>3, <2>1, HeadTailProperties
<1>8. pos' - 1 = pos /\ pos' \in 1..Len(type) + 1
  BY <1>1, <1>6
<1>9. ReaderTypeOK'
  BY <1>1, <1>6, <1>7, <1>8, RowTypes DEF ReaderTypeOK
<1>10. RecordInv'
  BY <1>1, <1>5, <1>6, RecordKept
<1>11. EndInv'
  BY <1>1, <1>6, SameInput DEF EndInv
<1>12. PlaceInv' /\ FilledInv' /\ EachFieldItsColumn'
  BY <1>1, <1>6, WithinRow
<1> QED  BY <1>6, <1>9, <1>10, <1>11, <1>12 DEF ReaderInv

LEMMA KeepPassOver ==
    ASSUME InputInv, ReaderTypeOK, ReaderInv, PassOver
    PROVE  ReaderTypeOK' /\ ReaderInv'
<1>1. /\ row = 1 /\ pc = "reading" /\ pos <= Len(type) /\ type[pos].t = "other"
      /\ pos \in 1..Len(type) /\ Len(type) \in Nat /\ DOMAIN type = 1..Len(type)
      /\ found' = found /\ TakeSlot(Head(found))
      /\ UNCHANGED <<input, place, row, record, results>>
  BY HereFacts DEF PassOver, At
<1>2. pos - 1 \in 0..Len(type)
  BY <1>1
<1>3. /\ found \in Seq(0..Len(columns)) /\ Len(found) = Opened(type, pos - 1) + 1
      /\ Opened(type, pos - 1) \in Nat /\ Opened(type, pos) = Opened(type, pos - 1)
  BY <1>1, <1>2, OpenFacts DEF ReaderTypeOK
<1>4. Head(found) \in 0..Len(columns)
  <2>1. found # <<>>
    BY <1>3
  <2> QED  BY <1>3, <2>1, HeadTailProperties
<1>5. ~ Known(field, pos)
  BY <1>1 DEF Known, type
<1>6. /\ pos' = pos + 1 /\ pc' \in {"reading", "undefined"}
      /\ arrIndex' \in [0..Slots - 1 -> 0..Len(columns)]
      /\ pc' = "reading" => nIndex' = SlotsOf(type, pos)
      /\ pc' = "undefined" => SlotsOf(type, Len(type)) > Slots
      /\ SlotInv'
  BY <1>1, <1>4, <1>5, TakeFacts DEF ReaderInv
<1>7. pos' - 1 = pos /\ pos' \in 1..Len(type) + 1
  BY <1>1, <1>6
<1>8. ReaderTypeOK'
  BY <1>1, <1>3, <1>6, <1>7, RowTypes DEF ReaderTypeOK
<1>9. RecordInv'
  BY <1>1, <1>5, <1>6, RecordKept
<1>10. EndInv'
  BY <1>1, <1>6, SameInput DEF EndInv
<1>11. PlaceInv' /\ FilledInv' /\ EachFieldItsColumn'
  BY <1>1, <1>6, WithinRow
<1> QED  BY <1>6, <1>8, <1>9, <1>10, <1>11 DEF ReaderInv

(* The later rows leave the slots as they are. *)
LEMMA SlotsKept ==
    ASSUME ReaderTypeOK, ReaderInv, UNCHANGED <<input, place, row, arrIndex>>,
           row > 1, pc = "reading"
    PROVE  SlotInv'
<1>1. /\ field' = field /\ type' = type /\ \A f, i : Known(f, i)' = Known(f, i)
      /\ \A n : IndexOf(n)' = IndexOf(n)
  BY SameInput
<1>2. row # 1
  BY DEF ReaderTypeOK
<1> QED  BY <1>1, <1>2 DEF ReaderInv, SlotInv, Running

LEMMA KeepReadByIndex ==
    ASSUME InputInv, ReaderTypeOK, ReaderInv, ReadByIndex
    PROVE  ReaderTypeOK' /\ ReaderInv'
<1> DEFINE index == arrIndex[nIndex]
<1>1. /\ row > 1 /\ row # 1 /\ pc = "reading" /\ pos <= Len(type) /\ type[pos].t = "leaf"
      /\ pos \in 1..Len(type) /\ Len(type) \in Nat /\ DOMAIN type = 1..Len(type)
      /\ UNCHANGED <<input, place, row, found, arrIndex, results>>
  BY HereFacts DEF ReadByIndex, At
<1>2. nIndex = SlotsOf(type, pos - 1) /\ SlotsOf(type, pos) = nIndex + 1
  BY <1>1, SlotFacts DEF ReaderTypeOK
<1>3. Known(field, pos) => index \in IndexOf(type[pos].name)
  BY <1>1, <1>2 DEF ReaderInv, SlotInv, Running
<1>4. /\ field' = field /\ type' = type /\ \A f, i : Known(f, i)' = Known(f, i)
  BY <1>1, SameInput
<1>5. SlotInv'
  BY <1>1, SlotsKept
<1>6. CASE index \in DOMAIN columns
  <2>1. /\ record' = [record EXCEPT ![pos] = Value(field, row, columns[index])]
        /\ pos' = pos + 1 /\ nIndex' = nIndex + 1 /\ pc' = pc
    BY <1>6 DEF ReadByIndex
  <2>2. Value(field, row, columns[index]) \in Cell
    <3>1. columns[index] \in Name
      BY <1>6, HereFacts, ElementOfSeq
    <3>2. field \in Nat /\ row \in Nat
      BY HereFacts, InputFacts
    <3> QED  BY <3>1, <3>2 DEF Value, Cell
  <2>3. record' \in [DOMAIN type -> Cell]
    BY <1>1, <2>1, <2>2 DEF ReaderTypeOK
  <2>4. pos' - 1 = pos /\ pos' \in 1..Len(type) + 1
    BY <1>1, <2>1
  <2>5. ReaderTypeOK'
    BY <1>1, <1>2, <2>1, <2>3, <2>4, RowTypes DEF ReaderTypeOK
  <2>6. RecordInv'
    <3> SUFFICES ASSUME NEW j \in DOMAIN type, j < pos + 1, Known(field, j)
                 PROVE  record'[j] = Value(field, row, type[j].name)
      BY <1>1, <1>4, <2>1 DEF RecordInv, Running, Value
    <3>1. CASE j = pos
      <4>1. columns[index] = type[pos].name
        BY <1>3, <3>1 DEF IndexOf
      <4>2. record'[pos] = Value(field, row, columns[index])
        BY <1>1, <2>1 DEF ReaderTypeOK
      <4> QED  BY <3>1, <4>1, <4>2
    <3>2. CASE j # pos
      <4>1. j < pos
        BY <1>1, <3>2
      <4>2. record[j] = Value(field, row, type[j].name)
        BY <1>1, <4>1 DEF ReaderInv, RecordInv, Running
      <4> QED  BY <2>1, <3>2, <4>2 DEF ReaderTypeOK
    <3> QED  BY <3>1, <3>2
  <2>7. EndInv'
    BY <1>1, <2>1 DEF EndInv
  <2>8. PlaceInv' /\ FilledInv' /\ EachFieldItsColumn'
    BY <1>1, <2>1, WithinRow
  <2> QED  BY <1>5, <2>5, <2>6, <2>7, <2>8 DEF ReaderInv
<1>7. CASE index \notin DOMAIN columns
  <2>1. pc' = "aborted" /\ UNCHANGED <<pos, nIndex, record>>
    BY <1>7 DEF ReadByIndex
  <2>2. ~ Known(field, pos)
    BY <1>3, <1>7 DEF IndexOf
  <2>3. EndInv'
    BY <1>1, <1>4, <2>1, <2>2 DEF EndInv
  <2>4. ReaderTypeOK'
    BY <1>1, <2>1, RowTypes DEF ReaderTypeOK
  <2>5. RecordInv'
    BY <2>1 DEF RecordInv, Running
  <2>6. PlaceInv' /\ FilledInv' /\ EachFieldItsColumn'
    BY <1>1, <2>1, WithinRow
  <2> QED  BY <1>5, <2>3, <2>4, <2>5, <2>6 DEF ReaderInv
<1> QED  BY <1>6, <1>7

LEMMA KeepNextSlot ==
    ASSUME InputInv, ReaderTypeOK, ReaderInv, NextSlot
    PROVE  ReaderTypeOK' /\ ReaderInv'
<1>1. /\ row > 1 /\ row # 1 /\ pc = "reading" /\ pc' = pc /\ pos <= Len(type)
      /\ type[pos].t \in {"open", "close", "other"}
      /\ pos \in 1..Len(type) /\ Len(type) \in Nat /\ DOMAIN type = 1..Len(type)
      /\ pos' = pos + 1
      /\ nIndex' = IF type[pos].t = "open" THEN nIndex ELSE nIndex + 1
      /\ UNCHANGED <<input, place, row, found, arrIndex, record, results>>
  BY HereFacts DEF NextSlot, At
<1>2. nIndex = SlotsOf(type, pos - 1) /\ nIndex' = SlotsOf(type, pos)
  BY <1>1, SlotFacts DEF ReaderTypeOK
<1>3. pos' - 1 = pos /\ pos' \in 1..Len(type) + 1
  BY <1>1
<1>4. ReaderTypeOK'
  BY <1>1, <1>2, <1>3, RowTypes DEF ReaderTypeOK
<1>5. ~ Known(field, pos)
  BY <1>1 DEF Known, type
<1>6. RecordInv' /\ SlotInv'
  BY <1>1, <1>5, RecordKept, SlotsKept
<1>7. EndInv'
  BY <1>1 DEF EndInv
<1>8. PlaceInv' /\ FilledInv' /\ EachFieldItsColumn'
  BY <1>1, WithinRow
<1> QED  BY <1>4, <1>6, <1>7, <1>8 DEF ReaderInv

LEMMA KeepStoreFixed ==
    ASSUME InputInv, ReaderTypeOK, ReaderInv, StoreFixed
    PROVE  ReaderTypeOK' /\ ReaderInv'
<1>1. /\ pc = "reading" /\ pc' = "aborted" /\ pos <= Len(type) /\ type[pos].t = "fixed"
      /\ pos \in DOMAIN type
      /\ UNCHANGED <<input, place, row, pos, found, nIndex, arrIndex, record, results>>
  BY HereFacts DEF StoreFixed, At
<1>2. /\ field' = field /\ type' = type /\ \A f, i : Known(f, i)' = Known(f, i)
  BY <1>1, SameInput
<1>3. ~ Known(field, pos)
  BY <1>1 DEF Known, type
<1>4. EndInv'
  BY <1>1, <1>2, <1>3 DEF EndInv
<1>5. ReaderTypeOK'
  BY <1>1, RowTypes DEF ReaderTypeOK
<1>6. RecordInv' /\ SlotInv'
  BY <1>1 DEF RecordInv, SlotInv, Running
<1>7. PlaceInv' /\ FilledInv' /\ EachFieldItsColumn'
  BY <1>1, WithinRow
<1> QED  BY <1>4, <1>5, <1>6, <1>7 DEF ReaderInv

LEMMA KeepMoveNext ==
    ASSUME InputInv, ReaderTypeOK, ReaderInv, MoveNext
    PROVE  ReaderTypeOK' /\ ReaderInv'
<1>1. /\ pc = "between" /\ UNCHANGED <<input, place, arrIndex, record, results>>
      /\ results' = results /\ record' = record /\ arrIndex' = arrIndex
  BY DEF MoveNext
<1>2. /\ field' = field /\ lost' = lost /\ several' = several
      /\ types' = types /\ sets' = sets /\ type' = type /\ columns' = columns
      /\ rows' = rows
      /\ \A f : SetAt(f)' = SetAt(f)
      /\ \A f, i : Known(f, i)' = Known(f, i)
      /\ \A n : IndexOf(n)' = IndexOf(n)
  BY <1>1, SameInput
<1>3. /\ Len(type) \in Nat /\ DOMAIN type = 1..Len(type) /\ row \in 0..rows /\ rows \in Nat
      /\ Len(columns) \in Nat /\ Slots \in Nat
  BY HereFacts DEF ReaderTypeOK
<1>4. EachFieldItsColumn'
  BY <1>1, <1>2 DEF ReaderInv, EachFieldItsColumn
<1>5. ~ lost
  BY <1>1 DEF ReaderInv, FilledInv
<1>6. CASE row < rows
  <2>1. pc' = "reading" /\ row' = row + 1 /\ pos' = 1 /\ nIndex' = 0 /\ found' = <<0>>
    BY <1>6 DEF MoveNext
  <2>2. pos' - 1 = 0 /\ SlotsOf(type, 0) = 0 /\ Opened(type, 0) = 0
    BY <2>1, SlotFacts, OpenFacts
  <2>3. found' \in Seq(0..Len(columns)) /\ Len(found') = 1
    BY <1>3, <2>1
  <2>4. row' \in 0..rows /\ pos' \in 1..Len(type) + 1
    BY <1>3, <1>6, <2>1
  <2>5. ReaderTypeOK'
    BY <1>1, <1>2, <2>1, <2>2, <2>3, <2>4 DEF ReaderTypeOK
  <2>6. PlaceInv'
    BY <1>3, <2>1 DEF PlaceInv, Running
  <2>7. SlotInv'
    <3>1. CASE row = 0
      BY <1>2, <1>3, <2>1, <2>2, <3>1 DEF SlotInv, Running
    <3>2. CASE row > 0
      <4>1. pos = Len(type) + 1 /\ (row = 1 \/ row > 1) /\ pos - 1 = Len(type)
        BY <1>1, <1>3, <3>2 DEF ReaderInv, PlaceInv
      <4>2. SlotsOf(type, Len(type)) <= Slots
        BY <1>1, <4>1 DEF ReaderInv, SlotInv, Running
      <4>3. \A j \in DOMAIN type : Known(field, j) =>
              arrIndex[SlotsOf(type, j - 1)] \in IndexOf(type[j].name)
        BY <1>1, <1>3, <4>1 DEF ReaderInv, SlotInv, Running
      <4>4. row' > 1 /\ row' # 1
        BY <1>3, <2>1, <3>2
      <4> QED  BY <1>1, <1>2, <4>2, <4>3, <4>4 DEF SlotInv
    <3> QED  BY <1>3, <3>1, <3>2
  <2>8. RecordInv'
    BY <1>2, <1>3, <2>1 DEF RecordInv
  <2>9. FilledInv'
    <3>1. Len(results[field]) = row /\ row' - 1 = row
      BY <1>1, <1>3, <2>1 DEF ReaderInv, FilledInv
    <3> QED  BY <1>1, <1>2, <1>5, <2>1, <3>1 DEF ReaderInv, FilledInv
  <2>10. EndInv'
    BY <2>1 DEF EndInv
  <2> QED  BY <1>4, <2>5, <2>6, <2>7, <2>8, <2>9, <2>10 DEF ReaderInv
<1>7. CASE ~ (row < rows)
  <2>1. /\ pc' = IF several THEN "ended" ELSE "done"
        /\ row' = row /\ pos' = pos /\ nIndex' = nIndex /\ found' = found
    BY <1>7 DEF MoveNext
  <2>2. ReaderTypeOK'
    BY <1>1, <1>2, <2>1 DEF ReaderTypeOK
  <2>3. PlaceInv'
    BY <1>1, <1>2, <1>3, <1>7, <2>1 DEF ReaderInv, PlaceInv, Running
  <2>4. SlotInv' /\ RecordInv'
    BY <1>1, <1>2, <2>1 DEF ReaderInv, SlotInv, RecordInv, Running, Value
  <2>5. FilledInv'
    BY <1>1, <1>2, <1>5, <2>1 DEF ReaderInv, FilledInv
  <2>6. EndInv'
    BY <2>1 DEF EndInv
  <2> QED  BY <1>4, <2>2, <2>3, <2>4, <2>5, <2>6 DEF ReaderInv
<1> QED  BY <1>6, <1>7

(* Between two rows, or two sets, what is filled is known from the rows read. *)
LEMMA OneRowMore ==
    ASSUME ~ lost', pc' = "between", Len(results'[field']) = row',
           \A f : SetAt(f)' = SetAt(f),
           \A f \in DOMAIN types' : /\ f < field' => Len(results'[f]) = SetAt(f).rows
                                    /\ f > field' => results'[f] = <<>>
    PROVE  FilledInv'
<1>1. (lost => pc = "done" /\ several)'
  OBVIOUS
<1>2. (pc = "ended" => several)'
  OBVIOUS
<1>3. (pc = "done" /\ several /\ ~lost => field >= Len(sets) \/ field = Len(types))'
  OBVIOUS
<1>4. (\A f \in DOMAIN types : /\ f < field => Len(results[f]) = SetAt(f).rows
                               /\ f > field => results[f] = <<>>)'
  OBVIOUS
<1>5. (Len(results[field]) = IF pc \in {"between", "ended", "done"} THEN row ELSE row - 1)'
  OBVIOUS
<1> QED  BY <1>1, <1>2, <1>3, <1>4, <1>5 DEF FilledInv

LEMMA KeepRowEnds ==
    ASSUME InputInv, ReaderTypeOK, ReaderInv, RowEnds
    PROVE  ReaderTypeOK' /\ ReaderInv'
<1>1. /\ pc = "reading" /\ pos > Len(type) /\ pc' = "between"
      /\ results' = [results EXCEPT ![field] = Append(@, record)]
      /\ row' = row /\ pos' = pos /\ record' = record /\ arrIndex' = arrIndex
      /\ UNCHANGED <<input, place>>
  BY DEF RowEnds
<1>2. /\ field' = field /\ lost' = lost /\ several' = several
      /\ types' = types /\ sets' = sets /\ type' = type /\ columns' = columns
      /\ rows' = rows
      /\ \A f : SetAt(f)' = SetAt(f)
      /\ \A f, i : Known(f, i)' = Known(f, i)
      /\ \A n : IndexOf(n)' = IndexOf(n)
  BY <1>1, SameInput
<1>3. /\ Len(type) \in Nat /\ DOMAIN type = 1..Len(type) /\ row \in Nat
      /\ pos = Len(type) + 1 /\ row > 0
  <2>1. Len(type) \in Nat /\ DOMAIN type = 1..Len(type) /\ row \in Nat
    BY HereFacts
  <2>2. pos \in 1..Len(type) + 1
    BY DEF ReaderTypeOK
  <2>3. pos = Len(type) + 1
    BY <1>1, <2>1, <2>2
  <2>4. row > 0
    BY <1>1 DEF ReaderInv, PlaceInv
  <2> QED  BY <2>1, <2>3, <2>4
<1> DEFINE R == [DOMAIN type -> Cell]
<1>4. /\ field \in DOMAIN types /\ DOMAIN results = DOMAIN types
      /\ results[field] \in Seq(R) /\ record \in R
      /\ \A f \in DOMAIN types : results[f] \in Seq([DOMAIN types[f] -> Cell])
  BY DEF ReaderTypeOK, type
<1>5. Len(results[field]) = row - 1
  BY <1>1 DEF ReaderInv, FilledInv
<1>6. /\ results'[field] = Append(results[field], record)
      /\ \A f \in DOMAIN types : f # field => results'[f] = results[f]
      /\ DOMAIN results' = DOMAIN types
  BY <1>1, <1>4
<1>7. /\ results'[field] \in Seq(R) /\ Len(results'[field]) = row
      /\ results'[field][row] = record
      /\ \A n \in 1..row - 1 : results'[field][n] = results[field][n]
      /\ DOMAIN results'[field] = 1..row /\ DOMAIN results[field] = 1..row - 1
  <2> HIDE DEF R
  <2>1. Len(results[field]) + 1 = row
    BY <1>3, <1>5
  <2>2. results'[field] \in Seq(R) /\ Len(results'[field]) = row
    BY <1>4, <1>6, <2>1, AppendProperties
  <2>3. /\ results'[field][row] = record
        /\ \A n \in 1..row - 1 : results'[field][n] = results[field][n]
    BY <1>4, <1>5, <1>6, <2>1, AppendProperties
  <2>4. DOMAIN results'[field] = 1..row /\ DOMAIN results[field] = 1..row - 1
    BY <1>4, <1>5, <2>2, LenProperties
  <2> QED  BY <2>2, <2>3, <2>4
<1>8. \A f \in DOMAIN types : results'[f] \in Seq([DOMAIN types[f] -> Cell])
  BY <1>4, <1>6, <1>7 DEF type
<1>9. ReaderTypeOK'
  BY <1>1, <1>2, <1>6, <1>8 DEF ReaderTypeOK
<1>10. PlaceInv' /\ SlotInv' /\ RecordInv'
  BY <1>1, <1>2, <1>3 DEF ReaderInv, PlaceInv, SlotInv, RecordInv, Running, Value
<1>11. FilledInv'
  <2>1. ~ lost
    BY <1>1 DEF ReaderInv, FilledInv
  <2>2. field \in Nat
    BY HereFacts, InputFacts
  <2>3. \A f \in DOMAIN types : /\ f < field => Len(results'[f]) = SetAt(f).rows
                                /\ f > field => results'[f] = <<>>
    BY <1>6, <2>2 DEF ReaderInv, FilledInv
  <2>4. Len(results'[field]) = row /\ pc' = "between"
    BY <1>1, <1>7
  <2>5. lost \in BOOLEAN
    BY DEF ReaderTypeOK
  <2>6. ~ lost' /\ pc' = "between"
    BY <1>2, <2>1, <2>4, <2>5
  <2>7. Len(results'[field']) = row'
    BY <1>1, <1>2, <2>4
  <2>8. \A f \in DOMAIN types' : /\ f < field' => Len(results'[f]) = SetAt(f).rows
                                 /\ f > field' => results'[f] = <<>>
    BY <1>2, <2>3
  <2>9. \A f : SetAt(f)' = SetAt(f)
    BY <1>2
  <2> QED  BY <2>6, <2>7, <2>8, <2>9, OneRowMore
<1>12. EndInv'
  BY <1>1 DEF EndInv
<1>13. EachFieldItsColumn'
  <2> SUFFICES ASSUME NEW f \in DOMAIN types, NEW n \in DOMAIN results'[f],
                      NEW i \in DOMAIN types[f], Known(f, i)
               PROVE  results'[f][n][i] = Value(f, n, types[f][i].name)
    BY <1>2 DEF EachFieldItsColumn, Value
  <2>1. CASE f # field
    BY <1>6, <2>1 DEF ReaderInv, EachFieldItsColumn
  <2>2. CASE f = field /\ n # row
    <3>1. n \in 1..row - 1
      BY <1>3, <1>7, <2>2
    <3> QED  BY <1>7, <2>2, <3>1 DEF ReaderInv, EachFieldItsColumn
  <2>3. CASE f = field /\ n = row
    <3>1. i \in DOMAIN type /\ i < pos
      BY <1>3, <2>3 DEF type
    <3>2. record[i] = Value(field, row, type[i].name)
      BY <1>1, <2>3, <3>1 DEF ReaderInv, RecordInv, Running
    <3> QED  BY <1>7, <2>3, <3>2 DEF type
  <2> QED  BY <2>1, <2>2, <2>3
<1> QED  BY <1>9, <1>10, <1>11, <1>12, <1>13 DEF ReaderInv

(* The query comes to its end: nothing read is touched. *)
LEMMA Finished ==
    ASSUME InputInv, ReaderTypeOK, ReaderInv, pc = "ended", pc' = "done",
           several' = several, types' = types, sets' = sets, field' = field,
           lost' \in BOOLEAN, row' = row, pos' = pos, nIndex' = nIndex, found' = found,
           arrIndex' = arrIndex, record' = record, results' = results,
           FilledInv', EachFieldItsColumn'
    PROVE  ReaderTypeOK' /\ ReaderInv'
<1>1. /\ type' = type /\ columns' = columns /\ rows' = rows
      /\ \A f, i : Known(f, i)' = Known(f, i)
      /\ \A n : IndexOf(n)' = IndexOf(n)
  BY DEF type, columns, rows, SetAt, Known, IndexOf
<1>2. ReaderTypeOK'
  BY <1>1 DEF ReaderTypeOK
<1>3. PlaceInv' /\ EndInv'
  BY <1>1 DEF ReaderInv, PlaceInv, EndInv, Running
<1>4. SlotInv' /\ RecordInv'
  BY <1>1 DEF ReaderInv, SlotInv, RecordInv, Running, Value
<1> QED  BY <1>2, <1>3, <1>4 DEF ReaderInv

LEMMA Stutters ==
    ASSUME ReaderTypeOK, ReaderInv, UNCHANGED readerVars
    PROVE  ReaderTypeOK' /\ ReaderInv'
<1>1. UNCHANGED <<input, place>>
  BY DEF readerVars
<1>2. /\ field' = field /\ lost' = lost /\ several' = several
      /\ types' = types /\ sets' = sets /\ type' = type /\ columns' = columns
      /\ rows' = rows
      /\ \A f : SetAt(f)' = SetAt(f)
      /\ \A f, i : Known(f, i)' = Known(f, i)
      /\ \A n : IndexOf(n)' = IndexOf(n)
  BY <1>1, SameInput
<1>3. /\ pc' = pc /\ row' = row /\ pos' = pos /\ found' = found /\ nIndex' = nIndex
      /\ arrIndex' = arrIndex /\ record' = record /\ results' = results
  BY DEF readerVars
<1>4. ReaderTypeOK'
  BY <1>2, <1>3 DEF ReaderTypeOK
<1>5. PlaceInv' /\ EndInv'
  BY <1>2, <1>3 DEF ReaderInv, PlaceInv, EndInv, Running
<1>6. SlotInv' /\ RecordInv'
  BY <1>2, <1>3 DEF ReaderInv, SlotInv, RecordInv, Running, Value
<1>7. FilledInv' /\ EachFieldItsColumn'
  BY <1>2, <1>3 DEF ReaderInv, FilledInv, EachFieldItsColumn, Value
<1> QED  BY <1>4, <1>5, <1>6, <1>7 DEF ReaderInv

LEMMA KeepNextResultSet ==
    ASSUME InputInv, ReaderTypeOK, ReaderInv, NextResultSet
    PROVE  ReaderTypeOK' /\ ReaderInv'
<1>1. /\ pc = "ended" /\ several' = several /\ types' = types /\ sets' = sets
      /\ lost' = lost /\ results' = results
  BY DEF NextResultSet, input
<1>2. /\ \A f : SetAt(f)' = SetAt(f)
      /\ \A f, i : Known(f, i)' = Known(f, i)
  BY <1>1 DEF SetAt, Known
<1>3. several /\ ~ lost /\ row = rows /\ Len(results[field]) = SetAt(field).rows
  BY <1>1 DEF ReaderInv, FilledInv, PlaceInv, rows
<1>4. /\ field \in 1..Len(types) /\ DOMAIN types = 1..Len(types)
      /\ Len(types) \in Nat /\ Len(sets) \in Nat
  BY HereFacts, InputFacts
<1>5. EachFieldItsColumn'
  BY <1>1, <1>2 DEF ReaderInv, EachFieldItsColumn, Value
<1>6. CASE field < Len(sets) /\ field < Len(types)
  <2>1. /\ pc' = "between" /\ field' = field + 1
        /\ row' = 0 /\ pos' = 1 /\ nIndex' = 0 /\ found' = <<>>
        /\ arrIndex' = NoSlots /\ record' = [i \in DOMAIN types[field + 1] |-> Old]
    BY <1>6 DEF NextResultSet
  <2>2. field + 1 \in DOMAIN types
    BY <1>4, <1>6
  <2>3. /\ type' = types[field + 1] /\ columns' = SetAt(field + 1).columns
        /\ rows' = SetAt(field + 1).rows
    BY <1>1, <1>2, <2>1 DEF type, columns, rows
  <2>4. rows' \in Nat /\ Len(columns') \in Nat /\ Len(type') \in Nat
    <3>1. columns' \in Seq(Name) /\ rows' \in Nat
      BY <2>3, InputFacts
    <3>2. type' \in Seq(Step)
      BY <1>4, <2>2, <2>3, InputFacts
    <3> QED  BY <3>1, <3>2
  <2>5. arrIndex' \in [0..Slots - 1 -> 0..Len(columns')]
    BY <2>1, <2>4 DEF NoSlots
  <2>6. record' \in [DOMAIN type' -> Cell]
    BY <2>1, <2>3 DEF Cell
  <2>7. row' \in 0..rows' /\ pos' \in 1..Len(type') + 1
    BY <2>1, <2>4
  <2>8. ReaderTypeOK'
    BY <1>1, <2>1, <2>2, <2>5, <2>6, <2>7 DEF ReaderTypeOK
  <2>9. PlaceInv'
    BY <2>1 DEF PlaceInv, Running
  <2>10. SlotInv'
    BY <2>1 DEF SlotInv
  <2>11. RecordInv'
    <3>1. \A j \in DOMAIN type' : ~ (j < pos')
      <4>1. type' \in Seq(Step)
        BY <1>4, <2>2, <2>3, InputFacts
      <4> QED  BY <2>1, <4>1
    <3> QED  BY <3>1 DEF RecordInv
  <2>12. FilledInv'
    <3>1. ASSUME NEW f \in DOMAIN types
          PROVE  /\ f < field + 1 => Len(results[f]) = SetAt(f).rows
                 /\ f > field + 1 => results[f] = <<>>
      <4>1. f \in Nat /\ field \in Nat
        BY <1>4
      <4>2. CASE f = field
        BY <1>3, <4>1, <4>2
      <4>3. CASE f # field
        BY <4>1, <4>3 DEF ReaderInv, FilledInv
      <4> QED  BY <4>2, <4>3
    <3>2. Len(results[field + 1]) = 0
      <4>1. field \in Nat /\ field + 1 > field
        BY <1>4
      <4>2. results[field + 1] = <<>>
        BY <2>2, <4>1 DEF ReaderInv, FilledInv
      <4> QED  BY <4>2
    <3> QED  BY <1>1, <1>2, <1>3, <2>1, <3>1, <3>2, OneRowMore
  <2>13. EndInv'
    BY <2>1 DEF EndInv
  <2> QED  BY <1>5, <2>8, <2>9, <2>10, <2>11, <2>12, <2>13 DEF ReaderInv
<1>7. CASE ~ (field < Len(sets) /\ field < Len(types))
  <2>1. /\ pc' = "done" /\ field' = field /\ row' = row /\ pos' = pos
        /\ found' = found /\ nIndex' = nIndex /\ arrIndex' = arrIndex
        /\ record' = record
    BY <1>7 DEF NextResultSet
  <2>2. UNCHANGED <<input, place>>
    BY <1>1, <2>1 DEF input, place
  <2>3. field >= Len(sets) \/ field = Len(types)
    <3> DEFINE t == Len(types)
               s == Len(sets)
    <3>1. field \in 1..t /\ t \in Nat /\ s \in Nat /\ ~ (field < s /\ field < t)
      BY <1>4, <1>7
    <3> HIDE DEF t, s
    <3>2. field >= s \/ field = t
      BY <3>1
    <3> QED  BY <3>2 DEF t, s
  <2>4. FilledInv'
    BY <1>1, <1>2, <1>3, <2>1, <2>3 DEF ReaderInv, FilledInv
  <2>5. lost' \in BOOLEAN
    BY <1>1 DEF ReaderTypeOK
  <2> QED  BY <1>1, <1>5, <2>1, <2>4, <2>5, Finished
<1> QED  BY <1>6, <1>7

LEMMA KeepNextResultSetFails ==
    ASSUME InputInv, ReaderTypeOK, ReaderInv, NextResultSetFails
    PROVE  ReaderTypeOK' /\ ReaderInv'
<1>1. /\ pc = "ended" /\ several' = several /\ types' = types /\ sets' = sets
      /\ pc' = "done" /\ lost' = TRUE /\ field' = field /\ row' = row /\ pos' = pos
      /\ found' = found /\ nIndex' = nIndex /\ arrIndex' = arrIndex
      /\ record' = record /\ results' = results
  BY DEF NextResultSetFails, input
<1>2. /\ \A f : SetAt(f)' = SetAt(f)
      /\ \A f, i : Known(f, i)' = Known(f, i)
  BY <1>1 DEF SetAt, Known
<1>3. FilledInv'
  BY <1>1, <1>2 DEF ReaderInv, FilledInv
<1>4. EachFieldItsColumn'
  BY <1>1, <1>2 DEF ReaderInv, EachFieldItsColumn, Value
<1> QED  BY <1>1, <1>3, <1>4, Finished

(* Nothing there is at the start has been read. *)
LEMMA ReaderStarts ==
    ASSUME ReaderInit
    PROVE  InputInv /\ ReaderTypeOK /\ ReaderInv
<1>1. /\ field = 1 /\ lost = FALSE /\ pc = "between" /\ row = 0 /\ pos = 1
      /\ found = <<>> /\ nIndex = 0 /\ arrIndex = NoSlots
      /\ record = [i \in DOMAIN type |-> Old]
      /\ results = [f \in DOMAIN types |-> <<>>]
  BY DEF ReaderInit
<1>2. PICK reading \in Readings :
        several = reading.several /\ types = reading.types /\ sets = reading.sets
  BY DEF ReaderInit
<1>3. /\ types \in Seq(Seq(Step)) /\ types # <<>>
      /\ sets \in Seq([columns : Seq(Name), rows : Nat])
  BY <1>2, ReaderAssumption
<1>4. /\ 1 \in DOMAIN types /\ DOMAIN types = 1..Len(types) /\ Len(types) \in Nat
      /\ type \in Seq(Step) /\ Len(type) \in Nat /\ DOMAIN type = 1..Len(type)
  BY <1>1, <1>3 DEF type
<1>5. columns \in Seq(Name) /\ rows \in Nat /\ Len(columns) \in Nat
  <2>1. CASE 1 \in DOMAIN sets
    <3> DEFINE S == [columns : Seq(Name), rows : Nat]
    <3>1. sets \in Seq(S) /\ 1 \in 1..Len(sets)
      BY <1>3, <2>1
    <3> HIDE DEF S
    <3>2. sets[1] \in S
      BY <3>1, ElementOfSeq
    <3>3. sets[1].columns \in Seq(Name) /\ sets[1].rows \in Nat
      BY <3>2 DEF S
    <3> QED  BY <1>1, <2>1, <3>3 DEF columns, rows, SetAt
  <2>2. CASE 1 \notin DOMAIN sets
    BY <1>1, <2>2 DEF columns, rows, SetAt
  <2> QED  BY <2>1, <2>2
<1>6. arrIndex \in [0..Slots - 1 -> 0..Len(columns)]
  BY <1>1, <1>5 DEF NoSlots
<1>7. record \in [DOMAIN type -> Cell]
  BY <1>1 DEF Cell
<1>8. row \in 0..rows /\ pos \in 1..Len(type) + 1
  BY <1>1, <1>4, <1>5
<1>9. /\ DOMAIN results = DOMAIN types /\ \A f \in DOMAIN types : results[f] = <<>>
      /\ \A f \in DOMAIN types : results[f] \in Seq([DOMAIN types[f] -> Cell])
  BY <1>1
<1>10. ReaderTypeOK
  BY <1>1, <1>4, <1>6, <1>7, <1>8, <1>9 DEF ReaderTypeOK
<1>11. InputInv
  BY <1>2 DEF InputInv
<1>12. PlaceInv /\ SlotInv /\ EndInv
  BY <1>1 DEF PlaceInv, SlotInv, EndInv, Running
<1>13. RecordInv
  <2>1. \A j \in DOMAIN type : ~ (j < pos)
    BY <1>1, <1>4
  <2> QED  BY <2>1 DEF RecordInv
<1>14. FilledInv
  <2>1. \A f \in DOMAIN types : ~ (f < field)
    BY <1>1, <1>4
  <2>2. Len(results[field]) = row
    BY <1>1, <1>4, <1>9
  <2> QED  BY <1>1, <1>9, <2>1, <2>2 DEF FilledInv
<1>15. EachFieldItsColumn
  BY <1>9 DEF EachFieldItsColumn
<1> QED  BY <1>10, <1>11, <1>12, <1>13, <1>14, <1>15 DEF ReaderInv

(* Every step, and a stutter, keeps all of it. *)
LEMMA ReaderKeeps ==
    ASSUME InputInv, ReaderTypeOK, ReaderInv, [ReaderNext]_readerVars
    PROVE  InputInv' /\ ReaderTypeOK' /\ ReaderInv'
<1>1. UNCHANGED input
  BY DEF ReaderNext, readerVars, MoveNext, NextResultSet, NextResultSetFails, RowEnds,
         ReadByName, Descend, Ascend, PassOver, ReadByIndex, NextSlot, StoreFixed
<1>2. InputInv'
  BY <1>1, SameReading
<1>3. CASE MoveNext  BY <1>2, <1>3, KeepMoveNext
<1>4. CASE NextResultSet  BY <1>2, <1>4, KeepNextResultSet
<1>5. CASE NextResultSetFails  BY <1>2, <1>5, KeepNextResultSetFails
<1>6. CASE RowEnds  BY <1>2, <1>6, KeepRowEnds
<1>7. CASE ReadByName  BY <1>2, <1>7, KeepReadByName
<1>8. CASE Descend  BY <1>2, <1>8, KeepDescend
<1>9. CASE Ascend  BY <1>2, <1>9, KeepAscend
<1>10. CASE PassOver  BY <1>2, <1>10, KeepPassOver
<1>11. CASE ReadByIndex  BY <1>2, <1>11, KeepReadByIndex
<1>12. CASE NextSlot  BY <1>2, <1>12, KeepNextSlot
<1>13. CASE StoreFixed  BY <1>2, <1>13, KeepStoreFixed
<1>14. CASE UNCHANGED readerVars
  BY <1>2, <1>14, Stutters
<1> QED  BY <1>3, <1>4, <1>5, <1>6, <1>7, <1>8, <1>9, <1>10, <1>11, <1>12, <1>13, <1>14
      DEF ReaderNext

-----------------------------------------------------------------------------
(* The input stays one of the readings, the slots and the open calls are those the
   steps taken call for, and ReaderInv holds: what is found by name is found again by
   index, AddFirstReturnRecord and AddReturnRecord agreeing on the slots. *)
THEOREM ReaderInvariance ==
    ReaderSpec => [](InputInv /\ ReaderTypeOK /\ ReaderInv)
<1>1. ReaderInit => InputInv /\ ReaderTypeOK /\ ReaderInv
  BY ReaderStarts
<1>2. InputInv /\ ReaderTypeOK /\ ReaderInv /\ [ReaderNext]_readerVars
        => (InputInv /\ ReaderTypeOK /\ ReaderInv)'
  BY ReaderKeeps
<1> QED  BY <1>1, <1>2, PTL DEF ReaderSpec

(* The types: both walks have used as many slots as the steps taken have, and as many
   calls are open as sub-messages. *)
THEOREM ReaderTyping == ReaderSpec => []ReaderTypeOK
BY ReaderInvariance, PTL

(* Reading by index finds what reading by name would: in every record handed on,
   every field whose column is in its result set holds the value of that column. *)
THEOREM ColumnsFound == ReaderSpec => []EachFieldItsColumn
<1>1. ReaderInv => EachFieldItsColumn
  BY DEF ReaderInv
<1> QED  BY <1>1, ReaderInvariance, PTL

(* No row ends the process, by an index out of range in ZdbResultSet or past arrIndex,
   when every field has its column and the fields have slots. *)
THEOREM EveryRowReadable == ReaderSpec => []ReadsToTheEnd
<1>1. InputInv /\ ReaderTypeOK /\ ReaderInv => ReadsToTheEnd
  <2> SUFFICES ASSUME InputInv, ReaderTypeOK, ReaderInv, ~ Running,
                      NEW f \in DOMAIN types, f = field,
                      f \in DOMAIN sets =>
                        /\ \A i \in DOMAIN types[f] :
                             types[f][i].t \in {"open", "close", "other"} \/ Known(f, i)
                        /\ SlotsOf(types[f], Len(types[f])) <= Slots
               PROVE  FALSE
    BY DEF ReadsToTheEnd, Running, ReaderTypeOK
  <2>1. f \in DOMAIN sets
    <3>1. row \in 0..rows /\ row # 0
      BY DEF ReaderTypeOK, ReaderInv, PlaceInv
    <3>2. rows # 0
      BY <3>1
    <3> QED  BY <3>2 DEF rows, SetAt
  <2>2. pc # "aborted"
    BY <2>1 DEF ReaderInv, EndInv, type
  <2>3. pc # "undefined"
    <3>1. Len(type) \in 0..Len(type) /\ Slots \in Nat
      BY HereFacts
    <3>2. SlotsOf(type, Len(type)) \in Nat
      BY <3>1, SlotFacts
    <3> QED  BY <2>1, <3>1, <3>2 DEF ReaderInv, EndInv, type
  <2> QED  BY <2>2, <2>3 DEF Running
<1> QED  BY <1>1, ReaderInvariance, PTL

(* A query that succeeds has filled each field of return_recordsets from the set in
   its place, to the last row; fields stay empty only behind a failure to get the next
   set (the loop over the fields in Protobuf2DbEngine::SpQuery). *)
THEOREM SetsInTheirPlace == ReaderSpec => []SetsFilledInTurn
<1>1. InputInv /\ ReaderTypeOK /\ ReaderInv => SetsFilledInTurn
  <2> SUFFICES ASSUME InputInv, ReaderTypeOK, ReaderInv, pc = "done",
                      NEW f \in DOMAIN types
               PROVE  Len(results[f]) = IF f <= field \/ (several /\ ~lost)
                                          THEN SetAt(f).rows ELSE 0
    BY DEF SetsFilledInTurn
  <2>1. f \in Nat /\ field \in Nat /\ f <= Len(types) /\ Len(types) \in Nat
    BY HereFacts, InputFacts
  <2>2. CASE f < field
    BY <2>1, <2>2 DEF ReaderInv, FilledInv
  <2>3. CASE f = field
    <3>1. row = rows /\ Len(results[field]) = row
      BY DEF ReaderInv, PlaceInv, FilledInv
    <3> QED  BY <2>1, <2>3, <3>1 DEF rows
  <2>4. CASE f > field
    <3>1. Len(results[f]) = 0
      <4>1. results[f] = <<>>
        BY <2>4 DEF ReaderInv, FilledInv
      <4> QED  BY <4>1
    <3>2. ASSUME several, ~lost
          PROVE  SetAt(f).rows = 0
      <4>1. field >= Len(sets)
        <5>1. field # Len(types)
          BY <2>1, <2>4
        <5> QED  BY <3>2, <5>1 DEF ReaderInv, FilledInv
      <4>2. f \notin DOMAIN sets
        <5>1. Len(sets) \in Nat /\ DOMAIN sets = 1..Len(sets)
          BY InputFacts
        <5> QED  BY <2>1, <2>4, <4>1, <5>1
      <4> QED  BY <4>2, InputFacts
    <3>3. ~ (f <= field)
      BY <2>1, <2>4
    <3> QED  BY <3>1, <3>2, <3>3
  <2> QED  BY <2>1, <2>2, <2>3, <2>4
<1> QED  BY <1>1, ReaderInvariance, PTL
=============================================================================
