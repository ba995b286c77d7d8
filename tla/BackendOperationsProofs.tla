----------------------- MODULE BackendOperationsProofs -----------------------
(***************************************************************************)
(* Lemmas about the operations a backend executes, and about what an       *)
(* observer makes of the changes of its stream (DataStreams!View), which   *)
(* is defined by recursion over the log.  The library states induction     *)
(* with an operator as a parameter; here it is stated with a set, and      *)
(* follows from the well-foundedness of the strict inclusion of finite     *)
(* sets.                                                                   *)
(***************************************************************************)
EXTENDS BackendOperations, Integers, FiniteSetTheorems, WellFoundedInduction, SequenceTheorems, TLAPS

-----------------------------------------------------------------------------
(* Sequences *)

\* The first element of a nonempty queue and the rest of it, by position.
LEMMA HeadAndRest ==
  ASSUME NEW S, NEW queue \in Seq(S), queue # << >>
  PROVE  /\ Len(queue) \in Nat \ {0}
         /\ Head(queue) = queue[1]
         /\ Len(Tail(queue)) = Len(queue) - 1
         /\ \A i \in 1 .. Len(queue) - 1 : Tail(queue)[i] = queue[i + 1]
  BY HeadTailProperties, EmptySeq, LenProperties

\* Three lists put together, from either side; a name of its own keeps the lists out of proofs that
\* need only this of them.
Associated(s, t, u) == (s \o t) \o u = s \o (t \o u)

\* It holds for sequences.
LEMMA Associate ==
  ASSUME NEW S, NEW s \in Seq(S), NEW t \in Seq(S), NEW u \in Seq(S)
  PROVE  Associated(s, t, u)
  BY ConcatAssociative, SMTT(20) DEF Associated

\* Replacing an element leaves a sequence; EXCEPT of no element changes nothing.
LEMMA ReplacedInSeq ==
  ASSUME NEW S, NEW seq \in Seq(S), NEW i, NEW e, i \in DOMAIN seq => e \in S
  PROVE  [seq EXCEPT ![i] = e] \in Seq(S)
<1>1. DOMAIN seq = 1 .. Len(seq)
  BY LenProperties
<1>2. CASE i \in DOMAIN seq
  BY <1>1, <1>2, ExceptSeq
<1>3. CASE i \notin DOMAIN seq
  <2>1. seq = [j \in DOMAIN seq |-> seq[j]]
    BY LenProperties
  <2>2. [seq EXCEPT ![i] = e] = seq
    BY <1>3, <2>1
  <2>. QED
    BY <2>2
<1>. QED
  BY <1>2, <1>3

-----------------------------------------------------------------------------
(* The operations of a batch *)

\* What executeOperation leaves in the storage is a database.
LEMMA EffectType ==
  ASSUME NEW db \in Database, NEW op \in Operation
  PROVE  Effect(db, op) \in Database
<1>1. CASE ~Succeeds(db, op)
  BY <1>1 DEF Effect
<1>2. CASE Succeeds(db, op) /\ op.op = "EraseAllData"
  BY <1>2 DEF Effect, DeleteAll, EmptyDatabase, Database
<1>3. CASE Succeeds(db, op) /\ op.op = "StoreNew"
  <2>1. CASE op.item.type = "Null"
    BY <1>3, <2>1 DEF Effect
  <2>2. CASE op.item.type # "Null"
    <3>1. op.item \in Item /\ op.item.type \in Tables
      BY <1>3, <2>2 DEF Operation, Succeeds, Item, ItemTypes
    <3>2. [revision |-> 1, fields |-> op.item.fields, parts |-> op.item.parts] \in Row
      BY <3>1 DEF Item, Row
    <3>3. Append(db[op.item.type], [revision |-> 1, fields |-> op.item.fields, parts |-> op.item.parts])
            \in Seq(Row)
      BY <3>1, <3>2, AppendProperties DEF Database
    <3>4. Effect(db, op) = StoreNewItem(db, op.item)
      BY <1>3, <2>2 DEF Effect
    <3>. QED
      BY <3>1, <3>3, <3>4 DEF StoreNewItem, Database
  <2>. QED
    BY <2>1, <2>2
<1>4. CASE Succeeds(db, op) /\ op.op = "Update"
  <2>1. op.item \in Item /\ op.item.type \in Tables /\ op.item.id \in DOMAIN db[op.item.type]
    BY <1>4 DEF Operation, Succeeds, Matches, Item
  <2>2. Effect(db, op) = UpdateItem(db, op.item)
    BY <1>4 DEF Effect
  <2>. DEFINE old == db[op.item.type][op.item.id]
              new == [revision |-> old.revision + 1, fields |-> op.item.fields,
                      parts |-> IF op.item.type = "Hotel" THEN old.parts ELSE op.item.parts]
  <2>3. db[op.item.type] \in Seq(Row) /\ old \in Row
    BY <2>1, ElementOfSeq DEF Database
  <2>4. new \in Row
    <3>1. /\ old.revision + 1 \in Nat /\ old.parts \in Seq(Part)
          /\ op.item.fields \in Fields /\ op.item.parts \in Seq(Part)
      BY <2>1, <2>3, SMTT(20) DEF Row, Item
    <3>. HIDE DEF old
    <3>. QED
      BY <3>1 DEF Row
  <2>5. [db[op.item.type] EXCEPT ![op.item.id] = new] \in Seq(Row)
    BY <2>1, <2>3, <2>4, ExceptSeq, LenProperties
  <2>6. UpdateItem(db, op.item) = [db EXCEPT ![op.item.type] = [db[op.item.type] EXCEPT ![op.item.id] = new]]
    BY DEF UpdateItem
  <2>. QED
    BY <2>1, <2>2, <2>5, <2>6 DEF Database
<1>5. CASE Succeeds(db, op) /\ op.op = "Delete"
  <2>1. Effect(db, op) = DeleteReservationById(db, op.id)
    BY <1>5 DEF Effect
  <2>2. CASE op.id \notin DOMAIN db["Reservation"]
    BY <2>1, <2>2 DEF DeleteReservationById
  <2>3. CASE op.id \in DOMAIN db["Reservation"]
    <3>. DEFINE old == db["Reservation"][op.id]
                new == [old EXCEPT !.parts = << >>]
    <3>1. db["Reservation"] \in Seq(Row) /\ old \in Row
      BY <2>3, ElementOfSeq DEF Database, Tables
    <3>2. new \in Row
      <4>1. << >> \in Seq(Part)
        BY EmptySeq
      <4>2. \A r \in Row, p \in Seq(Part) : [r EXCEPT !.parts = p] \in Row
        BY DEF Row
      <4>. QED
        BY <3>1, <4>1, <4>2
    <3>3. [db["Reservation"] EXCEPT ![op.id] = new] \in Seq(Row)
      BY <2>3, <3>1, <3>2, ExceptSeq, LenProperties
    <3>. QED
      BY <2>1, <2>3, <3>3 DEF DeleteReservationById, Database, Tables
  <2>. QED
    BY <2>2, <2>3
<1>. QED
  BY <1>1, <1>2, <1>3, <1>4, <1>5 DEF Operation

\* What the handlers put on a stream for an operation is a list of changes.
LEMMA ChangesForType ==
  ASSUME NEW db \in Database, NEW op \in Operation, NEW e \in Endpoint
  PROVE  ChangesFor(db, op, e) \in Seq(Change)
<1>0. << >> \in Seq(Change) /\ \A c \in Change : <<c>> \in Seq(Change)
  BY EmptySeq
<1>1. CASE ~Succeeds(db, op)
  BY <1>0, <1>1 DEF ChangesFor
<1>2. CASE Succeeds(db, op) /\ op.op = "EraseAllData"
  BY <1>0, <1>2 DEF ChangesFor, ClearChanges, Change
<1>3. CASE Succeeds(db, op) /\ op.op = "StoreNew"
  <2>1. CASE op.item.type = "Null"
    BY <1>0, <1>3, <2>1 DEF ChangesFor
  <2>2. CASE op.item.type # "Null"
    <3>1. op.item \in Item /\ op.item.type \in Tables
      BY <1>3, <2>2 DEF Operation, Succeeds, Item, ItemTypes
    <3>2. Len(db[op.item.type]) + 1 \in Nat
      BY <3>1, LenProperties DEF Database
    <3>3. StoredItem(db, op.item) \in Item
      <4>1. \A i \in Item, n \in Nat : [i EXCEPT !.id = n, !.revision = 1] \in Item
        BY DEF Item
      <4>. QED
        BY <3>1, <3>2, <4>1 DEF StoredItem
    <3>4. Added({StoredItem(db, op.item)}) \in Change
      BY <3>3 DEF Added, Change
    <3>. QED
      BY <1>0, <1>3, <2>2, <3>4 DEF ChangesFor, ItemChanges
  <2>. QED
    BY <2>1, <2>2
<1>4. CASE Succeeds(db, op) /\ op.op = "Update"
  <2>1. op.item \in Item
    BY <1>4 DEF Operation
  <2>2. [op.item EXCEPT !.revision = @ + 1] \in Item
    BY <2>1 DEF Item
  <2>3. Updated({[op.item EXCEPT !.revision = @ + 1]}) \in Change
    BY <2>2 DEF Updated, Change
  <2>. QED
    BY <1>0, <1>4, <2>3 DEF ChangesFor, ItemChanges
<1>5. CASE Succeeds(db, op) /\ op.op = "Delete"
  <2>1. op.id \in Nat
    BY <1>5 DEF Operation
  <2>2. Removed({op.id}) \in Change
    BY <2>1 DEF Removed, Change
  <2>. QED
    BY <1>0, <1>5, <2>2 DEF ChangesFor, RemoveChanges
<1>. QED
  BY <1>1, <1>2, <1>3, <1>4, <1>5 DEF Operation

\* The items loaded for a stream are items.
LEMMA LoadedType ==
  ASSUME NEW db \in Database, NEW e \in Endpoint
  PROVE  Loaded(db, e) \in SUBSET Item
<1>1. ASSUME NEW t \in Tables, NEW id \in DOMAIN db[t]
      PROVE  ItemAt(db, t, id) \in Item
  <2>1. db[t] \in Seq(Row) /\ db[t][id] \in Row /\ id \in Nat
    BY <1>1, ElementOfSeq, LenProperties DEF Database
  <2>. QED
    BY <2>1 DEF ItemAt, Item, ItemTypes, Row
<1>2. ASSUME NEW t \in Tables
      PROVE  /\ LoadAll(db, t) \subseteq Item
             /\ \A id : LoadById(db, t, id) \subseteq Item
  BY <1>1, <1>2 DEF LoadAll, LoadById, IsLoadable
<1>. QED
  BY <1>2 DEF Loaded

\* The initial changes of a stream are changes.
LEMMA InitialChangesType ==
  ASSUME NEW db \in Database, NEW e \in Endpoint
  PROVE  InitialChanges(db, e) \in Seq(Change)
<1>1. Added(Loaded(db, e)) \in Change
  BY LoadedType DEF Added, Change
<1>. QED
  BY <1>1, EmptySeq DEF InitialChanges

-----------------------------------------------------------------------------
(* Induction over sets of numbers *)

\* A nonempty set of natural numbers has a least element.
LEMMA LeastNumber ==
  ASSUME NEW N \in SUBSET Nat, N # {}
  PROVE  \E m \in N : \A k \in N : m <= k
<1>. DEFINE T == {0 .. n : n \in N}
<1>1. T \subseteq FiniteSubsetsOf(Nat)
  <2>1. ASSUME NEW n \in N PROVE 0 .. n \in FiniteSubsetsOf(Nat)
    <3>1. 0 .. n \in SUBSET Nat
      OBVIOUS
    <3>2. IsFiniteSet(0 .. n)
      BY FS_Interval
    <3>. QED
      BY <3>1, <3>2 DEF FiniteSubsetsOf
  <2>. QED
    BY <2>1
<1>2. T # {}
  OBVIOUS
<1>3. PICK x \in T : \A y \in T : <<y, x>> \notin StrictSubsetOrdering(Nat)
  <2>1. IsWellFoundedOn(StrictSubsetOrdering(Nat), FiniteSubsetsOf(Nat))
    BY FS_StrictSubsetOrderingWellFounded
  <2>. HIDE DEF T
  <2>. QED
    BY <1>1, <1>2, <2>1, WFMin
<1>4. PICK m \in N : x = 0 .. m
  BY <1>3
<1>5. ASSUME NEW k \in N, k < m PROVE FALSE
  <2>1. 0 .. k \in T /\ 0 .. k \subseteq 0 .. m /\ 0 .. k # 0 .. m
    <3>1. m \in 0 .. m /\ m \notin 0 .. k
      BY <1>5
    <3>. QED
      BY <1>5, <3>1
  <2>2. <<0 .. k, 0 .. m>> \in StrictSubsetOrdering(Nat)
    BY <2>1 DEF StrictSubsetOrdering
  <2>. QED
    BY <1>3, <1>4, <2>1, <2>2
<1>. QED
  BY <1>5

\* A set that holds 0 and the successor of each of its members holds all natural numbers.
LEMMA SetInduction ==
  ASSUME NEW N, 0 \in N, \A n \in Nat : n \in N => n + 1 \in N
  PROVE  \A n \in Nat : n \in N
<1>. SUFFICES ASSUME NEW n \in Nat, n \notin N PROVE FALSE
  OBVIOUS
<1>1. Nat \ N \in SUBSET Nat /\ Nat \ N # {}
  OBVIOUS
<1>2. PICK m \in Nat \ N : \A k \in Nat \ N : m <= k
  BY <1>1, LeastNumber
<1>3. m # 0 /\ m - 1 \in Nat /\ (m - 1) + 1 = m
  BY <1>2
<1>4. m - 1 \in N
  BY <1>2, <1>3
<1>. QED
  BY <1>2, <1>3, <1>4

\* f is given for 0, and for each further number from the number before.
Stepwise(f, D, m, first, step) ==
  /\ f \in [0 .. m -> D]
  /\ f[0] = first
  /\ \A n \in 1 .. m : f[n] = step[n][f[n - 1]]

\* Such a function exists, and takes its values where the first one is and the steps stay.
LEMMA StepwiseFunction ==
  ASSUME NEW D, NEW first \in D, NEW m \in Nat, NEW step \in [1 .. m -> [D -> D]]
  PROVE  \E f : Stepwise(f, D, m, first, step)
<1>. DEFINE Upto(k, f) == Stepwise(f, D, k, first, step)
            N == {k \in Nat : k <= m => \E f : Upto(k, f)}
<1>1. 0 \in N
  <2>1. Upto(0, [n \in 0 .. 0 |-> first])
    BY DEF Stepwise
  <2>. HIDE DEF Upto
  <2>. QED
    BY <2>1
<1>2. ASSUME NEW k \in Nat, k \in N PROVE k + 1 \in N
  <2>. SUFFICES ASSUME k + 1 <= m PROVE \E f : Upto(k + 1, f)
    OBVIOUS
  <2>1. PICK f : Upto(k, f)
    BY <1>2
  <2>. DEFINE g == [n \in 0 .. k + 1 |-> IF n = k + 1 THEN step[k + 1][f[k]] ELSE f[n]]
  <2>2. step[k + 1][f[k]] \in D
    BY <2>1 DEF Stepwise
  <2>3. g \in [0 .. k + 1 -> D] /\ g[0] = first
    BY <2>1, <2>2 DEF Stepwise
  <2>4. ASSUME NEW n \in 1 .. k + 1 PROVE g[n] = step[n][g[n - 1]]
    <3>1. CASE n = k + 1
      <4>1. n - 1 = k /\ g[n - 1] = f[k]
        BY <3>1
      <4>. QED
        BY <3>1, <4>1
    <3>2. CASE n # k + 1
      <4>1. n \in 1 .. k /\ g[n] = f[n] /\ g[n - 1] = f[n - 1]
        BY <3>2
      <4>. QED
        BY <2>1, <4>1 DEF Stepwise
    <3>. QED
      BY <3>1, <3>2
  <2>5. Upto(k + 1, g)
    <3>. HIDE DEF g
    <3>. QED
      BY <2>3, <2>4 DEF Stepwise
  <2>. HIDE DEF Upto, g
  <2>. QED
    BY <2>5
<1>3. m \in N
  <2>. HIDE DEF N
  <2>. QED
    BY <1>1, <1>2, SetInduction
<1>. QED
  BY <1>3

-----------------------------------------------------------------------------
(* The view of a log *)

\* The recursive definition of View defines a function.
LEMMA ViewDefined ==
  ASSUME NEW log, Len(log) \in Nat
  PROVE  View(log) = [n \in 0 .. Len(log) |->
                        IF n = 0 THEN {} ELSE ApplyChange(View(log)[n - 1], log[n])]
<1>. DEFINE Upto(m, v) == v = [n \in 0 .. m |-> IF n = 0 THEN {} ELSE ApplyChange(v[n - 1], log[n])]
            N == {m \in Nat : \E v : Upto(m, v)}
<1>1. 0 \in N
  <2>1. Upto(0, [n \in 0 .. 0 |-> {}])
    OBVIOUS
  <2>. HIDE DEF Upto
  <2>. QED
    BY <2>1
<1>2. ASSUME NEW m \in Nat, m \in N PROVE m + 1 \in N
  <2>1. PICK v : Upto(m, v)
    BY <1>2
  <2>. DEFINE w == [n \in 0 .. m + 1 |-> IF n = m + 1 THEN ApplyChange(v[m], log[m + 1]) ELSE v[n]]
  <2>2. ASSUME NEW n \in 0 .. m + 1
        PROVE  w[n] = IF n = 0 THEN {} ELSE ApplyChange(w[n - 1], log[n])
    <3>1. CASE n = m + 1
      <4>1. n # 0 /\ n - 1 = m /\ w[m] = v[m]
        BY <3>1
      <4>. QED
        BY <3>1, <4>1
    <3>2. CASE n # m + 1
      <4>1. n \in 0 .. m /\ w[n] = v[n] /\ (n # 0 => n - 1 \in 0 .. m /\ w[n - 1] = v[n - 1])
        BY <3>2
      <4>2. v[n] = IF n = 0 THEN {} ELSE ApplyChange(v[n - 1], log[n])
        BY <2>1, <4>1
      <4>. QED
        BY <4>1, <4>2
    <3>. QED
      BY <3>1, <3>2
  <2>3. Upto(m + 1, w)
    <3>. HIDE DEF N
    <3>1. w = [n \in 0 .. m + 1 |-> w[n]]
      OBVIOUS
    <3>. QED
      BY <2>2, <3>1
  <2>. HIDE DEF Upto, w
  <2>. QED
    BY <2>3
<1>3. Len(log) \in N
  <2>. HIDE DEF N
  <2>. QED
    BY <1>1, <1>2, SetInduction
<1>4. \E v : Upto(Len(log), v)
  BY <1>3
<1>5. View(log) = CHOOSE v : Upto(Len(log), v)
  BY DEF View
<1>6. Upto(Len(log), View(log))
  <2>. HIDE DEF Upto
  <2>. QED
    BY <1>4, <1>5
<1>. QED
  BY <1>6

\* The view of the first changes of a log: nothing at first, and then what each change makes
\* of the view before it.
LEMMA ViewSteps ==
  ASSUME NEW log, Len(log) \in Nat
  PROVE  /\ View(log)[0] = {}
         /\ \A n \in 1 .. Len(log) : View(log)[n] = ApplyChange(View(log)[n - 1], log[n])
<1>1. ASSUME NEW n \in 0 .. Len(log)
      PROVE  View(log)[n] = IF n = 0 THEN {} ELSE ApplyChange(View(log)[n - 1], log[n])
  <2>. DEFINE view == View(log)
  <2>1. view = [m \in 0 .. Len(log) |-> IF m = 0 THEN {} ELSE ApplyChange(view[m - 1], log[m])]
    BY ViewDefined
  <2>. HIDE DEF view
  <2>2. view[n] = IF n = 0 THEN {} ELSE ApplyChange(view[n - 1], log[n])
    BY <2>1
  <2>. QED
    BY <2>2 DEF view
<1>. QED
  BY <1>1

\* A log that does not end shows nothing before its first change.
LEMMA EmptyLog == Contents(<< >>) = {}
<1>1. Len(<< >>) = 0
  OBVIOUS
<1>. QED
  BY <1>1, ViewSteps DEF Contents

\* What comes later does not change what was shown before.
LEMMA ViewOfLongerLog ==
  ASSUME NEW S, NEW log \in Seq(S), NEW more \in Seq(S)
  PROVE  \A n \in 0 .. Len(log) : View(log \o more)[n] = View(log)[n]
<1>. DEFINE N == {n \in Nat : n <= Len(log) => View(log \o more)[n] = View(log)[n]}
<1>0. /\ Len(log) \in Nat /\ Len(more) \in Nat /\ Len(log \o more) = Len(log) + Len(more)
      /\ \A n \in 1 .. Len(log) : (log \o more)[n] = log[n]
  BY ConcatProperties, LenProperties
<1>. DEFINE longer == log \o more
<1>a. Len(longer) \in Nat
  BY <1>0
<1>b. /\ View(longer)[0] = {}
      /\ \A n \in 1 .. Len(longer) : View(longer)[n] = ApplyChange(View(longer)[n - 1], longer[n])
  <2>. HIDE DEF longer
  <2>. QED
    BY <1>a, ViewSteps
<1>c. /\ View(log)[0] = {}
      /\ \A n \in 1 .. Len(log) : View(log)[n] = ApplyChange(View(log)[n - 1], log[n])
  BY <1>0, ViewSteps
<1>1. 0 \in N
  BY <1>0, <1>b, <1>c
<1>2. ASSUME NEW n \in Nat, n \in N PROVE n + 1 \in N
  <2>. SUFFICES ASSUME n + 1 <= Len(log) PROVE View(log \o more)[n + 1] = View(log)[n + 1]
    OBVIOUS
  <2>1. n + 1 \in 1 .. Len(log) /\ n + 1 \in 1 .. Len(log \o more) /\ (n + 1) - 1 = n
    BY <1>0
  <2>2. /\ View(log \o more)[n + 1] = ApplyChange(View(log \o more)[n], (log \o more)[n + 1])
        /\ View(log)[n + 1] = ApplyChange(View(log)[n], log[n + 1])
    BY <1>0, <1>b, <1>c, <2>1
  <2>. QED
    BY <1>0, <1>2, <2>1, <2>2
<1>3. \A n \in Nat : n \in N
  <2>. HIDE DEF N
  <2>. QED
    BY <1>1, <1>2, SetInduction
<1>. QED
  BY <1>0, <1>3

\* One more change: it is the last one, and applies to what the log showed.
LEMMA OneMoreChange ==
  ASSUME NEW S, NEW log \in Seq(S), NEW c \in S
  PROVE  /\ log \o <<c>> \in Seq(S)
         /\ Len(log \o <<c>>) = Len(log) + 1
         /\ DOMAIN (log \o <<c>>) = DOMAIN log \cup {Len(log) + 1}
         /\ \A n \in DOMAIN log : n \in Nat \ {0} /\ n <= Len(log) /\ (log \o <<c>>)[n] = log[n]
         /\ (log \o <<c>>)[Len(log) + 1] = c
         /\ \A n \in 0 .. Len(log) : View(log \o <<c>>)[n] = View(log)[n]
         /\ Contents(log \o <<c>>) = ApplyChange(Contents(log), c)
<1>1. <<c>> \in Seq(S) /\ Len(<<c>>) = 1 /\ <<c>>[1] = c
  OBVIOUS
<1>2. Len(log) \in Nat /\ DOMAIN log = 1 .. Len(log)
  BY LenProperties
<1>3. /\ log \o <<c>> \in Seq(S) /\ Len(log \o <<c>>) = Len(log) + 1
      /\ DOMAIN (log \o <<c>>) = 1 .. Len(log) + 1
      /\ \A n \in 1 .. Len(log) : (log \o <<c>>)[n] = log[n]
      /\ (log \o <<c>>)[Len(log) + 1] = c
  BY <1>1, <1>2, ConcatProperties, LenProperties
<1>4. \A n \in 0 .. Len(log) : View(log \o <<c>>)[n] = View(log)[n]
  BY <1>1, ViewOfLongerLog
<1>5. Contents(log \o <<c>>) = ApplyChange(Contents(log), c)
  <2>. DEFINE longer == log \o <<c>>
  <2>a. Len(longer) \in Nat
    BY <1>2, <1>3
  <2>b. \A n \in 1 .. Len(longer) : View(longer)[n] = ApplyChange(View(longer)[n - 1], longer[n])
    <3>. HIDE DEF longer
    <3>. QED
      BY <2>a, ViewSteps
  <2>1. Len(log) + 1 \in 1 .. Len(log \o <<c>>) /\ (Len(log) + 1) - 1 = Len(log)
    BY <1>2, <1>3
  <2>2. View(log \o <<c>>)[Len(log) + 1] = ApplyChange(View(log \o <<c>>)[Len(log)], c)
    BY <1>2, <1>3, <2>1, <2>b
  <2>. QED
    BY <1>2, <1>3, <1>4, <2>2 DEF Contents
<1>. QED
  BY <1>2, <1>3, <1>4, <1>5
=============================================================================
