---------------------------- MODULE PlanningProofs ----------------------------
(***************************************************************************)
(* Theorems about PlanningBoard and PlanningWidget, for any rooms, dates   *)
(* and reservations.                                                       *)
(*                                                                         *)
(* A row is described by the set of the atoms in it (IsRowOf).  A loop     *)
(* over the atoms of a reservation adds them to this set or takes them     *)
(* out of it, one at a time, so that after addReservation and              *)
(* removeReservation the rows again belong to the reservations.  The       *)
(* ghosts of the tools are drawn and moved where the rows are free.        *)
(*                                                                         *)
(* What the widget has yet to be told is a path from what the board shows  *)
(* to what is stored (Leads): every change of it can be taken by the       *)
(* board, and while the storage books nothing twice no place on the way    *)
(* is booked twice.                                                        *)
(***************************************************************************)
EXTENDS PlanningWidget, BackendOperationsProofs

-----------------------------------------------------------------------------
(* std::sort *)

\* Sorting a row puts its atoms into other places, each into one, in the order of the dates at
\* which they begin.
LEMMA SortedRow ==
  ASSUME NEW S, NEW row \in Seq(S), \A i \in 1 .. Len(row) : row[i].from \in Int
  PROVE  \E p \in Bijection(1 .. Len(row), 1 .. Len(row)) :
           /\ Sorted(row) = [i \in 1 .. Len(row) |-> row[p[i]]]
           /\ \A i, j \in 1 .. Len(row) : i < j => row[p[i]].from <= row[p[j]].from
<1>. DEFINE D == 1 .. Len(row)
            Precedes(m, n) == row[m].from < row[n].from \/ (row[m].from = row[n].from /\ m < n)
            Before(n) == {m \in D : Precedes(m, n)}
            place == [n \in D |-> 1 + Cardinality(Before(n))]
            p == [i \in D |-> CHOOSE n \in D : place[n] = i]
<1>1. /\ Len(row) \in Nat /\ DOMAIN row = D
      /\ IsFiniteSet(D) /\ Cardinality(D) = Len(row)
  <2>1. Len(row) \in Nat /\ DOMAIN row = D
    BY LenProperties
  <2>2. IsFiniteSet(D) /\ Cardinality(D) = Len(row)
    BY <2>1, FS_Interval, SMTT(20)
  <2>. QED
    BY <2>1, <2>2
<1>2. ASSUME NEW n \in D PROVE IsFiniteSet(Before(n)) /\ Cardinality(Before(n)) \in 0 .. Len(row) - 1
  <2>1. Before(n) \subseteq D \ {n}
    OBVIOUS
  <2>2. IsFiniteSet(D \ {n}) /\ Cardinality(D \ {n}) = Len(row) - 1
    <3>. HIDE DEF D
    <3>. QED
      BY <1>1, <1>2, FS_RemoveElement
  <2>3. IsFiniteSet(Before(n)) /\ Cardinality(Before(n)) <= Len(row) - 1
    BY <2>1, <2>2, FS_Subset
  <2>. HIDE DEF Before
  <2>. QED
    BY <1>1, <2>3, FS_CardinalityType
<1>3. place \in [D -> D]
  <2>. HIDE DEF Before
  <2>. QED
    BY <1>1, <1>2
<1>4. ASSUME NEW m \in D, NEW n \in D, Precedes(m, n) PROVE place[m] < place[n]
  <2>1. Before(m) \subseteq Before(n) /\ m \in Before(n) /\ m \notin Before(m)
    BY <1>4
  <2>2. Cardinality(Before(m)) < Cardinality(Before(n))
    <3>. HIDE DEF Before
    <3>1. Cardinality(Before(m)) <= Cardinality(Before(n)) /\ Cardinality(Before(m)) # Cardinality(Before(n))
      BY <1>2, <2>1, FS_Subset
    <3>. QED
      BY <1>2, <3>1
  <2>. HIDE DEF Before
  <2>. QED
    BY <1>2, <2>2
<1>5. ASSUME NEW m \in D, NEW n \in D, m # n PROVE Precedes(m, n) \/ Precedes(n, m)
  BY <1>5
<1>6. place \in Surjection(D, D)
  <2>1. place \in Injection(D, D)
    <3>. HIDE DEF Precedes, place
    <3>. QED
      BY <1>3, <1>4, <1>5 DEF Injection, IsInjective
  <2>. QED
    BY <1>1, <2>1, FS_Injection
<1>7. ASSUME NEW i \in D PROVE p[i] \in D /\ place[p[i]] = i
  BY <1>6 DEF Surjection
<1>8. p \in Bijection(D, D)
  <2>1. p \in [D -> D] /\ \A i, j \in D : p[i] = p[j] => i = j
    BY <1>7
  <2>2. ASSUME NEW n \in D PROVE \E i \in D : p[i] = n
    <3>1. place[n] \in D /\ place[p[place[n]]] = place[n] /\ p[place[n]] \in D
      BY <1>3, <1>7
    <3>2. p[place[n]] = n
      <4>. HIDE DEF Precedes, place, p
      <4>. QED
        BY <1>3, <1>4, <1>5, <3>1
    <3>. QED
      BY <3>1, <3>2
  <2>. HIDE DEF p
  <2>. QED
    BY <2>1, <2>2 DEF Bijection, Injection, Surjection, IsInjective
<1>9. Sorted(row) = [i \in D |-> row[p[i]]]
  BY <1>1 DEF Sorted
<1>10. ASSUME NEW i \in D, NEW j \in D, i < j PROVE row[p[i]].from <= row[p[j]].from
  <2>1. ~Precedes(p[j], p[i])
    <3>. HIDE DEF Precedes, place, p
    <3>. QED
      BY <1>3, <1>4, <1>7, <1>10
  <2>2. row[p[i]].from \in Int /\ row[p[j]].from \in Int
    <3>. HIDE DEF p
    <3>. QED
      BY <1>7
  <2>. HIDE DEF p
  <2>. QED
    BY <2>1, <2>2
<1>. HIDE DEF p
<1>. QED
  BY <1>8, <1>9, <1>10

-----------------------------------------------------------------------------
(* A row and the atoms in it *)

\* The atoms of a set, side by side in the order of their dates.
IsRowOf(row, atoms) ==
  /\ row \in Seq(RowAtom)
  /\ ToSet(row) = atoms
  /\ \A i \in DOMAIN row : row[i].from < row[i].to
  /\ \A i, j \in DOMAIN row : i < j => row[i].to <= row[j].from

\* Of two places in a row one comes after the end of the other; no atom has two.
LEMMA RowPlaces ==
  ASSUME NEW row, NEW atoms, IsRowOf(row, atoms)
  PROVE  /\ Len(row) \in Nat /\ DOMAIN row = 1 .. Len(row)
         /\ \A i \in DOMAIN row : row[i] \in RowAtom /\ row[i].from \in Int /\ row[i].to \in Int
         /\ \A i, j \in DOMAIN row : i # j => row[i].to <= row[j].from \/ row[j].to <= row[i].from
         /\ \A i, j \in DOMAIN row : row[i] = row[j] => i = j
<1>1. Len(row) \in Nat /\ DOMAIN row = 1 .. Len(row)
  BY LenProperties DEF IsRowOf
<1>2. ASSUME NEW i \in DOMAIN row PROVE row[i] \in RowAtom /\ row[i].from \in Int /\ row[i].to \in Int
  <2>1. row[i] \in RowAtom
    BY <1>1, <1>2, ElementOfSeq DEF IsRowOf
  <2>. QED
    BY <2>1, DatesAssumption DEF RowAtom
<1>3. ASSUME NEW i \in DOMAIN row, NEW j \in DOMAIN row, i # j
      PROVE  row[i].to <= row[j].from \/ row[j].to <= row[i].from
  BY <1>1, <1>3 DEF IsRowOf
<1>4. ASSUME NEW i \in DOMAIN row, NEW j \in DOMAIN row, row[i] = row[j] PROVE i = j
  <2>. SUFFICES ASSUME i # j PROVE FALSE
    OBVIOUS
  <2>1. row[i].to <= row[i].from /\ row[i].from < row[i].to
    BY <1>3, <1>4 DEF IsRowOf
  <2>. QED
    BY <1>2, <2>1
<1>. QED
  BY <1>1, <1>2, <1>3, <1>4

\* insertAtom: an atom that meets none of the row's is in the row then.
LEMMA AtomInserted ==
  ASSUME NEW row, NEW atoms, IsRowOf(row, atoms),
         NEW atom \in RowAtom, atom.from < atom.to, \A a \in atoms : ~Intersects(a, atom)
  PROVE  IsRowOf(InsertedAtom(row, atom), atoms \cup {atom})
<1>. DEFINE longer == Append(row, atom)
            D == 1 .. Len(row) + 1
<1>1. /\ Len(row) \in Nat /\ DOMAIN row = 1 .. Len(row) /\ row \in Seq(RowAtom)
      /\ \A i \in DOMAIN row : row[i] \in RowAtom
  BY RowPlaces DEF IsRowOf
<1>2. /\ longer \in Seq(RowAtom) /\ Len(longer) = Len(row) + 1 /\ DOMAIN longer = D
      /\ \A i \in 1 .. Len(row) : longer[i] = row[i]
      /\ longer[Len(row) + 1] = atom
  BY <1>1, AppendProperties, LenProperties
<1>3. ASSUME NEW i \in D
      PROVE  longer[i] \in RowAtom /\ longer[i].from \in Int /\ longer[i].to \in Int /\ longer[i].from < longer[i].to
  <2>1. longer[i] \in RowAtom
    BY <1>2, ElementOfSeq
  <2>2. longer[i].from < longer[i].to
    BY <1>1, <1>2 DEF IsRowOf
  <2>. QED
    BY <2>1, <2>2, DatesAssumption DEF RowAtom
<1>4. ASSUME NEW i \in D, NEW j \in D, i # j, longer[i].from <= longer[j].from
      PROVE  longer[i].to <= longer[j].from
  <2>1. CASE i # Len(row) + 1 /\ j # Len(row) + 1
    <3>1. row[i].to <= row[j].from \/ row[j].to <= row[i].from
      BY <1>1, <1>4, <2>1, RowPlaces
    <3>. QED
      BY <1>1, <1>2, <1>3, <1>4, <2>1, <3>1
  <2>2. CASE i = Len(row) + 1 \/ j = Len(row) + 1
    <3>1. ASSUME NEW k \in 1 .. Len(row)
          PROVE  longer[k].to <= atom.from \/ atom.to <= longer[k].from
      <4>1. ~Intersects(row[k], atom)
        BY <1>1 DEF IsRowOf, ToSet
      <4>2. longer[k] = row[k] /\ longer[Len(row) + 1] = atom /\ k \in D /\ Len(row) + 1 \in D
        BY <1>1, <1>2
      <4>. QED
        BY <1>3, <4>1, <4>2 DEF Intersects, HasDate
    <3>2. longer[i].from < longer[i].to /\ longer[j].from < longer[j].to
      BY <1>3
    <3>3. CASE i = Len(row) + 1
      <4>1. j \in 1 .. Len(row) /\ longer[i] = atom
        BY <1>1, <1>2, <1>4, <3>3
      <4>. QED
        BY <1>3, <1>4, <3>1, <3>2, <4>1
    <3>4. CASE j = Len(row) + 1
      <4>1. i \in 1 .. Len(row) /\ longer[j] = atom
        BY <1>1, <1>2, <1>4, <3>4
      <4>. QED
        BY <1>3, <1>4, <3>1, <3>2, <4>1
    <3>. QED
      BY <2>2, <3>3, <3>4
  <2>. QED
    BY <2>1, <2>2
<1>5. PICK p \in Bijection(D, D) :
        /\ Sorted(longer) = [i \in D |-> longer[p[i]]]
        /\ \A i, j \in D : i < j => longer[p[i]].from <= longer[p[j]].from
  <2>. HIDE DEF longer
  <2>. QED
    BY <1>2, <1>3, SortedRow
<1>. DEFINE new == InsertedAtom(row, atom)
<1>6. /\ p \in [D -> D] /\ \A n \in D : \E i \in D : p[i] = n
      /\ \A i, j \in D : i # j => p[i] # p[j]
  BY <1>5 DEF Bijection, Injection, Surjection, IsInjective
<1>7. new = [i \in D |-> longer[p[i]]]
  BY <1>5 DEF InsertedAtom
<1>. HIDE DEF longer, new
<1>8. new \in Seq(RowAtom) /\ DOMAIN new = D
  <2>1. \A i \in D : longer[p[i]] \in RowAtom
    BY <1>3, <1>6
  <2>. QED
    BY <1>1, <1>7, <2>1
<1>9. ToSet(new) = atoms \cup {atom}
  <2>1. ToSet(new) = {longer[n] : n \in D}
    <3>1. ToSet(new) = {longer[p[i]] : i \in D}
      BY <1>7, <1>8 DEF ToSet
    <3>. HIDE DEF D
    <3>. QED
      BY <1>6, <3>1
  <2>2. {longer[n] : n \in D} = {row[n] : n \in 1 .. Len(row)} \cup {atom}
    <3>1. D = 1 .. Len(row) \cup {Len(row) + 1}
      BY <1>1
    <3>. HIDE DEF D
    <3>. QED
      BY <1>2, <3>1
  <2>. QED
    BY <1>1, <2>1, <2>2 DEF IsRowOf, ToSet
<1>10. \A i \in D : new[i].from < new[i].to
  BY <1>3, <1>6, <1>7
<1>11. \A i, j \in D : i < j => new[i].to <= new[j].from
  <2>. SUFFICES ASSUME NEW i \in D, NEW j \in D, i < j PROVE new[i].to <= new[j].from
    OBVIOUS
  <2>0. i # j
    BY <1>1
  <2>1. p[i] \in D /\ p[j] \in D /\ p[i] # p[j] /\ longer[p[i]].from <= longer[p[j]].from
    <3>. HIDE DEF D
    <3>. QED
      BY <1>5, <1>6, <2>0
  <2>2. longer[p[i]].to <= longer[p[j]].from
    BY <1>4, <2>1
  <2>. QED
    BY <1>7, <2>2
<1>. QED
  BY <1>8, <1>9, <1>10, <1>11 DEF IsRowOf, new

\* A sequence without its k-th element.
LEMMA RemovedAt ==
  ASSUME NEW S, NEW seq \in Seq(S), NEW k \in 1 .. Len(seq)
  PROVE  /\ RemoveAt(seq, k) \in Seq(S)
         /\ Len(seq) \in Nat /\ Len(RemoveAt(seq, k)) = Len(seq) - 1
         /\ DOMAIN RemoveAt(seq, k) = 1 .. Len(seq) - 1
         /\ \A i \in 1 .. Len(seq) - 1 : RemoveAt(seq, k)[i] = seq[IF i < k THEN i ELSE i + 1]
<1>. DEFINE front == SubSeq(seq, 1, k - 1)
            back == SubSeq(seq, k + 1, Len(seq))
<1>1. Len(seq) \in Nat /\ \A i \in 1 .. Len(seq) : seq[i] \in S
  BY LenProperties, ElementOfSeq
<1>2. /\ front \in Seq(S) /\ Len(front) = k - 1
      /\ \A i \in 1 .. k - 1 : front[i] = seq[i]
  BY <1>1, SubSeqProperties
<1>3. /\ back \in Seq(S) /\ Len(back) = Len(seq) - k
      /\ \A i \in 1 .. Len(seq) - k : back[i] = seq[k + i]
  BY <1>1, SubSeqProperties
<1>4. RemoveAt(seq, k) = front \o back
  BY DEF RemoveAt
<1>. HIDE DEF front, back
<1>5. /\ front \o back \in Seq(S) /\ Len(front \o back) = Len(seq) - 1
      /\ \A i \in 1 .. Len(seq) - 1 : (front \o back)[i] = IF i < k THEN front[i] ELSE back[i - k + 1]
  <2>1. /\ front \o back \in Seq(S) /\ Len(front \o back) = Len(front) + Len(back)
        /\ \A i \in 1 .. Len(front) + Len(back) :
             (front \o back)[i] = IF i <= Len(front) THEN front[i] ELSE back[i - Len(front)]
    BY <1>2, <1>3, ConcatProperties
  <2>2. Len(front) = k - 1 /\ Len(front) + Len(back) = Len(seq) - 1
    BY <1>1, <1>2, <1>3
  <2>3. ASSUME NEW i \in 1 .. Len(seq) - 1
        PROVE  (front \o back)[i] = IF i < k THEN front[i] ELSE back[i - k + 1]
    <3>1. (i <= k - 1 <=> i < k) /\ i - (k - 1) = i - k + 1
      BY <1>1
    <3>. QED
      BY <2>1, <2>2, <3>1
  <2>. QED
    BY <2>1, <2>2, <2>3
<1>6. ASSUME NEW i \in 1 .. Len(seq) - 1
      PROVE  (front \o back)[i] = seq[IF i < k THEN i ELSE i + 1]
  <2>1. CASE i < k
    BY <1>1, <1>2, <1>5, <2>1
  <2>2. CASE ~(i < k)
    <3>1. i - k + 1 \in 1 .. Len(seq) - k /\ k + (i - k + 1) = i + 1
      BY <1>1, <2>2
    <3>. QED
      BY <1>1, <1>3, <1>5, <2>2, <3>1
  <2>. QED
    BY <2>1, <2>2
<1>. QED
  BY <1>1, <1>4, <1>5, <1>6, LenProperties

\* Erasing a pointer takes its atom out of the row and leaves the others as they are.
LEMMA AtomErased ==
  ASSUME NEW row, NEW atoms, IsRowOf(row, atoms), NEW address, NEW n,
         \A a, b \in atoms : a.address = b.address /\ a.index = b.index => a = b
  PROVE  IsRowOf(ErasedAtom(row, address, n), {a \in atoms : a.address # address \/ a.index # n})
<1>. DEFINE found == {i \in DOMAIN row : row[i].address = address /\ row[i].index = n}
            rest == {a \in atoms : a.address # address \/ a.index # n}
<1>1. /\ Len(row) \in Nat /\ DOMAIN row = 1 .. Len(row) /\ row \in Seq(RowAtom)
      /\ \A i \in DOMAIN row : row[i] \in atoms
  BY RowPlaces DEF IsRowOf, ToSet
<1>2. CASE found = {}
  <2>1. ErasedAtom(row, address, n) = row
    BY <1>2 DEF ErasedAtom
  <2>2. rest = atoms
    BY <1>2 DEF IsRowOf, ToSet
  <2>. QED
    BY <2>1, <2>2
<1>3. CASE found # {}
  <2>1. PICK k \in found : TRUE
    BY <1>3
  <2>2. k \in 1 .. Len(row) /\ row[k].address = address /\ row[k].index = n
    BY <1>1, <2>1
  <2>3. ASSUME NEW i \in DOMAIN row, row[i].address = address, row[i].index = n PROVE i = k
    BY <1>1, <2>2, <2>3, RowPlaces
  <2>4. found = {k} /\ Min(found) = k
    BY <1>1, <2>1, <2>3 DEF Min
  <2>. DEFINE new == RemoveAt(row, k)
  <2>5. ErasedAtom(row, address, n) = new
    BY <1>3, <2>4 DEF ErasedAtom
  <2>6. /\ new \in Seq(RowAtom) /\ DOMAIN new = 1 .. Len(row) - 1
        /\ \A i \in 1 .. Len(row) - 1 : new[i] = row[IF i < k THEN i ELSE i + 1]
    BY <1>1, <2>2, RemovedAt
  <2>. HIDE DEF new
  <2>7. ToSet(new) = rest
    <3>1. ASSUME NEW i \in 1 .. Len(row) - 1 PROVE new[i] \in rest
      <4>. DEFINE j == IF i < k THEN i ELSE i + 1
      <4>1. j \in DOMAIN row /\ j # k /\ new[i] = row[j]
        BY <1>1, <2>2, <2>6
      <4>. QED
        BY <1>1, <2>3, <4>1
    <3>2. ASSUME NEW a \in rest PROVE \E i \in DOMAIN new : new[i] = a
      <4>1. PICK j \in DOMAIN row : row[j] = a
        BY DEF IsRowOf, ToSet
      <4>2. j # k
        BY <2>2, <4>1
      <4>. DEFINE i == IF j < k THEN j ELSE j - 1
      <4>3. i \in 1 .. Len(row) - 1 /\ (IF i < k THEN i ELSE i + 1) = j
        BY <1>1, <2>2, <4>2
      <4>. QED
        BY <2>6, <4>1, <4>3
    <3>. QED
      BY <2>6, <3>1, <3>2 DEF ToSet
  <2>8. \A i \in DOMAIN new : new[i].from < new[i].to
    <3>. SUFFICES ASSUME NEW i \in DOMAIN new PROVE new[i].from < new[i].to
      OBVIOUS
    <3>. DEFINE p == IF i < k THEN i ELSE i + 1
    <3>1. p \in DOMAIN row /\ new[i] = row[p]
      BY <1>1, <2>2, <2>6
    <3>. QED
      BY <3>1 DEF IsRowOf
  <2>9. \A i, j \in DOMAIN new : i < j => new[i].to <= new[j].from
    <3>. SUFFICES ASSUME NEW i \in DOMAIN new, NEW j \in DOMAIN new, i < j PROVE new[i].to <= new[j].from
      OBVIOUS
    <3>. DEFINE p == IF i < k THEN i ELSE i + 1
                q == IF j < k THEN j ELSE j + 1
    <3>1. p \in DOMAIN row /\ q \in DOMAIN row /\ p < q /\ new[i] = row[p] /\ new[j] = row[q]
      BY <1>1, <2>2, <2>6
    <3>. QED
      BY <3>1 DEF IsRowOf
  <2>. QED
    BY <2>5, <2>6, <2>7, <2>8, <2>9 DEF IsRowOf
<1>. QED
  BY <1>2, <1>3

-----------------------------------------------------------------------------
(* The loops over the atoms of a reservation *)

\* insertAtom and the erasure keep a row a sequence of pointers.
LEMMA RowTypes ==
  ASSUME NEW row \in Seq(RowAtom)
  PROVE  /\ \A atom \in RowAtom : InsertedAtom(row, atom) \in Seq(RowAtom)
         /\ \A address, n : ErasedAtom(row, address, n) \in Seq(RowAtom)
<1>1. ASSUME NEW atom \in RowAtom PROVE InsertedAtom(row, atom) \in Seq(RowAtom)
  <2>. DEFINE longer == Append(row, atom)
              D == 1 .. Len(longer)
  <2>1. longer \in Seq(RowAtom) /\ Len(longer) \in Nat /\ \A i \in D : longer[i] \in RowAtom
    BY AppendProperties, LenProperties, ElementOfSeq
  <2>. HIDE DEF longer
  <2>2. \A i \in D : longer[i].from \in Int
    BY <2>1, DatesAssumption DEF RowAtom
  <2>3. PICK p \in Bijection(D, D) : Sorted(longer) = [i \in D |-> longer[p[i]]]
    BY <2>1, <2>2, SortedRow
  <2>4. \A i \in D : p[i] \in D
    BY <2>3 DEF Bijection, Injection
  <2>5. \A i \in D : longer[p[i]] \in RowAtom
    BY <2>1, <2>4
  <2>6. [i \in D |-> longer[p[i]]] \in Seq(RowAtom)
    BY <2>1, <2>5
  <2>. QED
    BY <2>3, <2>6 DEF InsertedAtom, longer
<1>2. ASSUME NEW address, NEW n PROVE ErasedAtom(row, address, n) \in Seq(RowAtom)
  <2>. DEFINE found == {i \in DOMAIN row : row[i].address = address /\ row[i].index = n}
  <2>1. CASE found = {}
    BY <2>1 DEF ErasedAtom
  <2>2. CASE found # {}
    <3>1. found \in SUBSET Nat /\ DOMAIN row = 1 .. Len(row)
      BY LenProperties
    <3>2. \E m \in found : \A k \in found : m <= k
      <4>. HIDE DEF found
      <4>. QED
        BY <2>2, <3>1, LeastNumber
    <3>3. Min(found) \in found
      <4>. HIDE DEF found
      <4>. QED
        BY <3>2 DEF Min
    <3>4. RemoveAt(row, Min(found)) \in Seq(RowAtom)
      BY <3>1, <3>3, RemovedAt
    <3>. QED
      BY <2>2, <3>4 DEF ErasedAtom
  <2>. QED
    BY <2>1, <2>2
<1>. QED
  BY <1>1, <1>2

\* A pointer to an atom of a reservation
LEMMA PointerType ==
  ASSUME NEW address \in Addresses, NEW atoms \in Seq(Atom), NEW n \in 1 .. Len(atoms)
  PROVE  /\ PointerTo(address, atoms, n) \in RowAtom
         /\ atoms[n] \in Atom /\ atoms[n].from \in Int /\ atoms[n].to \in Int
<1>1. atoms[n] \in Atom /\ n \in Nat \ {0}
  BY ElementOfSeq
<1>. QED
  BY <1>1, DatesAssumption DEF PointerTo, RowAtom, Atom

\* The rows of the loop, from the first one on.
Adding(f, row, room, address, atoms) ==
  /\ f \in [0 .. Len(atoms) -> Seq(RowAtom)]
  /\ f[0] = row
  /\ \A n \in 1 .. Len(atoms) :
       f[n] = IF atoms[n].room = room THEN InsertedAtom(f[n - 1], PointerTo(address, atoms, n)) ELSE f[n - 1]
  /\ WithAtoms(row, room, address, atoms) = f[Len(atoms)]

\* The recursive definition of WithAtoms goes through the atoms of the reservation one by one.
LEMMA WithAtomsDefined ==
  ASSUME NEW row \in Seq(RowAtom), NEW room, NEW address \in Addresses, NEW atoms \in Seq(Atom)
  PROVE  \E f : Adding(f, row, room, address, atoms)
<1>. DEFINE D == Seq(RowAtom)
            After(n, r) == IF atoms[n].room = room THEN InsertedAtom(r, PointerTo(address, atoms, n)) ELSE r
            step == [n \in 1 .. Len(atoms) |-> [r \in D |-> After(n, r)]]
            Loop(f) == f = [n \in 0 .. Len(atoms) |-> IF n = 0 THEN row ELSE After(n, f[n - 1])]
<1>1. Len(atoms) \in Nat
  BY LenProperties
<1>2. step \in [1 .. Len(atoms) -> [D -> D]]
  <2>1. ASSUME NEW n \in 1 .. Len(atoms), NEW r \in D PROVE After(n, r) \in D
    <3>1. PointerTo(address, atoms, n) \in RowAtom
      BY PointerType
    <3>. QED
      BY <3>1, RowTypes
  <2>. HIDE DEF D, After
  <2>. QED
    BY <2>1
<1>3. PICK f : Stepwise(f, D, Len(atoms), row, step)
  <2>1. row \in D
    OBVIOUS
  <2>. HIDE DEF D, step
  <2>. QED
    BY <1>1, <1>2, <2>1, StepwiseFunction
<1>4. ASSUME NEW n \in 1 .. Len(atoms) PROVE f[n] = After(n, f[n - 1])
  <2>1. f[n - 1] \in D /\ f[n] = step[n][f[n - 1]]
    <3>. HIDE DEF D, step
    <3>. QED
      BY <1>1, <1>3 DEF Stepwise
  <2>. HIDE DEF D, After
  <2>. QED
    BY <2>1
<1>5. Loop(f)
  <2>. HIDE DEF After, D, step
  <2>1. f = [n \in 0 .. Len(atoms) |-> f[n]] /\ f[0] = row
    BY <1>3 DEF Stepwise
  <2>2. ASSUME NEW n \in 0 .. Len(atoms) PROVE f[n] = IF n = 0 THEN row ELSE After(n, f[n - 1])
    <3>1. n # 0 => n \in 1 .. Len(atoms)
      BY <1>1
    <3>. QED
      BY <1>4, <2>1, <3>1
  <2>. QED
    BY <2>1, <2>2
<1>. DEFINE g == CHOOSE h : Loop(h)
<1>6. WithAtoms(row, room, address, atoms) = g[Len(atoms)]
  BY DEF WithAtoms
<1>7. Loop(g)
  <2>. HIDE DEF Loop
  <2>. QED
    BY <1>5
<1>8. /\ \A n \in 0 .. Len(atoms) : g[n] = IF n = 0 THEN row ELSE After(n, g[n - 1])
      /\ g = [n \in 0 .. Len(atoms) |-> g[n]]
  <2>. HIDE DEF After, g
  <2>. QED
    BY <1>7
<1>9. \A n \in Nat : n <= Len(atoms) => g[n] \in D
  <2>. DEFINE N == {n \in Nat : n <= Len(atoms) => g[n] \in D}
  <2>. HIDE DEF After, g, D
  <2>1. 0 \in N
    BY <1>1, <1>8 DEF D
  <2>2. ASSUME NEW n \in Nat, n \in N PROVE n + 1 \in N
    <3>. SUFFICES ASSUME n + 1 <= Len(atoms) PROVE g[n + 1] \in D
      OBVIOUS
    <3>1. g[n] \in D /\ n + 1 \in 1 .. Len(atoms) /\ n + 1 # 0 /\ (n + 1) - 1 = n
      BY <1>1, <2>2
    <3>0. n + 1 \in 0 .. Len(atoms)
      BY <1>1
    <3>2. g[n + 1] = After(n + 1, g[n])
      BY <1>8, <3>0, <3>1
    <3>3. step[n + 1][g[n]] = After(n + 1, g[n]) /\ step[n + 1][g[n]] \in D
      BY <1>2, <3>1
    <3>. QED
      BY <3>2, <3>3
  <2>. HIDE DEF N
  <2>3. \A n \in Nat : n \in N
    BY <2>1, <2>2, SetInduction
  <2>. QED
    BY <2>3 DEF N
<1>10. g \in [0 .. Len(atoms) -> D]
  <2>. HIDE DEF g, D
  <2>. QED
    BY <1>1, <1>8, <1>9
<1>11. /\ g[0] = row
       /\ \A n \in 1 .. Len(atoms) : g[n] = After(n, g[n - 1])
  <2>. HIDE DEF g, After
  <2>. QED
    BY <1>1, <1>8
<1>. HIDE DEF g
<1>. QED
  BY <1>6, <1>10, <1>11 DEF Adding

\* The rows of the loop, from the first one on.
Erasing(f, row, room, address, atoms) ==
  /\ f \in [0 .. Len(atoms) -> Seq(RowAtom)]
  /\ f[0] = row
  /\ \A n \in 1 .. Len(atoms) :
       f[n] = IF atoms[n].room = room THEN ErasedAtom(f[n - 1], address, n) ELSE f[n - 1]
  /\ WithoutAtoms(row, room, address, atoms) = f[Len(atoms)]

\* The recursive definition of WithoutAtoms goes through the atoms of the reservation one by one.
LEMMA WithoutAtomsDefined ==
  ASSUME NEW row \in Seq(RowAtom), NEW room, NEW address \in Addresses, NEW atoms \in Seq(Atom)
  PROVE  \E f : Erasing(f, row, room, address, atoms)
<1>. DEFINE D == Seq(RowAtom)
            After(n, r) == IF atoms[n].room = room THEN ErasedAtom(r, address, n) ELSE r
            step == [n \in 1 .. Len(atoms) |-> [r \in D |-> After(n, r)]]
            Loop(f) == f = [n \in 0 .. Len(atoms) |-> IF n = 0 THEN row ELSE After(n, f[n - 1])]
<1>1. Len(atoms) \in Nat
  BY LenProperties
<1>2. step \in [1 .. Len(atoms) -> [D -> D]]
  <2>1. ASSUME NEW n \in 1 .. Len(atoms), NEW r \in D PROVE After(n, r) \in D
    BY RowTypes
  <2>. HIDE DEF D, After
  <2>. QED
    BY <2>1
<1>3. PICK f : Stepwise(f, D, Len(atoms), row, step)
  <2>1. row \in D
    OBVIOUS
  <2>. HIDE DEF D, step
  <2>. QED
    BY <1>1, <1>2, <2>1, StepwiseFunction
<1>4. ASSUME NEW n \in 1 .. Len(atoms) PROVE f[n] = After(n, f[n - 1])
  <2>1. f[n - 1] \in D /\ f[n] = step[n][f[n - 1]]
    <3>. HIDE DEF D, step
    <3>. QED
      BY <1>1, <1>3 DEF Stepwise
  <2>. HIDE DEF D, After
  <2>. QED
    BY <2>1
<1>5. Loop(f)
  <2>. HIDE DEF After, D, step
  <2>1. f = [n \in 0 .. Len(atoms) |-> f[n]] /\ f[0] = row
    BY <1>3 DEF Stepwise
  <2>2. ASSUME NEW n \in 0 .. Len(atoms) PROVE f[n] = IF n = 0 THEN row ELSE After(n, f[n - 1])
    <3>1. n # 0 => n \in 1 .. Len(atoms)
      BY <1>1
    <3>. QED
      BY <1>4, <2>1, <3>1
  <2>. QED
    BY <2>1, <2>2
<1>. DEFINE g == CHOOSE h : Loop(h)
<1>6. WithoutAtoms(row, room, address, atoms) = g[Len(atoms)]
  BY DEF WithoutAtoms
<1>7. Loop(g)
  <2>. HIDE DEF Loop
  <2>. QED
    BY <1>5
<1>8. /\ \A n \in 0 .. Len(atoms) : g[n] = IF n = 0 THEN row ELSE After(n, g[n - 1])
      /\ g = [n \in 0 .. Len(atoms) |-> g[n]]
  <2>. HIDE DEF After, g
  <2>. QED
    BY <1>7
<1>9. \A n \in Nat : n <= Len(atoms) => g[n] \in D
  <2>. DEFINE N == {n \in Nat : n <= Len(atoms) => g[n] \in D}
  <2>. HIDE DEF After, g, D
  <2>1. 0 \in N
    BY <1>1, <1>8 DEF D
  <2>2. ASSUME NEW n \in Nat, n \in N PROVE n + 1 \in N
    <3>. SUFFICES ASSUME n + 1 <= Len(atoms) PROVE g[n + 1] \in D
      OBVIOUS
    <3>1. g[n] \in D /\ n + 1 \in 1 .. Len(atoms) /\ n + 1 # 0 /\ (n + 1) - 1 = n
      BY <1>1, <2>2
    <3>0. n + 1 \in 0 .. Len(atoms)
      BY <1>1
    <3>2. g[n + 1] = After(n + 1, g[n])
      BY <1>8, <3>0, <3>1
    <3>3. step[n + 1][g[n]] = After(n + 1, g[n]) /\ step[n + 1][g[n]] \in D
      BY <1>2, <3>1
    <3>. QED
      BY <3>2, <3>3
  <2>. HIDE DEF N
  <2>3. \A n \in Nat : n \in N
    BY <2>1, <2>2, SetInduction
  <2>. QED
    BY <2>3 DEF N
<1>10. g \in [0 .. Len(atoms) -> D]
  <2>. HIDE DEF g, D
  <2>. QED
    BY <1>1, <1>8, <1>9
<1>11. /\ g[0] = row
       /\ \A n \in 1 .. Len(atoms) : g[n] = After(n, g[n - 1])
  <2>. HIDE DEF g, After
  <2>. QED
    BY <1>1, <1>8
<1>. HIDE DEF g
<1>. QED
  BY <1>6, <1>10, <1>11 DEF Erasing

\* The atoms of a valid reservation follow each other, and each is a night at least.
LEMMA ValidAtoms ==
  ASSUME NEW atoms \in Seq(Atom), IsValid(atoms)
  PROVE  /\ Len(atoms) \in Nat \ {0} /\ DOMAIN atoms = 1 .. Len(atoms)
         /\ \A i \in 1 .. Len(atoms) :
              atoms[i] \in Atom /\ atoms[i].from \in Int /\ atoms[i].to \in Int /\ atoms[i].from < atoms[i].to
         /\ \A i, j \in 1 .. Len(atoms) : i < j => atoms[i].to <= atoms[j].from
<1>1. Len(atoms) \in Nat \ {0} /\ DOMAIN atoms = 1 .. Len(atoms)
  BY LenProperties, EmptySeq DEF IsValid
<1>2. ASSUME NEW i \in 1 .. Len(atoms)
      PROVE  atoms[i] \in Atom /\ atoms[i].from \in Int /\ atoms[i].to \in Int /\ atoms[i].from < atoms[i].to
  <2>1. atoms[i] \in Atom
    BY ElementOfSeq
  <2>2. atoms[i].from \in Int /\ atoms[i].to \in Int
    BY <2>1, DatesAssumption DEF Atom
  <2>. QED
    BY <1>1, <2>1, <2>2 DEF IsValid, IsNull
<1>. DEFINE N == {n \in Nat : \A i, j \in 1 .. Len(atoms) : j = i + 1 + n => atoms[i].to <= atoms[j].from}
<1>3. ASSUME NEW i \in 1 .. Len(atoms), i + 1 \in 1 .. Len(atoms)
      PROVE  atoms[i].to = atoms[i + 1].from
  BY <1>1, <1>3 DEF IsValid
<1>4. 0 \in N
  <2>. SUFFICES ASSUME NEW i \in 1 .. Len(atoms), NEW j \in 1 .. Len(atoms), j = i + 1
                PROVE  atoms[i].to <= atoms[j].from
    OBVIOUS
  <2>. QED
    BY <1>2, <1>3
<1>5. ASSUME NEW n \in Nat, n \in N PROVE n + 1 \in N
  <2>. SUFFICES ASSUME NEW i \in 1 .. Len(atoms), NEW j \in 1 .. Len(atoms), j = i + 1 + (n + 1)
                PROVE  atoms[i].to <= atoms[j].from
    OBVIOUS
  <2>1. j - 1 \in 1 .. Len(atoms) /\ j - 1 = i + 1 + n /\ (j - 1) + 1 = j
    BY <1>1
  <2>2. atoms[i].to <= atoms[j - 1].from
    BY <1>5, <2>1
  <2>3. atoms[j - 1].from < atoms[j - 1].to /\ atoms[j - 1].to = atoms[j].from
    BY <1>2, <1>3, <2>1
  <2>. QED
    BY <1>2, <2>1, <2>2, <2>3
<1>6. ASSUME NEW i \in 1 .. Len(atoms), NEW j \in 1 .. Len(atoms), i < j
      PROVE  atoms[i].to <= atoms[j].from
  <2>1. \A n \in Nat : n \in N
    <3>. HIDE DEF N
    <3>. QED
      BY <1>4, <1>5, SetInduction
  <2>2. j - i - 1 \in Nat /\ j = i + 1 + (j - i - 1)
    BY <1>1, <1>6
  <2>. QED
    BY <2>1, <2>2
<1>. QED
  BY <1>1, <1>2, <1>6

\* addReservation: a room's row has its atoms of the new reservation besides those it had.
LEMMA AtomsAdded ==
  ASSUME NEW row, NEW old, IsRowOf(row, old),
         NEW room, NEW address \in Addresses, NEW atoms \in Seq(Atom), IsValid(atoms),
         \A i \in DOMAIN atoms : atoms[i].room = room => \A a \in old : ~Intersects(a, atoms[i])
  PROVE  IsRowOf(WithAtoms(row, room, address, atoms), old \cup PointersTo(room, address, atoms))
<1>. DEFINE Upto(n) == {PointerTo(address, atoms, i) : i \in {k \in 1 .. n : atoms[k].room = room}}
<1>1. /\ Len(atoms) \in Nat /\ DOMAIN atoms = 1 .. Len(atoms)
      /\ \A i \in 1 .. Len(atoms) :
           atoms[i] \in Atom /\ atoms[i].from \in Int /\ atoms[i].to \in Int /\ atoms[i].from < atoms[i].to
      /\ \A i, j \in 1 .. Len(atoms) : i < j => atoms[i].to <= atoms[j].from
  BY ValidAtoms
<1>2. PICK f : Adding(f, row, room, address, atoms)
  <2>1. row \in Seq(RowAtom)
    BY DEF IsRowOf
  <2>. QED
    BY <2>1, WithAtomsDefined
<1>. DEFINE N == {n \in Nat : n <= Len(atoms) => IsRowOf(f[n], old \cup Upto(n))}
<1>3. 0 \in N
  <2>1. Upto(0) = {}
    OBVIOUS
  <2>. HIDE DEF Upto
  <2>. QED
    BY <1>2, <2>1 DEF Adding
<1>4. ASSUME NEW n \in Nat, n \in N PROVE n + 1 \in N
  <2>. SUFFICES ASSUME n + 1 <= Len(atoms) PROVE IsRowOf(f[n + 1], old \cup Upto(n + 1))
    OBVIOUS
  <2>1. n + 1 \in 1 .. Len(atoms) /\ (n + 1) - 1 = n /\ 1 .. n + 1 = 1 .. n \cup {n + 1}
    BY <1>1
  <2>2. IsRowOf(f[n], old \cup Upto(n))
    BY <1>1, <1>4
  <2>3. CASE atoms[n + 1].room # room
    <3>1. f[n + 1] = f[n] /\ Upto(n + 1) = Upto(n)
      BY <1>2, <2>1, <2>3 DEF Adding
    <3>. QED
      BY <2>2, <3>1
  <2>4. CASE atoms[n + 1].room = room
    <3>. DEFINE new == PointerTo(address, atoms, n + 1)
    <3>1. f[n + 1] = InsertedAtom(f[n], new) /\ Upto(n + 1) = Upto(n) \cup {new}
      BY <1>2, <2>1, <2>4 DEF Adding
    <3>2. new \in RowAtom /\ new.from = atoms[n + 1].from /\ new.to = atoms[n + 1].to
      BY <2>1, PointerType DEF PointerTo
    <3>3. ASSUME NEW a \in old \cup Upto(n) PROVE ~Intersects(a, new)
      <4>1. CASE a \in old
        <5>1. ~Intersects(a, atoms[n + 1])
          BY <1>1, <2>1, <2>4, <4>1
        <5>. QED
          BY <3>2, <5>1 DEF Intersects, HasDate
      <4>2. CASE a \in Upto(n)
        <5>1. PICK i \in 1 .. n : a = PointerTo(address, atoms, i)
          BY <4>2
        <5>2. i \in 1 .. Len(atoms) /\ a.from = atoms[i].from /\ a.to = atoms[i].to /\ atoms[i].to <= atoms[n + 1].from
          BY <1>1, <2>1, <5>1 DEF PointerTo
        <5>3. atoms[i].from < atoms[i].to /\ atoms[n + 1].from < atoms[n + 1].to
          BY <1>1, <2>1, <5>2
        <5>. HIDE DEF new
        <5>. QED
          BY <1>1, <2>1, <3>2, <5>2, <5>3 DEF Intersects, HasDate
      <4>. QED
        BY <4>1, <4>2
    <3>4. new.from < new.to
      BY <1>1, <2>1, <3>2
    <3>. HIDE DEF new, Upto
    <3>5. IsRowOf(InsertedAtom(f[n], new), (old \cup Upto(n)) \cup {new})
      BY <2>2, <3>2, <3>3, <3>4, AtomInserted
    <3>. QED
      BY <3>1, <3>5
  <2>. QED
    BY <2>3, <2>4
<1>5. Len(atoms) \in N
  <2>. HIDE DEF N
  <2>. QED
    BY <1>1, <1>3, <1>4, SetInduction
<1>6. Upto(Len(atoms)) = PointersTo(room, address, atoms)
  BY <1>1 DEF PointersTo
<1>. HIDE DEF Upto
<1>. QED
  BY <1>1, <1>2, <1>5, <1>6 DEF Adding

\* removeReservation: a room's row loses its atoms of the reservation, and no other.
LEMMA AtomsErased ==
  ASSUME NEW row, NEW old, IsRowOf(row, old),
         \A a, b \in old : a.address = b.address /\ a.index = b.index => a = b,
         NEW room, NEW address \in Addresses, NEW atoms \in Seq(Atom)
  PROVE  IsRowOf(WithoutAtoms(row, room, address, atoms),
                 {a \in old : ~(a.address = address /\ a.index \in DOMAIN atoms /\ atoms[a.index].room = room)})
<1>. DEFINE Left(n) == {a \in old : ~(a.address = address /\ a.index \in 1 .. n /\ atoms[a.index].room = room)}
<1>1. Len(atoms) \in Nat /\ DOMAIN atoms = 1 .. Len(atoms)
  BY LenProperties
<1>2. PICK f : Erasing(f, row, room, address, atoms)
  <2>1. row \in Seq(RowAtom)
    BY DEF IsRowOf
  <2>. QED
    BY <2>1, WithoutAtomsDefined
<1>. DEFINE N == {n \in Nat : n <= Len(atoms) => IsRowOf(f[n], Left(n))}
<1>3. 0 \in N
  <2>0. \A i : i \notin 1 .. 0
    OBVIOUS
  <2>1. Left(0) = old
    <3>1. Left(0) \subseteq old
      OBVIOUS
    <3>2. \A a \in old : a \in Left(0)
      BY <2>0
    <3>. QED
      BY <3>1, <3>2
  <2>. HIDE DEF Left
  <2>. QED
    BY <1>2, <2>1 DEF Erasing
<1>4. ASSUME NEW n \in Nat, n \in N PROVE n + 1 \in N
  <2>. HIDE DEF Left
  <2>. SUFFICES ASSUME n + 1 <= Len(atoms) PROVE IsRowOf(f[n + 1], Left(n + 1))
    OBVIOUS
  <2>. USE DEF Left
  <2>1. n + 1 \in 1 .. Len(atoms) /\ (n + 1) - 1 = n /\ 1 .. n + 1 = 1 .. n \cup {n + 1}
    BY <1>1
  <2>2. IsRowOf(f[n], Left(n))
    BY <1>1, <1>4
  <2>3. CASE atoms[n + 1].room # room
    <3>1. f[n + 1] = f[n] /\ Left(n + 1) = Left(n)
      BY <1>2, <2>1, <2>3 DEF Erasing
    <3>. QED
      BY <2>2, <3>1
  <2>4. CASE atoms[n + 1].room = room
    <3>1. f[n + 1] = ErasedAtom(f[n], address, n + 1)
      BY <1>2, <2>1, <2>4 DEF Erasing
    <3>2. Left(n + 1) = {a \in Left(n) : a.address # address \/ a.index # n + 1}
      BY <2>1, <2>4
    <3>3. \A a, b \in Left(n) : a.address = b.address /\ a.index = b.index => a = b
      OBVIOUS
    <3>. HIDE DEF Left
    <3>. QED
      BY <2>2, <3>1, <3>2, <3>3, AtomErased
  <2>. QED
    BY <2>3, <2>4
<1>5. Len(atoms) \in N
  <2>. HIDE DEF N
  <2>. QED
    BY <1>1, <1>3, <1>4, SetInduction
<1>. QED
  BY <1>1, <1>2, <1>5 DEF Erasing

-----------------------------------------------------------------------------
(* The board *)

\* The pointers to the atoms in a room, for the reservations on a board.
PointersOf(room, board) == UNION {PointersTo(room, r.address, r.atoms) : r \in ToSet(board)}

\* The reservations on a board are valid and each at an address of its own, and the rows have
\* their atoms.
IsBoard(board, rows) ==
  /\ board \in Seq(BoardReservation)
  /\ \A i \in DOMAIN board : IsValid(board[i].atoms)
  /\ \A i, j \in DOMAIN board : board[i].address = board[j].address => i = j
  /\ rows \in [Rooms -> Seq(RowAtom)]
  /\ \A room \in Rooms : IsRowOf(rows[room], PointersOf(room, board))

\* What is on a board, by position.
LEMMA OnBoard ==
  ASSUME NEW board, NEW rows, IsBoard(board, rows)
  PROVE  /\ Len(board) \in Nat /\ DOMAIN board = 1 .. Len(board)
         /\ \A i \in DOMAIN board :
              /\ board[i] \in BoardReservation
              /\ board[i].address \in Addresses /\ board[i].atoms \in Seq(Atom) /\ IsValid(board[i].atoms)
         /\ \A room \in Rooms : \A a :
              a \in PointersOf(room, board) <=>
                \E i \in DOMAIN board : \E n \in DOMAIN board[i].atoms :
                  board[i].atoms[n].room = room /\ a = PointerTo(board[i].address, board[i].atoms, n)
<1>1. Len(board) \in Nat /\ DOMAIN board = 1 .. Len(board)
  BY LenProperties DEF IsBoard
<1>2. ASSUME NEW i \in DOMAIN board
      PROVE  /\ board[i] \in BoardReservation
             /\ board[i].address \in Addresses /\ board[i].atoms \in Seq(Atom) /\ IsValid(board[i].atoms)
  <2>1. board[i] \in BoardReservation
    BY <1>1, ElementOfSeq DEF IsBoard
  <2>. QED
    BY <2>1 DEF IsBoard, BoardReservation
<1>3. ASSUME NEW room \in Rooms, NEW a
      PROVE  a \in PointersOf(room, board) <=>
               \E i \in DOMAIN board : \E n \in DOMAIN board[i].atoms :
                 board[i].atoms[n].room = room /\ a = PointerTo(board[i].address, board[i].atoms, n)
  BY DEF PointersOf, PointersTo, ToSet
<1>. QED
  BY <1>1, <1>2, <1>3

\* addReservation, at an address which no other reservation has: the atoms of a reservation that
\* canAddReservation has found free are in the rows with those of the others.
LEMMA PutOnBoard ==
  ASSUME NEW board, NEW rows, IsBoard(board, rows),
         NEW new \in BoardReservation, IsValid(new.atoms),
         \A i \in DOMAIN board : board[i].address # new.address,
         \A n \in DOMAIN new.atoms : \A k \in DOMAIN rows[new.atoms[n].room] :
           ~Intersects(rows[new.atoms[n].room][k], new.atoms[n])
  PROVE  IsBoard(Append(board, new), [room \in Rooms |-> WithAtoms(rows[room], room, new.address, new.atoms)])
<1>. DEFINE longer == Append(board, new)
            newRows == [room \in Rooms |-> WithAtoms(rows[room], room, new.address, new.atoms)]
<1>1. Len(board) \in Nat /\ DOMAIN board = 1 .. Len(board) /\ board \in Seq(BoardReservation)
  BY OnBoard DEF IsBoard
<1>2. /\ longer \in Seq(BoardReservation) /\ DOMAIN longer = 1 .. Len(board) + 1
      /\ \A i \in 1 .. Len(board) : longer[i] = board[i]
      /\ longer[Len(board) + 1] = new
  BY <1>1, AppendProperties, LenProperties
<1>3. new.address \in Addresses /\ new.atoms \in Seq(Atom)
  BY DEF BoardReservation
<1>. HIDE DEF longer
<1>4. ToSet(longer) = ToSet(board) \cup {new}
  <2>1. 1 .. Len(board) + 1 = 1 .. Len(board) \cup {Len(board) + 1}
    BY <1>1
  <2>. QED
    BY <1>1, <1>2, <2>1 DEF ToSet
<1>5. \A i \in DOMAIN longer : IsValid(longer[i].atoms)
  BY <1>1, <1>2 DEF IsBoard
<1>6. \A i, j \in DOMAIN longer : longer[i].address = longer[j].address => i = j
  BY <1>1, <1>2 DEF IsBoard
<1>7. ASSUME NEW room \in Rooms
      PROVE  IsRowOf(WithAtoms(rows[room], room, new.address, new.atoms), PointersOf(room, longer))
  <2>1. IsRowOf(rows[room], PointersOf(room, board))
    BY DEF IsBoard
  <2>2. PointersOf(room, longer) = PointersOf(room, board) \cup PointersTo(room, new.address, new.atoms)
    BY <1>4 DEF PointersOf
  <2>3. ASSUME NEW n \in DOMAIN new.atoms, new.atoms[n].room = room, NEW a \in PointersOf(room, board)
        PROVE  ~Intersects(a, new.atoms[n])
    BY <2>1, <2>3 DEF IsRowOf, ToSet
  <2>4. IsRowOf(WithAtoms(rows[room], room, new.address, new.atoms),
                PointersOf(room, board) \cup PointersTo(room, new.address, new.atoms))
    BY <1>3, <2>1, <2>3, AtomsAdded
  <2>. QED
    BY <2>2, <2>4
<1>8. newRows \in [Rooms -> Seq(RowAtom)]
  BY <1>7 DEF IsRowOf
<1>. QED
  BY <1>2, <1>5, <1>6, <1>7, <1>8 DEF IsBoard, longer

\* removeReservation: the rows lose the reservation's atoms and keep those of the others.
LEMMA TakenOffBoard ==
  ASSUME NEW board, NEW rows, IsBoard(board, rows), NEW i \in DOMAIN board
  PROVE  IsBoard(RemoveAt(board, i),
                 [room \in Rooms |-> WithoutAtoms(rows[room], room, board[i].address, board[i].atoms)])
<1>. DEFINE shorter == RemoveAt(board, i)
            newRows == [room \in Rooms |-> WithoutAtoms(rows[room], room, board[i].address, board[i].atoms)]
            p == [j \in 1 .. Len(board) - 1 |-> IF j < i THEN j ELSE j + 1]
<1>1. Len(board) \in Nat /\ DOMAIN board = 1 .. Len(board) /\ board \in Seq(BoardReservation) /\ i \in 1 .. Len(board)
  BY OnBoard DEF IsBoard
<1>2. /\ shorter \in Seq(BoardReservation) /\ DOMAIN shorter = 1 .. Len(board) - 1
      /\ \A j \in 1 .. Len(board) - 1 : shorter[j] = board[p[j]]
  BY <1>1, RemovedAt
<1>3. /\ \A j \in 1 .. Len(board) - 1 : p[j] \in DOMAIN board \ {i}
      /\ \A j, k \in 1 .. Len(board) - 1 : p[j] = p[k] => j = k
  BY <1>1
<1>4. \A k \in DOMAIN board \ {i} : \E j \in 1 .. Len(board) - 1 : p[j] = k
  <2>. SUFFICES ASSUME NEW k \in DOMAIN board \ {i} PROVE \E j \in 1 .. Len(board) - 1 : p[j] = k
    OBVIOUS
  <2>1. CASE k < i
    <3>1. k \in 1 .. Len(board) - 1 /\ p[k] = k
      BY <1>1, <2>1
    <3>. HIDE DEF p
    <3>. QED
      BY <3>1
  <2>2. CASE k > i
    <3>1. k - 1 \in 1 .. Len(board) - 1 /\ p[k - 1] = k
      BY <1>1, <2>2
    <3>. HIDE DEF p
    <3>. QED
      BY <3>1
  <2>. QED
    BY <1>1, <2>1, <2>2
<1>. HIDE DEF shorter, p
<1>5. \A j \in DOMAIN shorter : IsValid(shorter[j].atoms)
  BY <1>2, <1>3 DEF IsBoard
<1>6. ASSUME NEW j \in DOMAIN shorter, NEW k \in DOMAIN shorter, shorter[j].address = shorter[k].address
      PROVE  j = k
  <2>1. p[j] \in DOMAIN board /\ p[k] \in DOMAIN board /\ board[p[j]].address = board[p[k]].address
    BY <1>2, <1>3, <1>6
  <2>2. p[j] = p[k]
    BY <2>1 DEF IsBoard
  <2>. QED
    BY <1>2, <1>3, <2>2
<1>7. ASSUME NEW room \in Rooms
      PROVE  IsRowOf(WithoutAtoms(rows[room], room, board[i].address, board[i].atoms), PointersOf(room, shorter))
  <2>. DEFINE old == PointersOf(room, board)
              atoms == board[i].atoms
              rest == {a \in old : ~(a.address = board[i].address /\ a.index \in DOMAIN atoms /\ atoms[a.index].room = room)}
  <2>1. IsRowOf(rows[room], old)
    BY DEF IsBoard
  <2>2. \A a \in old : \E j \in DOMAIN board : \E n \in DOMAIN board[j].atoms :
          /\ board[j].atoms[n].room = room /\ a = PointerTo(board[j].address, board[j].atoms, n)
          /\ a.address = board[j].address /\ a.index = n
    BY OnBoard DEF PointerTo
  <2>3. \A a, b \in old : a.address = b.address /\ a.index = b.index => a = b
    BY <2>2 DEF IsBoard
  <2>4. board[i].address \in Addresses /\ atoms \in Seq(Atom)
    BY OnBoard
  <2>5. IsRowOf(WithoutAtoms(rows[room], room, board[i].address, atoms), rest)
    <3>. HIDE DEF old, atoms
    <3>. QED
      BY <2>1, <2>3, <2>4, AtomsErased
  <2>6. PointersOf(room, shorter) = rest
    <3>1. ASSUME NEW a \in PointersOf(room, shorter) PROVE a \in rest
      <4>1. PICK j \in DOMAIN shorter : \E n \in DOMAIN shorter[j].atoms :
              shorter[j].atoms[n].room = room /\ a = PointerTo(shorter[j].address, shorter[j].atoms, n)
        BY DEF PointersOf, PointersTo, ToSet
      <4>2. p[j] \in DOMAIN board \ {i} /\ shorter[j] = board[p[j]]
        BY <1>2, <1>3
      <4>3. a \in old /\ a.address = board[p[j]].address
        BY <4>1, <4>2, OnBoard DEF PointerTo
      <4>4. a.address # board[i].address
        BY <4>2, <4>3 DEF IsBoard
      <4>. QED
        BY <4>3, <4>4
    <3>2. ASSUME NEW a \in rest PROVE a \in PointersOf(room, shorter)
      <4>1. PICK k \in DOMAIN board : \E n \in DOMAIN board[k].atoms :
              /\ board[k].atoms[n].room = room /\ a = PointerTo(board[k].address, board[k].atoms, n)
              /\ a.address = board[k].address /\ a.index = n
        BY <2>2
      <4>2. k # i
        BY <4>1
      <4>3. PICK j \in DOMAIN shorter : shorter[j] = board[k]
        <5>1. k \in DOMAIN board \ {i}
          BY <4>2
        <5>2. PICK j \in 1 .. Len(board) - 1 : p[j] = k
          BY <1>4, <5>1
        <5>. HIDE DEF p, shorter
        <5>. QED
          BY <1>2, <5>2
      <4>. QED
        BY <4>1, <4>3 DEF PointersOf, PointersTo, ToSet
    <3>. QED
      BY <3>1, <3>2
  <2>. QED
    BY <2>5, <2>6
<1>8. newRows \in [Rooms -> Seq(RowAtom)]
  BY <1>7 DEF IsRowOf
<1>. QED
  BY <1>2, <1>5, <1>6, <1>7, <1>8 DEF IsBoard, shorter

\* An empty board
LEMMA EmptyBoard == IsBoard(<< >>, [room \in Rooms |-> << >>])
<1>1. << >> \in Seq(BoardReservation) /\ << >> \in Seq(RowAtom) /\ DOMAIN << >> = {} /\ ToSet(<< >>) = {}
  BY EmptySeq DEF ToSet
<1>2. \A room \in Rooms : PointersOf(room, << >>) = {}
  BY <1>1 DEF PointersOf
<1>. QED
  BY <1>1, <1>2 DEF IsBoard, IsRowOf

\* No night of a room belongs to two reservations on a board.
LEMMA NightsApart ==
  ASSUME NEW board, NEW rows, IsBoard(board, rows),
         NEW i \in DOMAIN board, NEW j \in DOMAIN board, i # j
  PROVE  Nights(board[i].atoms) \cap Nights(board[j].atoms) = {}
<1>. SUFFICES ASSUME NEW n \in DOMAIN board[i].atoms, NEW m \in DOMAIN board[j].atoms,
                     board[i].atoms[n].room = board[j].atoms[m].room,
                     NEW d \in Dates, HasDate(board[i].atoms[n], d), HasDate(board[j].atoms[m], d)
              PROVE  FALSE
  BY DEF Nights
<1>. DEFINE room == board[i].atoms[n].room
            a == PointerTo(board[i].address, board[i].atoms, n)
            b == PointerTo(board[j].address, board[j].atoms, m)
<1>1. board[i].atoms \in Seq(Atom) /\ room \in Rooms
  <2>1. board[i].atoms \in Seq(Atom)
    BY OnBoard
  <2>2. board[i].atoms[n] \in Atom
    BY <2>1, LenProperties, ElementOfSeq
  <2>. QED
    BY <2>1, <2>2 DEF Atom
<1>2. IsRowOf(rows[room], PointersOf(room, board))
  BY <1>1 DEF IsBoard
<1>3. a \in PointersOf(room, board) /\ b \in PointersOf(room, board)
  BY <1>1, OnBoard
<1>4. a.address # b.address
  BY DEF IsBoard, PointerTo
<1>5. PICK k, l \in DOMAIN rows[room] : rows[room][k] = a /\ rows[room][l] = b
  BY <1>2, <1>3 DEF IsRowOf, ToSet
<1>6. k # l
  BY <1>4, <1>5
<1>7. /\ a.to <= b.from \/ b.to <= a.from
      /\ a.from \in Int /\ a.to \in Int /\ b.from \in Int /\ b.to \in Int
  BY <1>2, <1>5, <1>6, RowPlaces
<1>8. a.from <= d /\ d < a.to /\ b.from <= d /\ d < b.to /\ d \in Int
  BY DatesAssumption DEF PointerTo, HasDate
<1>. HIDE DEF a, b
<1>. QED
  BY <1>7, <1>8

\* The rows of a board have each pointer to an atom in their room once, side by side.
LEMMA RowsOfBoard ==
  ASSUME NEW board, NEW rows, IsBoard(board, rows), NEW room \in Rooms
  PROVE  /\ ToSet(rows[room]) = PointersOf(room, board)
         /\ Len(rows[room]) = Cardinality(PointersOf(room, board))
         /\ \A i \in DOMAIN rows[room] \ {1} : rows[room][i - 1].to <= rows[room][i].from
<1>. DEFINE row == rows[room]
            atoms == PointersOf(room, board)
<1>1. IsRowOf(row, atoms)
  BY DEF IsBoard
<1>. HIDE DEF row, atoms
<1>2. /\ Len(row) \in Nat /\ DOMAIN row = 1 .. Len(row)
      /\ \A i, j \in DOMAIN row : row[i] = row[j] => i = j
      /\ ToSet(row) = atoms
      /\ \A i, j \in DOMAIN row : i < j => row[i].to <= row[j].from
  BY <1>1, RowPlaces DEF IsRowOf
<1>3. Len(row) = Cardinality(atoms)
  <2>. DEFINE f == [i \in 1 .. Len(row) |-> row[i]]
  <2>1. f \in Bijection(1 .. Len(row), atoms)
    BY <1>2 DEF Bijection, Injection, Surjection, IsInjective, ToSet
  <2>2. IsFiniteSet(1 .. Len(row)) /\ Cardinality(1 .. Len(row)) = Len(row)
    BY <1>2, FS_Interval, SMTT(20)
  <2>. QED
    BY <2>1, <2>2, FS_Bijection DEF ExistsBijection
<1>4. ASSUME NEW i \in DOMAIN row \ {1} PROVE row[i - 1].to <= row[i].from
  <2>1. i - 1 \in DOMAIN row /\ i - 1 < i
    BY <1>2
  <2>. QED
    BY <1>2, <2>1
<1>. QED
  BY <1>2, <1>3, <1>4 DEF row, atoms

-----------------------------------------------------------------------------
(* joinAdjacentAtoms *)

JoinedWith(before, atom) ==
  IF before # << >> /\ LastAtom(before).room = atom.room
    THEN [before EXCEPT ![Len(before)] = Span(@, atom)]
    ELSE Append(before, atom)

\* The lists of the loop, from the empty one on.
Joining(f, atoms) ==
  /\ f \in [0 .. Len(atoms) -> Seq(Atom)]
  /\ f[0] = << >>
  /\ \A n \in 1 .. Len(atoms) : f[n] = JoinedWith(f[n - 1], atoms[n])
  /\ Joined(atoms) = f[Len(atoms)]

\* One more atom
LEMMA JoinedWithType ==
  ASSUME NEW before \in Seq(Atom), NEW atom \in Atom
  PROVE  /\ JoinedWith(before, atom) \in Seq(Atom)
         /\ Len(JoinedWith(before, atom)) <= Len(before) + 1
<1>1. Len(before) \in Nat /\ DOMAIN before = 1 .. Len(before)
  BY LenProperties
<1>2. CASE before # << >> /\ LastAtom(before).room = atom.room
  <2>. DEFINE last == before[Len(before)]
  <2>1. Len(before) \in 1 .. Len(before) /\ last \in Atom
    <3>1. Len(before) # 0
      BY <1>1, <1>2, EmptySeq
    <3>2. Len(before) \in 1 .. Len(before)
      BY <1>1, <3>1
    <3>. QED
      BY <3>2, ElementOfSeq
  <2>2. Span(last, atom) \in Atom
    <3>. HIDE DEF last
    <3>. QED
      BY <2>1 DEF Span, Atom
  <2>3. JoinedWith(before, atom) = [before EXCEPT ![Len(before)] = Span(last, atom)]
    BY <1>2 DEF JoinedWith
  <2>. HIDE DEF last
  <2>4. /\ [before EXCEPT ![Len(before)] = Span(last, atom)] \in Seq(Atom)
        /\ Len([before EXCEPT ![Len(before)] = Span(last, atom)]) = Len(before)
    BY <2>1, <2>2, ExceptSeq
  <2>. QED
    BY <1>1, <2>3, <2>4
<1>3. CASE ~(before # << >> /\ LastAtom(before).room = atom.room)
  <2>1. JoinedWith(before, atom) = Append(before, atom)
    BY <1>3 DEF JoinedWith
  <2>. QED
    BY <1>1, <2>1, AppendProperties
<1>. QED
  BY <1>2, <1>3

\* The recursive definition of Joined goes through the atoms one by one.
LEMMA JoinedDefined ==
  ASSUME NEW atoms \in Seq(Atom)
  PROVE  \E f : Joining(f, atoms)
<1>. DEFINE D == Seq(Atom)
            step == [n \in 1 .. Len(atoms) |-> [b \in D |-> JoinedWith(b, atoms[n])]]
            Loop(f) == f = [n \in 0 .. Len(atoms) |-> IF n = 0 THEN << >> ELSE JoinedWith(f[n - 1], atoms[n])]
<1>1. Len(atoms) \in Nat /\ \A n \in 1 .. Len(atoms) : atoms[n] \in Atom
  BY LenProperties, ElementOfSeq
<1>2. step \in [1 .. Len(atoms) -> [D -> D]]
  <2>1. ASSUME NEW n \in 1 .. Len(atoms), NEW b \in D PROVE JoinedWith(b, atoms[n]) \in D
    BY <1>1, JoinedWithType
  <2>. HIDE DEF D
  <2>. QED
    BY <2>1
<1>3. PICK f : Stepwise(f, D, Len(atoms), << >>, step)
  <2>1. << >> \in D
    BY EmptySeq
  <2>. HIDE DEF D, step
  <2>. QED
    BY <1>1, <1>2, <2>1, StepwiseFunction
<1>4. ASSUME NEW n \in 1 .. Len(atoms) PROVE f[n] = JoinedWith(f[n - 1], atoms[n])
  <2>1. f[n - 1] \in D /\ f[n] = step[n][f[n - 1]]
    <3>. HIDE DEF D, step
    <3>. QED
      BY <1>1, <1>3 DEF Stepwise
  <2>. HIDE DEF D
  <2>. QED
    BY <2>1
<1>5. Loop(f)
  <2>. HIDE DEF D, step
  <2>1. f = [n \in 0 .. Len(atoms) |-> f[n]] /\ f[0] = << >>
    BY <1>3 DEF Stepwise
  <2>2. ASSUME NEW n \in 0 .. Len(atoms)
        PROVE  f[n] = IF n = 0 THEN << >> ELSE JoinedWith(f[n - 1], atoms[n])
    <3>1. n # 0 => n \in 1 .. Len(atoms)
      BY <1>1
    <3>. QED
      BY <1>4, <2>1, <3>1
  <2>. QED
    BY <2>1, <2>2
<1>. DEFINE g == CHOOSE h : Loop(h)
<1>6. Joined(atoms) = g[Len(atoms)]
  BY DEF Joined, JoinedWith
<1>7. Loop(g)
  <2>. HIDE DEF Loop
  <2>. QED
    BY <1>5
<1>8. /\ \A n \in 0 .. Len(atoms) : g[n] = IF n = 0 THEN << >> ELSE JoinedWith(g[n - 1], atoms[n])
      /\ g = [n \in 0 .. Len(atoms) |-> g[n]]
  <2>. HIDE DEF g
  <2>. QED
    BY <1>7
<1>. DEFINE N == {n \in Nat : n <= Len(atoms) => g[n] \in D}
<1>9. \A n \in Nat : n \in N
  <2>. HIDE DEF g
  <2>1. 0 \in N
    BY <1>1, <1>8, EmptySeq
  <2>2. ASSUME NEW n \in Nat, n \in N PROVE n + 1 \in N
    <3>. SUFFICES ASSUME n + 1 <= Len(atoms) PROVE g[n + 1] \in D
      OBVIOUS
    <3>1. g[n] \in D /\ n + 1 \in 1 .. Len(atoms) /\ n + 1 # 0 /\ (n + 1) - 1 = n
      BY <1>1, <2>2
    <3>2. g[n + 1] = JoinedWith(g[n], atoms[n + 1])
      BY <1>8, <3>1
    <3>. QED
      BY <1>1, <3>1, <3>2, JoinedWithType
  <2>. HIDE DEF N
  <2>. QED
    BY <2>1, <2>2, SetInduction
<1>10. g \in [0 .. Len(atoms) -> D] /\ g[0] = << >>
  <2>. HIDE DEF g
  <2>1. \A n \in 0 .. Len(atoms) : g[n] \in D
    BY <1>1, <1>9
  <2>. HIDE DEF D
  <2>. QED
    BY <1>1, <1>8, <2>1
<1>11. \A n \in 1 .. Len(atoms) : g[n] = JoinedWith(g[n - 1], atoms[n])
  <2>. HIDE DEF g
  <2>. QED
    BY <1>1, <1>8, SMTT(20)
<1>. HIDE DEF g
<1>. QED
  BY <1>6, <1>10, <1>11 DEF Joining

\* Joining makes no list longer.
LEMMA JoinedType ==
  ASSUME NEW atoms \in Seq(Atom)
  PROVE  Joined(atoms) \in Seq(Atom) /\ Len(Joined(atoms)) <= Len(atoms)
<1>1. PICK f : Joining(f, atoms)
  BY JoinedDefined
<1>2. /\ Len(atoms) \in Nat /\ \A n \in 1 .. Len(atoms) : atoms[n] \in Atom
      /\ \A n \in 0 .. Len(atoms) : f[n] \in Seq(Atom)
  BY <1>1, LenProperties, ElementOfSeq DEF Joining
<1>. DEFINE N == {n \in Nat : n <= Len(atoms) => Len(f[n]) <= n}
<1>3. 0 \in N
  BY <1>1 DEF Joining
<1>4. ASSUME NEW n \in Nat, n \in N PROVE n + 1 \in N
  <2>. SUFFICES ASSUME n + 1 <= Len(atoms) PROVE Len(f[n + 1]) <= n + 1
    OBVIOUS
  <2>1. Len(f[n]) <= n /\ n + 1 \in 1 .. Len(atoms) /\ (n + 1) - 1 = n /\ n \in 0 .. Len(atoms)
    BY <1>2, <1>4
  <2>2. f[n + 1] = JoinedWith(f[n], atoms[n + 1])
    BY <1>1, <2>1 DEF Joining
  <2>3. f[n] \in Seq(Atom) /\ f[n + 1] \in Seq(Atom) /\ Len(f[n + 1]) <= Len(f[n]) + 1
    BY <1>2, <2>1, <2>2, JoinedWithType
  <2>4. Len(f[n]) \in Nat /\ Len(f[n + 1]) \in Nat
    BY <2>3, LenProperties
  <2>. QED
    BY <2>1, <2>3, <2>4
<1>5. Len(atoms) \in N
  <2>. HIDE DEF N
  <2>. QED
    BY <1>2, <1>3, <1>4, SetInduction
<1>. QED
  BY <1>1, <1>2, <1>5 DEF Joining

Occupies(atom, room, date) == atom.room = room /\ HasDate(atom, date)

\* A list joined from the first n atoms of a reservation
IsJoined(joined, atoms, n) ==
  /\ joined \in Seq(Atom) /\ IsValid(joined)
  /\ \A i \in DOMAIN joined \ {1} : joined[i].room # joined[i - 1].room
  /\ joined[1].from = atoms[1].from
  /\ LastAtom(joined).to = atoms[n].to /\ LastAtom(joined).room = atoms[n].room
  /\ \A room \in Rooms, date \in Dates :
       (\E i \in DOMAIN joined : Occupies(joined[i], room, date)) <=> \E i \in 1 .. n : Occupies(atoms[i], room, date)

\* Joining one more atom, which begins when the last one ends.
LEMMA OneMoreJoined ==
  ASSUME NEW atoms \in Seq(Atom), IsValid(atoms), NEW n \in Nat \ {0}, n + 1 \in DOMAIN atoms,
         NEW joined, IsJoined(joined, atoms, n)
  PROVE  IsJoined(JoinedWith(joined, atoms[n + 1]), atoms, n + 1)
<1>. DEFINE L == Len(joined)
            last == joined[L]
            next == atoms[n + 1]
            new == JoinedWith(joined, next)
<1>1. /\ L \in Nat \ {0} /\ DOMAIN joined = 1 .. L
      /\ \A i \in 1 .. L : /\ joined[i] \in Atom /\ joined[i].from \in Int /\ joined[i].to \in Int
                           /\ joined[i].from < joined[i].to
      /\ \A i \in (1 .. L) \ {1} : joined[i - 1].to = joined[i].from
  BY ValidAtoms DEF IsJoined, IsValid
<1>2. /\ n \in DOMAIN atoms /\ atoms[n].to = next.from
      /\ next \in Atom /\ next.from \in Int /\ next.to \in Int /\ next.from < next.to
  <2>1. n \in DOMAIN atoms /\ n + 1 # 1 /\ (n + 1) - 1 = n /\ n + 1 \in 1 .. Len(atoms)
    BY ValidAtoms
  <2>2. atoms[n].to = next.from
    BY <2>1 DEF IsValid
  <2>. HIDE DEF next
  <2>. QED
    BY <2>1, <2>2, ValidAtoms DEF next
<1>3. /\ last \in Atom /\ last.from \in Int /\ last.to \in Int /\ last.from < last.to
      /\ last.to = next.from /\ last.room = atoms[n].room /\ joined # << >> /\ L \in 1 .. L
  <2>1. L \in 1 .. L
    BY <1>1
  <2>2. last.to = atoms[n].to /\ last.room = atoms[n].room /\ joined # << >>
    BY DEF IsJoined, LastAtom, IsValid
  <2>. QED
    BY <1>1, <1>2, <2>1, <2>2
<1>4. new \in Seq(Atom)
  BY <1>2, JoinedWithType DEF IsJoined
<1>5. \A room \in Rooms, date \in Dates :
        (\E i \in 1 .. n + 1 : Occupies(atoms[i], room, date))
          <=> (\E i \in DOMAIN joined : Occupies(joined[i], room, date)) \/ Occupies(next, room, date)
  <2>1. 1 .. n + 1 = 1 .. n \cup {n + 1}
    OBVIOUS
  <2>. HIDE DEF L
  <2>. QED
    BY <2>1 DEF IsJoined
<1>. HIDE DEF next
<1>6. CASE last.room = next.room
  <2>. DEFINE whole == Span(last, next)
  <2>1. new = [joined EXCEPT ![L] = whole]
    BY <1>3, <1>6 DEF JoinedWith, LastAtom
  <2>2. /\ whole.room = last.room /\ whole.from = last.from /\ whole.to = next.to
        /\ \A date \in Dates : HasDate(whole, date) <=> HasDate(last, date) \/ HasDate(next, date)
    <3>1. whole.room = last.room /\ whole.from = last.from /\ whole.to = next.to
      <4>. HIDE DEF last
      <4>. QED
        BY <1>2, <1>3 DEF Span, Atom
    <3>. HIDE DEF whole, last
    <3>. QED
      BY <1>2, <1>3, <3>1, DatesAssumption DEF HasDate
  <2>3. /\ DOMAIN new = 1 .. L /\ Len(new) = L /\ new[L] = whole
        /\ \A i \in 1 .. L : i # L => new[i] = joined[i]
    <3>1. whole \in Atom
      <4>. HIDE DEF last
      <4>. QED
        BY <1>2, <1>3 DEF Span, Atom
    <3>. HIDE DEF whole
    <3>2. joined \in Seq(Atom)
      BY DEF IsJoined
    <3>. QED
      BY <1>1, <1>3, <1>4, <2>1, <3>1, <3>2, ExceptSeq, LenProperties
  <2>. HIDE DEF L, last, whole, new
  <2>4. new # << >> /\ new[1].from = atoms[1].from
    <3>1. joined[1].from = atoms[1].from
      BY DEF IsJoined
    <3>. QED
      BY <1>1, <1>3, <2>2, <2>3, <3>1 DEF last
  <2>5. \A i \in 1 .. L : ~IsNull(new[i])
    BY <1>1, <1>2, <1>3, <2>2, <2>3, SMTT(20) DEF IsNull
  <2>6. ASSUME NEW i \in (1 .. L) \ {1} PROVE new[i - 1].to = new[i].from /\ new[i].room # new[i - 1].room
    <3>1. i - 1 \in 1 .. L /\ i - 1 # L /\ new[i - 1] = joined[i - 1]
      BY <1>1, <2>3
    <3>2. joined[i - 1].to = joined[i].from /\ joined[i].room # joined[i - 1].room
      BY <1>1 DEF IsJoined
    <3>. QED
      BY <2>2, <2>3, <3>1, <3>2 DEF last
  <2>7. ASSUME NEW room \in Rooms, NEW date \in Dates
        PROVE  (\E i \in 1 .. L : Occupies(new[i], room, date)) <=> \E i \in 1 .. n + 1 : Occupies(atoms[i], room, date)
    <3>1. Occupies(whole, room, date) <=> Occupies(last, room, date) \/ Occupies(next, room, date)
      BY <1>6, <2>2 DEF Occupies
    <3>2. (\E i \in 1 .. L : Occupies(new[i], room, date))
            <=> (\E i \in 1 .. L : Occupies(joined[i], room, date)) \/ Occupies(next, room, date)
      BY <1>3, <2>3, <3>1 DEF last
    <3>. QED
      BY <1>1, <1>5, <3>2
  <2>8. LastAtom(new).to = next.to /\ LastAtom(new).room = next.room
    BY <1>6, <2>2, <2>3 DEF LastAtom
  <2>. QED
    BY <1>4, <2>3, <2>4, <2>5, <2>6, <2>7, <2>8 DEF IsJoined, IsValid, next, new
<1>7. CASE last.room # next.room
  <2>1. new = Append(joined, next)
    BY <1>7 DEF JoinedWith, LastAtom
  <2>2. /\ DOMAIN new = 1 .. L + 1 /\ Len(new) = L + 1 /\ new[L + 1] = next
        /\ \A i \in 1 .. L : new[i] = joined[i]
    BY <1>1, <1>2, <2>1, AppendProperties, LenProperties DEF IsJoined
  <2>. HIDE DEF L, last, new
  <2>3. new # << >> /\ new[1].from = atoms[1].from
    <3>1. joined[1].from = atoms[1].from
      BY DEF IsJoined
    <3>. QED
      BY <1>1, <2>2, <3>1
  <2>4. ASSUME NEW i \in 1 .. L + 1 PROVE ~IsNull(new[i])
    BY <1>1, <1>2, <2>2, SMTT(20) DEF IsNull
  <2>5. ASSUME NEW i \in (1 .. L + 1) \ {1} PROVE new[i - 1].to = new[i].from /\ new[i].room # new[i - 1].room
    <3>1. CASE i = L + 1
      <4>1. new[i] = next /\ i - 1 = L /\ new[i - 1] = last
        BY <1>1, <1>3, <2>2, <3>1 DEF last
      <4>. QED
        BY <1>3, <1>7, <4>1
    <3>2. CASE i # L + 1
      <4>1. i \in (1 .. L) \ {1} /\ new[i] = joined[i] /\ new[i - 1] = joined[i - 1]
        BY <1>1, <2>2, <3>2
      <4>. QED
        BY <1>1, <4>1 DEF IsJoined
    <3>. QED
      BY <3>1, <3>2
  <2>6. ASSUME NEW room \in Rooms, NEW date \in Dates
        PROVE  (\E i \in 1 .. L + 1 : Occupies(new[i], room, date))
                 <=> \E i \in 1 .. n + 1 : Occupies(atoms[i], room, date)
    <3>1. 1 .. L + 1 = 1 .. L \cup {L + 1}
      BY <1>1
    <3>2. (\E i \in 1 .. L + 1 : Occupies(new[i], room, date))
            <=> (\E i \in 1 .. L : Occupies(joined[i], room, date)) \/ Occupies(next, room, date)
      BY <2>2, <3>1
    <3>. QED
      BY <1>1, <1>5, <3>2
  <2>7. LastAtom(new).to = next.to /\ LastAtom(new).room = next.room
    BY <2>2 DEF LastAtom
  <2>. QED
    BY <1>4, <2>2, <2>3, <2>4, <2>5, <2>6, <2>7 DEF IsJoined, IsValid, next, new
<1>. QED
  BY <1>6, <1>7

\* joinAdjacentAtoms leaves a valid reservation with the nights it had.
LEMMA JoinedKeeps ==
  ASSUME NEW atoms \in Seq(Atom), IsValid(atoms)
  PROVE  IsJoined(Joined(atoms), atoms, Len(atoms))
<1>1. PICK f : Joining(f, atoms)
  BY JoinedDefined
<1>2. /\ Len(atoms) \in Nat \ {0} /\ DOMAIN atoms = 1 .. Len(atoms)
      /\ atoms[1] \in Atom /\ atoms[1].from < atoms[1].to /\ atoms[1].from \in Int /\ atoms[1].to \in Int
  BY ValidAtoms
<1>. DEFINE N == {n \in Nat : n + 1 <= Len(atoms) => IsJoined(f[n + 1], atoms, n + 1)}
<1>3. 0 \in N
  <2>. DEFINE one == Append(<< >>, atoms[1])
  <2>1. f[1] = JoinedWith(<< >>, atoms[1])
    <3>1. 1 \in 1 .. Len(atoms) /\ 1 - 1 = 0
      BY <1>2
    <3>. QED
      BY <1>1, <3>1 DEF Joining
  <2>2. f[1] = one
    BY <2>1 DEF JoinedWith
  <2>3. one \in Seq(Atom) /\ Len(one) = 1 /\ one[1] = atoms[1] /\ DOMAIN one = 1 .. 1 /\ one # << >>
    <3>1. << >> \in Seq(Atom) /\ Len(<< >>) = 0
      BY EmptySeq
    <3>2. one \in Seq(Atom) /\ Len(one) = 1 /\ one[1] = atoms[1]
      BY <1>2, <3>1, AppendProperties
    <3>. HIDE DEF one
    <3>3. DOMAIN one = 1 .. 1
      BY <3>2, LenProperties
    <3>4. one # << >>
      <4>1. Len(one) # Len(<< >>)
        BY <3>1, <3>2
      <4>. QED
        BY <4>1
    <3>. QED
      BY <3>2, <3>3, <3>4
  <2>. HIDE DEF one
  <2>4. 1 .. 1 = {1}
    OBVIOUS
  <2>5. IsValid(one)
    BY <1>2, <2>3, <2>4 DEF IsValid, IsNull
  <2>6. IsJoined(one, atoms, 1)
    BY <2>3, <2>4, <2>5 DEF IsJoined, LastAtom
  <2>. QED
    BY <2>2, <2>6
<1>4. ASSUME NEW n \in Nat, n \in N PROVE n + 1 \in N
  <2>. SUFFICES ASSUME (n + 1) + 1 <= Len(atoms) PROVE IsJoined(f[(n + 1) + 1], atoms, (n + 1) + 1)
    OBVIOUS
  <2>. DEFINE m == n + 1
  <2>1. /\ m \in Nat \ {0} /\ m + 1 \in 1 .. Len(atoms) /\ (m + 1) - 1 = m
        /\ IsJoined(f[m], atoms, m)
    BY <1>2, <1>4
  <2>. HIDE DEF m
  <2>2. f[m + 1] = JoinedWith(f[m], atoms[m + 1])
    BY <1>1, <2>1 DEF Joining
  <2>3. IsJoined(f[m + 1], atoms, m + 1)
    BY <1>2, <2>1, <2>2, OneMoreJoined
  <2>. QED
    BY <2>3 DEF m
<1>5. Len(atoms) - 1 \in N
  <2>. HIDE DEF N
  <2>1. \A n \in Nat : n \in N
    BY <1>3, <1>4, SetInduction
  <2>. QED
    BY <1>2, <2>1
<1>6. (Len(atoms) - 1) + 1 = Len(atoms)
  BY <1>2
<1>. QED
  BY <1>1, <1>2, <1>5, <1>6 DEF Joining

\* Joining keeps the nights.
LEMMA JoinedNights ==
  ASSUME NEW atoms \in Seq(Atom), IsValid(atoms)
  PROVE  Nights(Joined(atoms)) = Nights(atoms)
<1>. DEFINE joined == Joined(atoms)
<1>1. IsJoined(joined, atoms, Len(atoms)) /\ joined \in Seq(Atom)
  BY JoinedKeeps DEF IsJoined
<1>. HIDE DEF joined
<1>2. \A some \in Seq(Atom) : \A n : n \in Nights(some) <=>
        \E room \in Rooms, date \in Dates : n = <<room, date>> /\ \E i \in 1 .. Len(some) : Occupies(some[i], room, date)
  <2>. SUFFICES ASSUME NEW some \in Seq(Atom), NEW n
                PROVE  n \in Nights(some) <=>
                         \E room \in Rooms, date \in Dates :
                           n = <<room, date>> /\ \E i \in 1 .. Len(some) : Occupies(some[i], room, date)
    OBVIOUS
  <2>1. DOMAIN some = 1 .. Len(some) /\ \A i \in 1 .. Len(some) : some[i].room \in Rooms
    <3>1. \A i \in 1 .. Len(some) : some[i] \in Atom
      BY ElementOfSeq
    <3>. QED
      BY <3>1, LenProperties DEF Atom
  <2>. QED
    BY <2>1 DEF Nights, Occupies
<1>3. DOMAIN joined = 1 .. Len(joined)
  BY <1>1, LenProperties
<1>4. ASSUME NEW n PROVE n \in Nights(joined) <=> n \in Nights(atoms)
  BY <1>1, <1>2, <1>3 DEF IsJoined
<1>. QED
  BY <1>4 DEF joined

-----------------------------------------------------------------------------
(* PlanningBoard *)

\* The inductive invariant.
BoardInv == TypeOK /\ IsBoard(reservations, rooms)

\* The board is empty at first.
LEMMA BoardInit == Init => BoardInv
<1>. SUFFICES ASSUME Init PROVE BoardInv
  OBVIOUS
<1>1. << >> \in Seq(Atom) /\ Len(<< >>) = 0 /\ << >> \in Seq(BoardReservation) /\ << >> \in Seq(RowAtom)
  BY EmptySeq
<1>. QED
  BY <1>1, EmptyBoard, BoardAssumption DEF Init, BoardInv, TypeOK

\* What building a reservation makes of its atoms.
LEMMA DraftType ==
  ASSUME NEW atoms \in Seq(Atom), Len(atoms) <= MaxAtoms
  PROVE  /\ Len(atoms) \in Nat /\ DOMAIN atoms = 1 .. Len(atoms)
         /\ \A atom \in Atom : Len(atoms) < MaxAtoms =>
              Append(atoms, atom) \in Seq(Atom) /\ Len(Append(atoms, atom)) <= MaxAtoms
         /\ \A i \in DOMAIN atoms, room \in Rooms :
              /\ [atoms EXCEPT ![i].room = room] \in Seq(Atom)
              /\ Len([atoms EXCEPT ![i].room = room]) <= MaxAtoms
         /\ RemovedLast(atoms) \in Seq(Atom) /\ Len(RemovedLast(atoms)) <= MaxAtoms
         /\ atoms # << >> => LastAtom(atoms) \in Atom
<1>1. Len(atoms) \in Nat /\ DOMAIN atoms = 1 .. Len(atoms) /\ MaxAtoms \in Nat
  BY LenProperties, BoardAssumption
<1>2. ASSUME NEW atom \in Atom, Len(atoms) < MaxAtoms
      PROVE  Append(atoms, atom) \in Seq(Atom) /\ Len(Append(atoms, atom)) <= MaxAtoms
  BY <1>1, <1>2, AppendProperties
<1>3. ASSUME NEW i \in DOMAIN atoms, NEW room \in Rooms
      PROVE  /\ [atoms EXCEPT ![i].room = room] \in Seq(Atom)
             /\ Len([atoms EXCEPT ![i].room = room]) <= MaxAtoms
  <2>. DEFINE new == [atoms[i] EXCEPT !.room = room]
  <2>1. i \in 1 .. Len(atoms) /\ atoms[i] \in Atom
    BY <1>1, ElementOfSeq
  <2>2. new \in Atom
    BY <2>1 DEF Atom
  <2>3. [atoms EXCEPT ![i].room = room] = [atoms EXCEPT ![i] = new]
    OBVIOUS
  <2>. HIDE DEF new
  <2>. QED
    BY <2>1, <2>2, <2>3, ExceptSeq
<1>4. RemovedLast(atoms) \in Seq(Atom) /\ Len(RemovedLast(atoms)) <= MaxAtoms
  <2>1. CASE atoms = << >>
    BY <2>1 DEF RemovedLast
  <2>2. CASE atoms # << >>
    <3>1. \A i \in 1 .. Len(atoms) - 1 : atoms[i] \in Atom
      BY <1>1, ElementOfSeq
    <3>2. SubSeq(atoms, 1, Len(atoms) - 1) \in Seq(Atom) /\ Len(SubSeq(atoms, 1, Len(atoms) - 1)) <= MaxAtoms
      BY <1>1, <3>1, SubSeqProperties
    <3>. QED
      BY <2>2, <3>2 DEF RemovedLast
  <2>. QED
    BY <2>1, <2>2
<1>5. ASSUME atoms # << >> PROVE LastAtom(atoms) \in Atom
  <2>1. Len(atoms) \in 1 .. Len(atoms)
    BY <1>1, <1>5, EmptySeq
  <2>. QED
    BY <2>1, ElementOfSeq DEF LastAtom
<1>. QED
  BY <1>1, <1>2, <1>3, <1>4, <1>5

\* A reservation that canAddReservation accepts is put on the board.
LEMMA PutOnKeeps ==
  ASSUME IsBoard(reservations, rooms),
         NEW address, NEW id \in Nat, NEW revision \in Nat, NEW atoms \in Seq(Atom),
         PutOn(address, id, revision, atoms)
  PROVE  IsBoard(reservations, rooms)'
<1>. DEFINE new == [address |-> address, id |-> id, revision |-> revision, atoms |-> atoms]
<1>1. /\ address \in Addresses \ UsedAddresses
      /\ IsValid(atoms)
      /\ \A i \in DOMAIN atoms : IsFree(atoms[i].room, atoms[i])
      /\ rooms' = [room \in Rooms |-> WithAtoms(rooms[room], room, address, atoms)]
      /\ reservations' = Append(reservations, new)
  BY DEF PutOn, CanAddReservation
<1>2. /\ new \in BoardReservation /\ new.address = address /\ new.atoms = atoms
      /\ \A i \in DOMAIN reservations : reservations[i].address # address
  BY <1>1 DEF BoardReservation, UsedAddresses
<1>3. \A n \in DOMAIN atoms : \A k \in DOMAIN rooms[atoms[n].room] :
        ~Intersects(rooms[atoms[n].room][k], atoms[n])
  BY <1>1 DEF IsFree
<1>. HIDE DEF new
<1>4. IsBoard(Append(reservations, new), [room \in Rooms |-> WithAtoms(rooms[room], room, new.address, new.atoms)])
  BY <1>1, <1>2, <1>3, PutOnBoard
<1>5. IsBoard(reservations', rooms')
  BY <1>1, <1>2, <1>4
<1>. QED
  BY <1>5

\* A reservation is taken off the board.
LEMMA TakeOffKeeps ==
  ASSUME IsBoard(reservations, rooms), NEW i \in DOMAIN reservations, TakeOff(i)
  PROVE  IsBoard(reservations, rooms)'
<1>1. IsBoard(reservations', rooms')
  BY TakenOffBoard DEF TakeOff
<1>. QED
  BY <1>1

\* Every call keeps the types and the rows.
LEMMA BoardNext == BoardInv /\ [Next]_vars => BoardInv'
<1>. SUFFICES ASSUME BoardInv, [Next]_vars PROVE BoardInv'
  OBVIOUS
<1>1. /\ draft \in Seq(Atom) /\ Len(draft) <= MaxAtoms
      /\ reservations \in Seq(BoardReservation)
      /\ rooms \in [Rooms -> Seq(RowAtom)]
      /\ outcome \in {"none", "pointer", "nullptr", "exception"}
      /\ IsBoard(reservations, rooms)
  BY DEF BoardInv, TypeOK
<1>. DEFINE DraftOK == draft' \in Seq(Atom) /\ Len(draft') <= MaxAtoms
<1>2. ASSUME DraftOK, IsBoard(reservations, rooms)', outcome' \in {"none", "pointer", "nullptr", "exception"}
      PROVE  BoardInv'
  BY <1>2 DEF BoardInv, TypeOK, IsBoard
<1>3. ASSUME DraftOK, BoardUnchanged PROVE BoardInv'
  BY <1>1, <1>2, <1>3 DEF BoardUnchanged
<1>4. << >> \in Seq(Atom) /\ Len(<< >>) <= MaxAtoms
  BY EmptySeq, BoardAssumption
<1>5. ASSUME NEW atom \in Atom, NewReservation(atom) PROVE BoardInv'
  <2>1. Append(<< >>, atom) = <<atom>> /\ Len(<<atom>>) = 1 /\ <<atom>> \in Seq(Atom)
    OBVIOUS
  <2>2. DraftOK
    BY <1>5, <2>1, BoardAssumption DEF NewReservation
  <2>. QED
    BY <1>3, <1>5, <2>2 DEF NewReservation
<1>6. ASSUME NEW atom \in Atom, AddAtom(atom) PROVE BoardInv'
  <2>1. DraftOK
    BY <1>1, <1>6, DraftType DEF AddAtom
  <2>. QED
    BY <1>3, <1>6, <2>1 DEF AddAtom
<1>7. ASSUME NEW room \in Rooms, NEW date \in Dates, AddContinuation(room, date) PROVE BoardInv'
  <2>. DEFINE atom == [room |-> room, from |-> LastAtom(draft).to, to |-> date]
  <2>1. LastAtom(draft) \in Atom
    BY <1>1, <1>7, DraftType DEF AddContinuation, CanAddContinuation
  <2>2. atom \in Atom
    BY <2>1 DEF Atom
  <2>3. draft' = Append(draft, atom) /\ Len(draft) < MaxAtoms
    BY <1>7 DEF AddContinuation, Continued
  <2>4. DraftOK
    <3>. HIDE DEF atom
    <3>. QED
      BY <1>1, <2>2, <2>3, DraftType
  <2>. QED
    BY <1>3, <1>7, <2>4 DEF AddContinuation
<1>8. ASSUME RemoveLastAtom PROVE BoardInv'
  BY <1>1, <1>3, <1>8, DraftType DEF RemoveLastAtom
<1>9. ASSUME JoinAdjacentAtoms PROVE BoardInv'
  <2>1. Joined(draft) \in Seq(Atom) /\ Len(Joined(draft)) <= Len(draft)
    BY <1>1, JoinedType
  <2>2. Len(draft) \in Nat /\ Len(Joined(draft)) \in Nat /\ MaxAtoms \in Nat
    BY <1>1, <2>1, LenProperties, BoardAssumption
  <2>. QED
    BY <1>1, <1>3, <1>9, <2>1, <2>2 DEF JoinAdjacentAtoms
<1>10. ASSUME NEW i, NEW room \in Rooms, SetRoom(i, room) PROVE BoardInv'
  <2>1. DraftOK
    BY <1>1, <1>10, DraftType DEF SetRoom
  <2>. QED
    BY <1>3, <1>10, <2>1 DEF SetRoom
<1>11. ASSUME NEW address, NEW id \in Ids, AddReservation(address, id) PROVE BoardInv'
  <2>1. PutOn(address, id, 1, draft) /\ draft' = << >> /\ id \in Nat
    BY <1>11, BoardAssumption DEF AddReservation
  <2>2. IsBoard(reservations, rooms)'
    BY <1>1, <2>1, PutOnKeeps
  <2>. QED
    BY <1>2, <1>4, <2>1, <2>2 DEF PutOn
<1>12. ASSUME AddReservationThrows PROVE BoardInv'
  <2>1. IsBoard(reservations, rooms)'
    BY <1>1, <1>12 DEF AddReservationThrows
  <2>. QED
    BY <1>2, <1>4, <1>12, <2>1 DEF AddReservationThrows
<1>13. ASSUME NEW i \in DOMAIN reservations, TakeOff(i) PROVE BoardInv'
  <2>1. IsBoard(reservations, rooms)'
    BY <1>1, <1>13, TakeOffKeeps
  <2>2. UNCHANGED <<draft, outcome>>
    BY <1>13 DEF TakeOff
  <2>. QED
    BY <1>1, <1>2, <2>1, <2>2
<1>14. ASSUME Clear PROVE BoardInv'
  <2>1. IsBoard(reservations', rooms')
    BY <1>14, EmptyBoard DEF Clear
  <2>2. UNCHANGED <<draft, outcome>>
    BY <1>14 DEF Clear
  <2>. QED
    BY <1>1, <1>2, <2>1, <2>2
<1>15. CASE UNCHANGED vars
  <2>1. IsBoard(reservations', rooms')
    BY <1>1, <1>15 DEF vars
  <2>. QED
    BY <1>1, <1>2, <1>15, <2>1 DEF vars
<1>16. ASSUME NEW room \in Rooms, NEW period \in Period
       PROVE  [room |-> room, from |-> period.from, to |-> period.to] \in Atom
  BY DEF Period, Atom
<1>. HIDE DEF DraftOK
<1>. QED
  BY <1>5, <1>6, <1>7, <1>8, <1>9, <1>10, <1>11, <1>12, <1>13, <1>14, <1>15, <1>16
     DEF Next, RemoveReservation, RemoveReservationById

\* Whatever is added and removed, the reservations on the board are valid, and the rows have
\* their atoms in the order of their dates: the inductive invariant.
THEOREM BoardInvariant == Spec => []BoardInv
<1>. QED
  BY BoardInit, BoardNext, PTL DEF Spec

\* addReservation and both overloads of removeReservation: no two reservations on the board
\* have the same night in a room.
THEOREM NoNightIsTakenTwice == Spec => []NoDoubleBooking
<1>1. BoardInv => NoDoubleBooking
  BY NightsApart DEF BoardInv, NoDoubleBooking
<1>. QED
  BY <1>1, BoardInvariant, PTL

\* insertAtom and the erasures: the rows have a pointer to each atom on the board, none twice,
\* none to a reservation that is gone, and one after the other.
THEOREM RowsMirrorReservations == Spec => []RowsPointToReservations
<1>1. BoardInv => RowsPointToReservations
  <2>. SUFFICES ASSUME BoardInv, NEW room \in Rooms
                PROVE  /\ ToSet(rooms[room]) = PointersInto(room)
                       /\ Len(rooms[room]) = Cardinality(PointersInto(room))
                       /\ \A i \in DOMAIN rooms[room] \ {1} : rooms[room][i - 1].to <= rooms[room][i].from
    BY DEF RowsPointToReservations
  <2>1. PointersInto(room) = PointersOf(room, reservations)
    BY DEF PointersInto, PointersOf
  <2>. QED
    BY <2>1, RowsOfBoard DEF BoardInv
<1>. QED
  BY <1>1, BoardInvariant, PTL

\* joinAdjacentAtoms of a valid reservation keeps its nights and its length, and leaves an atom
\* for each change of room.
THEOREM JoiningIsSafe == Spec => JoiningKeepsNights
<1>1. BoardInv /\ [Next]_vars =>
        [JoinAdjacentAtoms /\ IsValid(draft) =>
           /\ Nights(draft') = Nights(draft)
           /\ IsValid(draft') /\ Length(draft') = Length(draft)
           /\ \A i \in DOMAIN draft' \ {1} : draft'[i].room # draft'[i - 1].room]_vars
  <2>. SUFFICES ASSUME draft \in Seq(Atom), JoinAdjacentAtoms, IsValid(draft)
                PROVE  /\ Nights(draft') = Nights(draft)
                       /\ IsValid(draft') /\ Length(draft') = Length(draft)
                       /\ \A i \in DOMAIN draft' \ {1} : draft'[i].room # draft'[i - 1].room
    BY DEF BoardInv, TypeOK
  <2>. DEFINE joined == Joined(draft)
  <2>1. draft' = joined /\ IsJoined(joined, draft, Len(draft))
    BY JoinedKeeps DEF JoinAdjacentAtoms
  <2>. HIDE DEF joined
  <2>2. joined \in Seq(Atom) /\ IsValid(joined)
    BY <2>1 DEF IsJoined
  <2>3. Nights(joined) = Nights(draft)
    BY JoinedNights DEF joined
  <2>4. Length(joined) = Length(draft)
    BY <2>1, <2>2 DEF IsJoined, Length, IsValid, FirstAtom, LastAtom
  <2>. QED
    BY <2>1, <2>2, <2>3, <2>4 DEF IsJoined
<1>. QED
  BY <1>1, BoardInvariant, PTL DEF Spec, JoiningKeepsNights


-----------------------------------------------------------------------------
(* The queries *)

\* A least number of a set is its minimum.
LEMMA MinIs ==
  ASSUME NEW S \in SUBSET Int, NEW m \in S, \A k \in S : m <= k
  PROVE  Min(S) = m
<1>1. Min(S) \in S /\ \A k \in S : Min(S) <= k
  BY DEF Min
<1>2. Min(S) \in Int /\ m \in Int /\ m <= Min(S) /\ Min(S) <= m
  BY <1>1
<1>. QED
  BY <1>2

\* A greatest number of a set is its maximum.
LEMMA MaxIs ==
  ASSUME NEW S \in SUBSET Int, NEW m \in S, \A k \in S : k <= m
  PROVE  Max(S) = m
<1>1. Max(S) \in S /\ \A k \in S : Max(S) >= k
  BY DEF Max
<1>2. Max(S) \in Int /\ m \in Int /\ Max(S) <= m /\ Max(S) >= m
  BY <1>1
<1>. QED
  BY <1>2

\* Of n numbers one is the least.
LEMMA LeastOfSome ==
  ASSUME NEW f, NEW n \in Nat \ {0}, \A i \in 1 .. n : f[i] \in Int
  PROVE  \E i \in 1 .. n : \A j \in 1 .. n : f[i] <= f[j]
<1>. DEFINE HasLeast(k) == \E i \in 1 .. k : \A j \in 1 .. k : f[i] <= f[j]
            N == {k \in Nat : k + 1 <= n => HasLeast(k + 1)}
<1>1. 0 \in N
  OBVIOUS
<1>2. ASSUME NEW k \in Nat, k \in N PROVE k + 1 \in N
  <2>. SUFFICES ASSUME k + 2 <= n PROVE HasLeast(k + 2)
    OBVIOUS
  <2>1. PICK i \in 1 .. k + 1 : \A j \in 1 .. k + 1 : f[i] <= f[j]
    BY <1>2
  <2>2. f[i] \in Int /\ f[k + 2] \in Int /\ \A j \in 1 .. k + 2 : j = k + 2 \/ j \in 1 .. k + 1
    OBVIOUS
  <2>3. CASE f[i] <= f[k + 2]
    BY <2>1, <2>2, <2>3
  <2>4. CASE f[k + 2] < f[i]
    <3>1. \A j \in 1 .. k + 2 : f[k + 2] <= f[j]
      BY <2>1, <2>2, <2>4
    <3>. QED
      BY <3>1
  <2>. QED
    BY <2>2, <2>3, <2>4
<1>3. n - 1 \in Nat /\ n - 1 \in N
  <2>. HIDE DEF N
  <2>. QED
    BY <1>1, <1>2, SetInduction
<1>. QED
  BY <1>3

\* A night of a room is taken by a reservation on the board when an atom in the row has it.
LEMMA NightsOfRow ==
  ASSUME NEW board, NEW rows, IsBoard(board, rows), NEW room \in Rooms, NEW date \in Dates
  PROVE  (\E i \in DOMAIN board : <<room, date>> \in Nights(board[i].atoms)) <=>
           \E k \in DOMAIN rows[room] : HasDate(rows[room][k], date)
<1>1. (\E i \in DOMAIN board : <<room, date>> \in Nights(board[i].atoms)) <=>
        \E i \in DOMAIN board : \E n \in DOMAIN board[i].atoms :
          board[i].atoms[n].room = room /\ HasDate(board[i].atoms[n], date)
  BY DEF Nights
<1>2. (\E k \in DOMAIN rows[room] : HasDate(rows[room][k], date)) <=>
        \E a \in PointersOf(room, board) : HasDate(a, date)
  BY DEF IsBoard, IsRowOf, ToSet
<1>3. \A i, n : HasDate(PointerTo(board[i].address, board[i].atoms, n), date) <=> HasDate(board[i].atoms[n], date)
  BY DEF HasDate, PointerTo
<1>4. (\E a \in PointersOf(room, board) : HasDate(a, date)) <=>
        \E i \in DOMAIN board : \E n \in DOMAIN board[i].atoms :
          board[i].atoms[n].room = room /\ HasDate(board[i].atoms[n], date)
  BY <1>3, OnBoard
<1>. QED
  BY <1>1, <1>2, <1>4

\* upper_bound in getAvailableDaysFrom, on a row of atoms side by side: the first atom that ends
\* after the date has the first night that is taken.
LEMMA AvailableDays ==
  ASSUME NEW row, NEW atoms, IsRowOf(row, atoms), NEW date \in Dates, NEW taken,
         \A d : d \in taken <=> d \in Dates /\ date <= d /\ \E k \in DOMAIN row : HasDate(row[k], d)
  PROVE  AvailableDaysFound(row, EndingAfter(row, date), date) = IF taken = {} THEN Forever ELSE Min(taken) - date
<1>1. /\ Len(row) \in Nat /\ DOMAIN row = 1 .. Len(row) /\ date \in Int
      /\ \A k \in DOMAIN row : row[k] \in RowAtom /\ row[k].from \in Int /\ row[k].to \in Int /\ row[k].from < row[k].to
      /\ \A k, l \in DOMAIN row : k < l => row[k].to <= row[l].from
  BY RowPlaces, DatesAssumption DEF IsRowOf
<1>. DEFINE found == EndingAfter(row, date)
<1>2. found \in SUBSET Nat /\ \A k : k \in found <=> k \in DOMAIN row /\ date < row[k].to
  BY <1>1 DEF EndingAfter
<1>. HIDE DEF found
<1>3. taken \in SUBSET Int
  BY DatesAssumption
<1>4. \A d \in taken : \E k \in found : row[k].from <= d /\ d < row[k].to
  <2>. SUFFICES ASSUME NEW d \in taken PROVE \E k \in found : row[k].from <= d /\ d < row[k].to
    OBVIOUS
  <2>1. PICK k \in DOMAIN row : HasDate(row[k], d)
    OBVIOUS
  <2>2. row[k].from <= d /\ d < row[k].to /\ date <= d /\ d \in Int
    BY <1>3, <2>1 DEF HasDate
  <2>. QED
    BY <1>1, <1>2, <2>2
<1>5. CASE found = {}
  BY <1>4, <1>5 DEF AvailableDaysFound, found
<1>6. CASE found # {}
  <2>1. PICK m \in found : \A k \in found : m <= k
    BY <1>2, <1>6, LeastNumber
  <2>2. Min(found) = m
    BY <1>2, <2>1, MinIs
  <2>3. m \in DOMAIN row /\ row[m].from \in Dates /\ row[m].from \in Int /\ row[m].to \in Int /\ date < row[m].to
        /\ row[m].from < row[m].to
    BY <1>1, <1>2, <2>1 DEF RowAtom
  <2>4. \A d \in taken : row[m].from <= d
    <3>. SUFFICES ASSUME NEW d \in taken PROVE row[m].from <= d
      OBVIOUS
    <3>1. PICK k \in found : row[k].from <= d /\ d < row[k].to
      BY <1>4
    <3>2. m = k \/ m < k
      BY <1>2, <2>1
    <3>. QED
      BY <1>1, <1>2, <1>3, <2>3, <3>1, <3>2
  <2>. DEFINE first == IF date <= row[m].from THEN row[m].from ELSE date
  <2>5. first \in taken /\ \A d \in taken : first <= d
    <3>1. first \in Dates /\ date <= first /\ HasDate(row[m], first)
      BY <1>1, <2>3 DEF HasDate
    <3>2. first \in taken
      BY <2>3, <3>1
    <3>. QED
      BY <1>3, <2>4, <3>2
  <2>6. Min(taken) = first
    <3>. HIDE DEF first
    <3>. QED
      BY <1>3, <2>5, MinIs
  <2>7. Max({0, row[m].from - date}) = first - date
    <3>1. {0, row[m].from - date} \in SUBSET Int /\ first - date \in {0, row[m].from - date}
          /\ \A k \in {0, row[m].from - date} : k <= first - date
      <4>1. CASE date <= row[m].from
        BY <1>1, <2>3, <4>1
      <4>2. CASE ~(date <= row[m].from)
        BY <1>1, <2>3, <4>2
      <4>. QED
        BY <4>1, <4>2
    <3>. HIDE DEF first
    <3>. QED
      BY <3>1, MaxIs
  <2>. QED
    BY <1>6, <2>2, <2>5, <2>6, <2>7 DEF AvailableDaysFound, found
<1>. QED
  BY <1>5, <1>6

\* The back of a row and the front of one, for a reservation on the board: each atom of it lies
\* within its stay, from its first atom to its last.
LEMMA AtomsWithinStay ==
  ASSUME NEW atoms \in Seq(Atom), IsValid(atoms)
  PROVE  /\ DateRange(atoms) = [from |-> atoms[1].from, to |-> atoms[Len(atoms)].to]
         /\ 1 \in DOMAIN atoms /\ Len(atoms) \in DOMAIN atoms
         /\ \A n \in DOMAIN atoms : atoms[1].from <= atoms[n].from /\ atoms[n].to <= atoms[Len(atoms)].to
<1>1. /\ Len(atoms) \in Nat \ {0} /\ DOMAIN atoms = 1 .. Len(atoms)
      /\ \A i \in 1 .. Len(atoms) : atoms[i].from \in Int /\ atoms[i].to \in Int /\ atoms[i].from < atoms[i].to
      /\ \A i, j \in 1 .. Len(atoms) : i < j => atoms[i].to <= atoms[j].from
  BY ValidAtoms
<1>2. ASSUME NEW n \in DOMAIN atoms PROVE atoms[1].from <= atoms[n].from /\ atoms[n].to <= atoms[Len(atoms)].to
  <2>1. n = 1 \/ 1 < n
    BY <1>1
  <2>2. n = Len(atoms) \/ n < Len(atoms)
    BY <1>1
  <2>3. 1 \in 1 .. Len(atoms) /\ Len(atoms) \in 1 .. Len(atoms) /\ n \in 1 .. Len(atoms)
    BY <1>1
  <2>4. atoms[1].from <= atoms[n].from
    BY <1>1, <2>1, <2>3
  <2>5. atoms[n].to <= atoms[Len(atoms)].to
    BY <1>1, <2>2, <2>3
  <2>. QED
    BY <2>4, <2>5
<1>. QED
  BY <1>1, <1>2 DEF DateRange, FirstAtom, LastAtom

\* The front of a row begins first in it, and the back ends last.
LEMMA FrontAndBack ==
  ASSUME NEW row, NEW atoms, IsRowOf(row, atoms), row # << >>
  PROVE  /\ 1 \in DOMAIN row /\ Len(row) \in DOMAIN row
         /\ row[1] \in atoms /\ row[Len(row)] \in atoms
         /\ \A a \in atoms : a.from \in Int /\ a.to \in Int /\ row[1].from <= a.from /\ a.to <= row[Len(row)].to
<1>1. /\ Len(row) \in Nat /\ DOMAIN row = 1 .. Len(row) /\ Len(row) # 0
      /\ \A k \in DOMAIN row : row[k].from \in Int /\ row[k].to \in Int /\ row[k].from < row[k].to
      /\ \A k, l \in DOMAIN row : k < l => row[k].to <= row[l].from
  BY RowPlaces, EmptySeq DEF IsRowOf
<1>2. 1 \in DOMAIN row /\ Len(row) \in DOMAIN row
  BY <1>1
<1>3. ASSUME NEW a \in atoms
      PROVE  a.from \in Int /\ a.to \in Int /\ row[1].from <= a.from /\ a.to <= row[Len(row)].to
  <2>1. PICK k \in DOMAIN row : row[k] = a
    BY DEF IsRowOf, ToSet
  <2>2. k = 1 \/ 1 < k
    BY <1>1
  <2>3. k = Len(row) \/ k < Len(row)
    BY <1>1
  <2>4. row[1].from <= row[k].from
    BY <1>1, <1>2, <2>2
  <2>5. row[k].to <= row[Len(row)].to
    BY <1>1, <1>2, <2>3
  <2>. QED
    BY <1>1, <2>1, <2>4, <2>5
<1>. QED
  BY <1>2, <1>3 DEF IsRowOf, ToSet


\* getPlanningExtent: the earliest front and the latest back of the rows belong to the first and
\* to the last stay.
LEMMA ExtentOfBoard ==
  ASSUME IsBoard(reservations, rooms), reservations # << >>,
         NEW ranges, ranges = {DateRange(reservations[i].atoms) : i \in DOMAIN reservations}
  PROVE  GetPlanningExtent = [from |-> Min({r.from : r \in ranges}), to |-> Max({r.to : r \in ranges})]
<1>. DEFINE Begin(i) == reservations[i].atoms[1].from
            End(i) == reservations[i].atoms[Len(reservations[i].atoms)].to
            L == Len(reservations)
            inRows == {rooms[room] : room \in {r \in Rooms : rooms[r] # << >>}}
            fronts == {row[1].from : row \in inRows}
            backs == {row[Len(row)].to : row \in inRows}
<1>1. /\ L \in Nat \ {0} /\ DOMAIN reservations = 1 .. L
      /\ \A i \in 1 .. L : reservations[i].atoms \in Seq(Atom) /\ IsValid(reservations[i].atoms)
  <2>1. L \in Nat /\ DOMAIN reservations = 1 .. L
        /\ \A i \in 1 .. L : reservations[i].atoms \in Seq(Atom) /\ IsValid(reservations[i].atoms)
    BY OnBoard
  <2>2. reservations \in Seq(BoardReservation)
    BY DEF IsBoard
  <2>. QED
    BY <2>1, <2>2, EmptySeq
<1>2. ASSUME NEW i \in 1 .. L
      PROVE  /\ Begin(i) \in Int /\ End(i) \in Int
             /\ DateRange(reservations[i].atoms) = [from |-> Begin(i), to |-> End(i)]
             /\ 1 \in DOMAIN reservations[i].atoms /\ Len(reservations[i].atoms) \in DOMAIN reservations[i].atoms
             /\ \A n \in DOMAIN reservations[i].atoms :
                  /\ reservations[i].atoms[n].room \in Rooms
                  /\ Begin(i) <= reservations[i].atoms[n].from
                  /\ reservations[i].atoms[n].to <= End(i)
  <2>. DEFINE atoms == reservations[i].atoms
  <2>1. atoms \in Seq(Atom) /\ IsValid(atoms)
    BY <1>1
  <2>. HIDE DEF atoms
  <2>2. /\ DOMAIN atoms = 1 .. Len(atoms) /\ Len(atoms) \in Nat \ {0}
        /\ \A n \in 1 .. Len(atoms) : atoms[n] \in Atom /\ atoms[n].from \in Int /\ atoms[n].to \in Int
    BY <2>1, ValidAtoms
  <2>3. \A n \in DOMAIN atoms : atoms[n].room \in Rooms
    BY <2>2 DEF Atom
  <2>4. /\ DateRange(atoms) = [from |-> atoms[1].from, to |-> atoms[Len(atoms)].to]
        /\ 1 \in DOMAIN atoms /\ Len(atoms) \in DOMAIN atoms
        /\ \A n \in DOMAIN atoms : atoms[1].from <= atoms[n].from /\ atoms[n].to <= atoms[Len(atoms)].to
    BY <2>1, AtomsWithinStay
  <2>. QED
    BY <2>2, <2>3, <2>4 DEF atoms
<1>3. {r.from : r \in ranges} = {Begin(i) : i \in 1 .. L} /\ {r.to : r \in ranges} = {End(i) : i \in 1 .. L}
  <2>1. ranges = {[from |-> Begin(i), to |-> End(i)] : i \in 1 .. L}
    BY <1>1, <1>2
  <2>. DEFINE stay == [i \in 1 .. L |-> [from |-> Begin(i), to |-> End(i)]]
  <2>2. \A i \in 1 .. L : stay[i].from = Begin(i) /\ stay[i].to = End(i)
    OBVIOUS
  <2>3. ranges = {stay[i] : i \in 1 .. L}
    BY <2>1
  <2>. HIDE DEF Begin, End, stay
  <2>4. {r.from : r \in ranges} = {stay[i].from : i \in 1 .. L} /\ {r.to : r \in ranges} = {stay[i].to : i \in 1 .. L}
    <3>1. \A r : r \in ranges <=> \E i \in 1 .. L : r = stay[i]
      BY <2>3
    <3>2. {r.from : r \in ranges} = {stay[i].from : i \in 1 .. L}
      BY ONLY <3>1
    <3>3. {r.to : r \in ranges} = {stay[i].to : i \in 1 .. L}
      BY ONLY <3>1
    <3>. QED
      BY <3>2, <3>3
  <2>5. {stay[i].from : i \in 1 .. L} = {Begin(i) : i \in 1 .. L} /\ {stay[i].to : i \in 1 .. L} = {End(i) : i \in 1 .. L}
    BY <2>2
  <2>. QED
    BY <2>4, <2>5
<1>4. PICK e \in 1 .. L : \A j \in 1 .. L : Begin(e) <= Begin(j)
  <2>. DEFINE f == [i \in 1 .. L |-> Begin(i)]
  <2>1. \A i \in 1 .. L : f[i] \in Int /\ f[i] = Begin(i)
    BY <1>2
  <2>. HIDE DEF f, Begin
  <2>2. \E i \in 1 .. L : \A j \in 1 .. L : f[i] <= f[j]
    BY <1>1, <2>1, LeastOfSome
  <2>. QED
    BY <2>1, <2>2
<1>5. PICK l \in 1 .. L : \A j \in 1 .. L : End(j) <= End(l)
  <2>. DEFINE f == [i \in 1 .. L |-> 0 - End(i)]
  <2>. HIDE DEF End
  <2>1. \A i \in 1 .. L : End(i) \in Int
    BY <1>2
  <2>4. \A i \in 1 .. L : f[i] \in Int /\ f[i] = 0 - End(i) /\ End(i) \in Int
    BY <2>1
  <2>. HIDE DEF f
  <2>2. \E i \in 1 .. L : \A j \in 1 .. L : f[i] <= f[j]
    BY <1>1, <2>4, LeastOfSome
  <2>3. PICK i \in 1 .. L : \A j \in 1 .. L : f[i] <= f[j]
    BY <2>2
  <2>5. \A j \in 1 .. L : End(j) <= End(i)
    BY <2>3, <2>4
  <2>. QED
    BY <2>5
<1>6. ASSUME NEW i \in 1 .. L, NEW n \in DOMAIN reservations[i].atoms
      PROVE  \E row \in inRows : /\ row[1].from \in Int /\ row[1].from <= reservations[i].atoms[n].from
                                 /\ row[Len(row)].to \in Int /\ reservations[i].atoms[n].to <= row[Len(row)].to
  <2>. DEFINE room == reservations[i].atoms[n].room
              a == PointerTo(reservations[i].address, reservations[i].atoms, n)
  <2>1. room \in Rooms
    BY <1>2
  <2>2. a \in PointersOf(room, reservations)
    BY <1>1, <2>1, OnBoard
  <2>3. IsRowOf(rooms[room], PointersOf(room, reservations))
    BY <2>1 DEF IsBoard
  <2>4. rooms[room] # << >>
    <3>. HIDE DEF a, room
    <3>1. \E k \in DOMAIN rooms[room] : rooms[room][k] = a
      BY <2>2, <2>3 DEF IsRowOf, ToSet
    <3>. QED
      BY <3>1, EmptySeq
  <2>5. a.from = reservations[i].atoms[n].from /\ a.to = reservations[i].atoms[n].to
    BY DEF PointerTo
  <2>. HIDE DEF a, room
  <2>6. /\ 1 \in DOMAIN rooms[room] /\ Len(rooms[room]) \in DOMAIN rooms[room]
        /\ rooms[room][1].from \in Int /\ rooms[room][1].from <= a.from
        /\ rooms[room][Len(rooms[room])].to \in Int /\ a.to <= rooms[room][Len(rooms[room])].to
    BY <2>2, <2>3, <2>4, FrontAndBack
  <2>. QED
    BY <2>1, <2>4, <2>5, <2>6
<1>7. ASSUME NEW row \in inRows
      PROVE  /\ row[1].from \in Int /\ Begin(e) <= row[1].from
             /\ row[Len(row)].to \in Int /\ row[Len(row)].to <= End(l)
  <2>1. PICK room \in Rooms : row = rooms[room] /\ row # << >>
    OBVIOUS
  <2>. HIDE DEF inRows
  <2>2. IsRowOf(row, PointersOf(room, reservations))
    BY <2>1 DEF IsBoard
  <2>3. /\ row[1] \in PointersOf(room, reservations) /\ row[Len(row)] \in PointersOf(room, reservations)
        /\ row[1].from \in Int /\ row[Len(row)].to \in Int
    BY <2>1, <2>2, FrontAndBack
  <2>4. ASSUME NEW a \in PointersOf(room, reservations)
        PROVE  \E i \in 1 .. L : Begin(i) <= a.from /\ a.to <= End(i)
    <3>1. PICK i \in 1 .. L : \E n \in DOMAIN reservations[i].atoms :
            a = PointerTo(reservations[i].address, reservations[i].atoms, n)
      BY <1>1, OnBoard
    <3>2. PICK n \in DOMAIN reservations[i].atoms :
            a.from = reservations[i].atoms[n].from /\ a.to = reservations[i].atoms[n].to
      BY <3>1 DEF PointerTo
    <3>. QED
      BY <1>2, <3>2
  <2>. HIDE DEF Begin, End
  <2>5. PICK i \in 1 .. L : Begin(i) <= row[1].from
    BY <2>3, <2>4
  <2>6. PICK j \in 1 .. L : row[Len(row)].to <= End(j)
    BY <2>3, <2>4
  <2>7. Begin(e) <= Begin(i) /\ End(j) <= End(l)
    BY <1>4, <1>5
  <2>8. Begin(e) \in Int /\ Begin(i) \in Int /\ End(j) \in Int /\ End(l) \in Int
    BY <1>2
  <2>9. Begin(e) <= row[1].from
    <3>. DEFINE x == row[1].from
    <3>1. x \in Int /\ Begin(i) <= x
      BY <2>3, <2>5
    <3>. HIDE DEF x
    <3>2. Begin(e) <= x
      BY <2>7, <2>8, <3>1, SMTT(20)
    <3>. QED
      BY <3>2 DEF x
  <2>10. row[Len(row)].to <= End(l)
    <3>. DEFINE x == row[Len(row)].to
    <3>1. x \in Int /\ x <= End(j)
      BY <2>3, <2>6
    <3>. HIDE DEF x
    <3>2. x <= End(l)
      BY <2>7, <2>8, <3>1, SMTT(20)
    <3>. QED
      BY <3>2 DEF x
  <2>. QED
    BY <2>3, <2>9, <2>10
<1>8. /\ fronts \in SUBSET Int /\ Begin(e) \in fronts /\ \A x \in fronts : Begin(e) <= x
      /\ backs \in SUBSET Int /\ End(l) \in backs /\ \A x \in backs : x <= End(l)
  <2>1. PICK row \in inRows : row[1].from \in Int /\ row[1].from <= Begin(e)
    BY <1>2, <1>6
  <2>2. PICK other \in inRows : other[Len(other)].to \in Int /\ End(l) <= other[Len(other)].to
    BY <1>2, <1>6
  <2>3. Begin(e) \in Int /\ End(l) \in Int
    BY <1>2
  <2>. HIDE DEF inRows, Begin, End
  <2>4. row[1].from = Begin(e) /\ other[Len(other)].to = End(l)
    BY <1>7, <2>1, <2>2, <2>3
  <2>. QED
    BY <1>7, <2>4
<1>9. Min(fronts) = Begin(e) /\ Max(backs) = End(l)
  <2>. HIDE DEF fronts, backs, Begin, End
  <2>. QED
    BY <1>8, MinIs, MaxIs
<1>10. Min({Begin(i) : i \in 1 .. L}) = Begin(e) /\ Max({End(i) : i \in 1 .. L}) = End(l)
  <2>. DEFINE begins == {Begin(i) : i \in 1 .. L}
              ends == {End(i) : i \in 1 .. L}
  <2>1. /\ begins \in SUBSET Int /\ Begin(e) \in begins /\ \A x \in begins : Begin(e) <= x
        /\ ends \in SUBSET Int /\ End(l) \in ends /\ \A x \in ends : x <= End(l)
    <3>1. \A i \in 1 .. L : Begin(i) \in Int /\ End(i) \in Int
      BY <1>2
    <3>. HIDE DEF Begin, End
    <3>. QED
      BY <1>4, <1>5, <3>1
  <2>. HIDE DEF begins, ends, Begin, End
  <2>2. Min(begins) = Begin(e) /\ Max(ends) = End(l)
    BY <2>1, MinIs, MaxIs
  <2>. QED
    BY <2>2 DEF begins, ends
<1>11. GetPlanningExtent = [from |-> Min(fronts), to |-> Max(backs)]
  BY DEF GetPlanningExtent
<1>. QED
  BY <1>3, <1>9, <1>10, <1>11

\* getAvailableDaysFrom and getPlanningExtent, which look at one atom of a row only, answer for
\* all of the reservations on the board.
THEOREM QueriesAreRight == Spec => []QueriesTellTheTruth
<1>1. BoardInv => QueriesTellTheTruth
  <2>. SUFFICES ASSUME IsBoard(reservations, rooms) PROVE QueriesTellTheTruth
    BY DEF BoardInv
  <2>1. ASSUME NEW room \in Rooms, NEW date \in Dates,
               NEW taken, taken = {d \in Dates : d >= date /\ Taken(room, d)}
        PROVE  GetAvailableDaysFrom(room, date) = IF taken = {} THEN Forever ELSE Min(taken) - date
    <3>1. IsRowOf(rooms[room], PointersOf(room, reservations))
      BY DEF IsBoard
    <3>2. \A d : d \in taken <=> d \in Dates /\ date <= d /\ \E k \in DOMAIN rooms[room] : HasDate(rooms[room][k], d)
      <4>1. \A d \in Dates : Taken(room, d) <=> \E k \in DOMAIN rooms[room] : HasDate(rooms[room][k], d)
        BY NightsOfRow DEF Taken
      <4>. QED
        BY <2>1, <4>1, DatesAssumption
    <3>. QED
      BY <3>1, <3>2, AvailableDays DEF GetAvailableDaysFrom
  <2>. QED
    BY <2>1, ExtentOfBoard DEF QueriesTellTheTruth
<1>. QED
  BY <1>1, BoardInvariant, PTL


-----------------------------------------------------------------------------
(* Ghosts: atoms without a night in common *)

\* No room is taken by both on the same night.
Apart(a, b) ==
  \A i \in DOMAIN a, j \in DOMAIN b, d \in Dates :
    ~(a[i].room = b[j].room /\ HasDate(a[i], d) /\ HasDate(b[j], d))

\* A night of a room that none of the atoms has.
HasNight(atoms, room, d) == \E i \in DOMAIN atoms : atoms[i].room = room /\ HasDate(atoms[i], d)

\* Two reservations are apart if they have no night of a room in common, ...
LEMMA ApartMeans ==
  ASSUME NEW a, NEW b
  PROVE  (Nights(a) \cap Nights(b) = {}) <=> Apart(a, b)
<1>1. \A n : n \in Nights(a) <=> \E i \in DOMAIN a, d \in Dates : HasDate(a[i], d) /\ n = <<a[i].room, d>>
  BY DEF Nights
<1>2. \A n : n \in Nights(b) <=> \E i \in DOMAIN b, d \in Dates : HasDate(b[i], d) /\ n = <<b[i].room, d>>
  BY DEF Nights
<1>3. ASSUME Nights(a) \cap Nights(b) = {} PROVE Apart(a, b)
  <2>. SUFFICES ASSUME NEW i \in DOMAIN a, NEW j \in DOMAIN b, NEW d \in Dates,
                       a[i].room = b[j].room, HasDate(a[i], d), HasDate(b[j], d)
                PROVE  FALSE
    BY DEF Apart
  <2>1. <<a[i].room, d>> \in Nights(a) /\ <<a[i].room, d>> \in Nights(b)
    BY <1>1, <1>2
  <2>. QED
    BY <1>3, <2>1
<1>4. ASSUME Apart(a, b), NEW n \in Nights(a), n \in Nights(b) PROVE FALSE
  <2>1. PICK i \in DOMAIN a, d \in Dates : HasDate(a[i], d) /\ n = <<a[i].room, d>>
    BY <1>1
  <2>2. PICK j \in DOMAIN b, e \in Dates : HasDate(b[j], e) /\ n = <<b[j].room, e>>
    BY <1>2, <1>4
  <2>3. d = e /\ a[i].room = b[j].room
    BY <2>1, <2>2
  <2>. QED
    BY <1>4, <2>1, <2>2, <2>3 DEF Apart
<1>. QED
  BY <1>3, <1>4

\* ... which goes both ways, ...
LEMMA ApartSymmetric ==
  ASSUME NEW a, NEW b, Apart(a, b)
  PROVE  Apart(b, a)
BY DEF Apart

\* What Reservation::intersectsWith does not find to intersect has no night in common.
LEMMA BesideIsApart ==
  ASSUME NEW a \in Seq(Atom), NEW b \in Seq(Atom), ~IntersectsWith(a, b)
  PROVE  Apart(a, b)
<1>. SUFFICES ASSUME NEW i \in DOMAIN a, NEW j \in DOMAIN b, NEW d \in Dates,
                     a[i].room = b[j].room, HasDate(a[i], d), HasDate(b[j], d)
              PROVE  FALSE
  BY DEF Apart
<1>1. /\ a[i].from \in Int /\ a[i].to \in Int /\ b[j].from \in Int /\ b[j].to \in Int /\ d \in Int
  <2>1. a[i] \in Atom /\ b[j] \in Atom
    BY LenProperties, ElementOfSeq
  <2>. QED
    BY <2>1, DatesAssumption DEF Atom
<1>2. Intersects(a[i], b[j])
  BY <1>1 DEF Intersects, HasDate
<1>. QED
  BY <1>2 DEF IntersectsWith

\* An atom more, whose nights the other one does not have.
LEMMA ApartWithAtom ==
  ASSUME NEW a \in Seq(Atom), NEW b, Apart(a, b), NEW atom \in Atom,
         \A d \in Dates : HasDate(atom, d) => ~HasNight(b, atom.room, d)
  PROVE  Apart(Append(a, atom), b)
<1>. DEFINE longer == Append(a, atom)
<1>1. /\ Len(a) \in Nat /\ DOMAIN a = 1 .. Len(a) /\ DOMAIN longer = 1 .. Len(a) + 1
      /\ \A i \in 1 .. Len(a) : longer[i] = a[i]
      /\ longer[Len(a) + 1] = atom
  <2>1. longer \in Seq(Atom) /\ Len(longer) = Len(a) + 1 /\ Len(a) \in Nat /\ DOMAIN a = 1 .. Len(a)
    BY AppendProperties, LenProperties
  <2>2. DOMAIN longer = 1 .. Len(longer)
    BY <2>1, LenProperties
  <2>3. longer[Len(a) + 1] = atom /\ \A i \in 1 .. Len(a) : longer[i] = a[i]
    BY <2>1, AppendProperties
  <2>. QED
    BY <2>1, <2>2, <2>3
<1>. HIDE DEF longer
<1>. SUFFICES ASSUME NEW i \in DOMAIN longer, NEW j \in DOMAIN b, NEW d \in Dates,
                     longer[i].room = b[j].room, HasDate(longer[i], d), HasDate(b[j], d)
              PROVE  FALSE
  BY DEF Apart, longer
<1>2. CASE i \in DOMAIN a
  BY <1>1, <1>2 DEF Apart
<1>3. CASE i = Len(a) + 1
  BY <1>1, <1>3 DEF HasNight
<1>. QED
  BY <1>1, <1>2, <1>3

\* An atom less
LEMMA ApartWithoutLast ==
  ASSUME NEW a \in Seq(Atom), NEW b, Apart(a, b)
  PROVE  Apart(RemovedLast(a), b)
<1>1. CASE a = << >>
  BY <1>1 DEF RemovedLast
<1>2. CASE a # << >>
  <2>1. Len(a) \in Nat /\ DOMAIN a = 1 .. Len(a) /\ Len(a) # 0
    BY <1>2, LenProperties, EmptySeq
  <2>2. /\ RemovedLast(a) \in Seq(Atom) /\ Len(RemovedLast(a)) = Len(a) - 1
        /\ \A i \in 1 .. Len(a) - 1 : RemovedLast(a)[i] = a[i]
    BY <1>2, <2>1, SubSeqProperties DEF RemovedLast
  <2>3. DOMAIN RemovedLast(a) = 1 .. Len(a) - 1
    BY <2>2, LenProperties
  <2>. QED
    BY <2>1, <2>2, <2>3 DEF Apart
<1>. QED
  BY <1>1, <1>2

\* ... and one without atoms is apart from all.
LEMMA EmptyIsApart ==
  ASSUME NEW a
  PROVE  Apart(<< >>, a) /\ Apart(a, << >>)
BY EmptySeq DEF Apart


-----------------------------------------------------------------------------
(* NewReservationTool draws where it is free *)

\* Of numbers from a bound on, one is the least.
LEMMA LeastFrom ==
  ASSUME NEW S \in SUBSET Int, S # {}, NEW bound \in Int, \A k \in S : bound <= k
  PROVE  Min(S) \in S /\ \A k \in S : Min(S) <= k
<1>. DEFINE N == {k - bound : k \in S}
<1>1. N \in SUBSET Nat /\ N # {}
  <2>1. \A k \in S : k - bound \in Nat
    OBVIOUS
  <2>. QED
    BY <2>1
<1>2. PICK n \in N : \A k \in N : n <= k
  <2>. HIDE DEF N
  <2>. QED
    BY <1>1, LeastNumber
<1>3. n + bound \in S /\ \A k \in S : n + bound <= k
  <2>1. PICK k \in S : n = k - bound
    OBVIOUS
  <2>2. \A l \in S : n <= l - bound
    BY <1>2
  <2>. QED
    BY <2>1, <2>2
<1>. HIDE DEF N
<1>4. Min(S) = n + bound
  BY <1>3, MinIs
<1>. QED
  BY <1>3, <1>4

\* All dates come before std::numeric_limits<int>::max().
LEMMA DatesBeforeForever == Dates \in SUBSET Int /\ Forever \in Int /\ \A d \in Dates : 0 <= d /\ d < Forever
<1>1. Forever \in Int
  BY SMT DEF Forever
<1>2. Dates \subseteq 0 .. Forever - 1
  BY ToolsAssumption
<1>. QED
  BY <1>1, <1>2

\* On a board, Taken looks at the atoms of the room.
LEMMA TakenMeans ==
  ASSUME NEW room, NEW d \in Dates
  PROVE  Taken(room, d) <=> \E i \in DOMAIN reservations : HasNight(reservations[i].atoms, room, d)
BY DEF Taken, Nights, HasNight

\* The date up to which a room is free of reservations is one of the board's, or Forever.
LEMMA AvailableUntilDate ==
  ASSUME IsBoard(reservations, rooms), NEW room \in Rooms, NEW from \in Dates
  PROVE  LET until == AfterDays(from, GetAvailableDaysFrom(room, from))
         IN  /\ until \in Dates \cup {Forever} /\ from <= until
             /\ \A d \in Dates : from <= d /\ d < until => ~Taken(room, d)
<1>. DEFINE taken == {d \in Dates : d >= from /\ Taken(room, d)}
            days == GetAvailableDaysFrom(room, from)
            until == AfterDays(from, days)
<1>1. Dates \in SUBSET Int /\ from \in Int /\ Forever \in Int /\ \A d \in Dates : 0 <= d /\ d < Forever
  BY DatesBeforeForever
<1>2. days = IF taken = {} THEN Forever ELSE Min(taken) - from
  <2>1. IsRowOf(rooms[room], PointersOf(room, reservations))
    BY DEF IsBoard
  <2>2. \A d : d \in taken <=> d \in Dates /\ from <= d /\ \E k \in DOMAIN rooms[room] : HasDate(rooms[room][k], d)
    <3>1. \A d \in Dates : Taken(room, d) <=> \E k \in DOMAIN rooms[room] : HasDate(rooms[room][k], d)
      BY NightsOfRow DEF Taken
    <3>. QED
      BY <1>1, <3>1
  <2>. HIDE DEF taken
  <2>. QED
    BY <2>1, <2>2, AvailableDays DEF GetAvailableDaysFrom
<1>3. CASE taken = {}
  <2>1. until = Forever
    BY <1>2, <1>3 DEF AfterDays
  <2>2. \A d \in Dates : from <= d => ~Taken(room, d)
    BY <1>1, <1>3
  <2>. QED
    BY <1>1, <2>1, <2>2
<1>4. CASE taken # {}
  <2>1. Min(taken) \in taken /\ \A d \in taken : Min(taken) <= d
    <3>1. taken \in SUBSET Int /\ \A d \in taken : from <= d
      BY <1>1
    <3>. HIDE DEF taken
    <3>. QED
      BY <1>1, <1>4, <3>1, LeastFrom
  <2>2. Min(taken) \in Dates /\ from <= Min(taken) /\ Min(taken) \in Int
    BY <1>1, <2>1
  <2>3. days # Forever
    <3>1. Min(taken) - from < Forever
      BY <1>1, <2>2
    <3>. HIDE DEF taken
    <3>. QED
      BY <1>1, <1>2, <1>4, <2>2, <3>1
  <2>4. until = Min(taken)
    <3>. HIDE DEF taken, days
    <3>. QED
      BY <1>1, <1>2, <1>4, <2>2, <2>3 DEF AfterDays
  <2>5. \A d \in Dates : from <= d /\ d < Min(taken) => ~Taken(room, d)
    <3>. SUFFICES ASSUME NEW d \in Dates, from <= d, d < Min(taken), Taken(room, d) PROVE FALSE
      OBVIOUS
    <3>1. d \in taken
      BY <1>1
    <3>. HIDE DEF taken
    <3>. QED
      BY <1>1, <2>1, <2>2, <3>1
  <2>. HIDE DEF until, days, taken
  <2>6. until \in Dates \cup {Forever} /\ from <= until /\ \A d \in Dates : from <= d /\ d < until => ~Taken(room, d)
    BY <2>2, <2>4, <2>5
  <2>. QED
    BY <2>6 DEF until, days
<1>. QED
  BY <1>3, <1>4

\* A room is free of reservations and of drawn ghosts from a date up to another.
IsClear(room, from, to) ==
  \A d \in Dates : from <= d /\ d < to =>
    /\ \A i \in DOMAIN reservations : ~HasNight(reservations[i].atoms, room, d)
    /\ \A i \in DOMAIN ghosts : ~HasNight(ghosts[i], room, d)

\* computeMaximumDate
LEMMA MaximumDate ==
  ASSUME IsBoard(reservations, rooms), ghosts \in Seq(Seq(Atom)), NEW room \in Rooms, NEW from \in Dates
  PROVE  LET to == ComputeMaximumDate(room, from)
         IN  to \in Dates \cup {Forever} /\ from <= to /\ IsClear(room, from, to)
<1>. DEFINE atoms == {atom \in UNION {ToSet(ghosts[i]) : i \in DOMAIN ghosts} : atom.room = room}
            until == AfterDays(from, GetAvailableDaysFrom(room, from))
            later == {atom.from : atom \in {a \in atoms : from <= a.from}}
            S == {until} \cup later
            to == ComputeMaximumDate(room, from)
<1>1. Dates \in SUBSET Int /\ from \in Int /\ Forever \in Int /\ \A d \in Dates : 0 <= d /\ d < Forever
  BY DatesBeforeForever
<1>2. until \in Dates \cup {Forever} /\ from <= until /\ \A d \in Dates : from <= d /\ d < until => ~Taken(room, d)
  BY AvailableUntilDate
<1>3. \A a \in atoms : a \in Atom /\ a.from \in Dates /\ a.to \in Dates
  <2>. SUFFICES ASSUME NEW a \in atoms PROVE a \in Atom /\ a.from \in Dates /\ a.to \in Dates
    OBVIOUS
  <2>1. PICK i \in DOMAIN ghosts : a \in ToSet(ghosts[i])
    OBVIOUS
  <2>2. ghosts[i] \in Seq(Atom)
    BY <2>1, LenProperties, ElementOfSeq
  <2>3. PICK n \in DOMAIN ghosts[i] : a = ghosts[i][n]
    BY <2>1 DEF ToSet
  <2>4. a \in Atom
    BY <2>2, <2>3, LenProperties, ElementOfSeq
  <2>. QED
    BY <2>4 DEF Atom
<1>4. \A i \in DOMAIN ghosts, d \in Dates : HasNight(ghosts[i], room, d) => \E a \in atoms : a.from <= d /\ d < a.to
  BY DEF HasNight, ToSet, HasDate
<1>5. CASE \E atom \in atoms : HasDate(atom, from)
  <2>1. to = from
    BY <1>5 DEF ComputeMaximumDate
  <2>. HIDE DEF to
  <2>2. \A d \in Dates : ~(from <= d /\ d < to)
    BY <1>1, <2>1
  <2>3. to \in Dates \cup {Forever} /\ from <= to
    BY <1>1, <2>1
  <2>. QED
    BY <2>2, <2>3 DEF to, IsClear
<1>6. CASE ~\E atom \in atoms : HasDate(atom, from)
  <2>1. to = Min(S)
    BY <1>6 DEF ComputeMaximumDate
  <2>. HIDE DEF atoms, until, to
  <2>2. S \in SUBSET Int /\ S # {} /\ (\A k \in S : from <= k) /\ S \subseteq Dates \cup {Forever}
    BY <1>1, <1>2, <1>3
  <2>3. Min(S) \in S /\ \A k \in S : Min(S) <= k
    <3>. HIDE DEF S
    <3>. QED
      BY <1>1, <2>2, LeastFrom
  <2>4. to \in Dates \cup {Forever} /\ from <= to /\ to \in Int /\ to <= until
        /\ \A a \in atoms : from <= a.from => to <= a.from
    BY <2>1, <2>2, <2>3
  <2>. HIDE DEF S
  <2>5. ASSUME NEW d \in Dates, from <= d, d < to
        PROVE  /\ \A i \in DOMAIN reservations : ~HasNight(reservations[i].atoms, room, d)
               /\ \A i \in DOMAIN ghosts : ~HasNight(ghosts[i], room, d)
    <3>0. d \in Int /\ until \in Int /\ d < until
      BY <1>1, <1>2, <2>4, <2>5
    <3>1. ~Taken(room, d)
      BY <1>2, <2>5, <3>0
    <3>2. ASSUME NEW i \in DOMAIN ghosts, HasNight(ghosts[i], room, d) PROVE FALSE
      <4>1. PICK a \in atoms : a.from <= d /\ d < a.to
        BY <1>4, <3>2
      <4>2. a.from \in Int /\ a.to \in Int
        BY <1>1, <1>3
      <4>3. CASE from <= a.from
        BY <2>4, <2>5, <3>0, <4>1, <4>2, <4>3
      <4>4. CASE a.from < from
        <5>1. HasDate(a, from)
          BY <1>1, <2>5, <3>0, <4>1, <4>2, <4>4 DEF HasDate
        <5>. QED
          BY <1>6, <5>1
      <4>. QED
        BY <1>1, <4>2, <4>3, <4>4
    <3>. QED
      BY <3>1, <3>2, TakenMeans
  <2>. QED
    BY <2>4, <2>5 DEF to, IsClear
<1>. QED
  BY <1>5, <1>6

\* Dragging the mouse: the atom drawn is in a room and on nights that are clear, or there is none.
LEMMA DrawnAtom ==
  ASSUME IsBoard(reservations, rooms), ghosts \in Seq(Seq(Atom)),
         NEW atoms, NEW room \in Rooms, NEW from \in Dates, NEW date \in Dates
  PROVE  \/ DrawAtom(atoms, room, from, date) = atoms
         \/ \E to \in Dates : /\ from < to /\ IsClear(room, from, to)
                              /\ DrawAtom(atoms, room, from, date) = Append(atoms, [room |-> room, from |-> from, to |-> to])
<1>. DEFINE max == ComputeMaximumDate(room, from)
            reached == Max({date, from})
            to == Clipped(date, from, max)
<1>1. Dates \in SUBSET Int /\ from \in Int /\ date \in Int /\ Forever \in Int /\ \A d \in Dates : d < Forever
  BY DatesBeforeForever
<1>2. max \in Dates \cup {Forever} /\ from <= max /\ IsClear(room, from, max)
  BY MaximumDate
<1>. HIDE DEF max
<1>3. reached \in Dates /\ from <= reached
  <2>1. CASE date <= from
    <3>1. {date, from} \in SUBSET Int /\ from \in {date, from} /\ \A k \in {date, from} : k <= from
      BY <1>1, <2>1
    <3>2. Max({date, from}) = from
      BY <3>1, MaxIs
    <3>. QED
      BY <1>1, <3>2
  <2>2. CASE from < date
    <3>1. {date, from} \in SUBSET Int /\ date \in {date, from} /\ \A k \in {date, from} : k <= date
      BY <1>1, <2>2
    <3>2. Max({date, from}) = date
      BY <3>1, MaxIs
    <3>. QED
      BY <1>1, <2>2, <3>2
  <2>. QED
    BY <1>1, <2>1, <2>2
<1>. HIDE DEF reached
<1>4. to \in Dates /\ from <= to /\ to <= max
  <2>0. to = Min({reached, max})
    BY DEF Clipped, reached, max
  <2>1. CASE reached <= max
    <3>1. {reached, max} \in SUBSET Int /\ reached \in {reached, max} /\ \A k \in {reached, max} : reached <= k
      BY <1>1, <1>2, <1>3, <2>1
    <3>2. Min({reached, max}) = reached
      BY <3>1, MinIs
    <3>. QED
      BY <1>3, <2>0, <2>1, <3>2
  <2>2. CASE max < reached
    <3>0. max \in Dates
      BY <1>1, <1>2, <1>3, <2>2
    <3>1. {reached, max} \in SUBSET Int /\ max \in {reached, max} /\ \A k \in {reached, max} : max <= k
      BY <1>1, <1>3, <2>2, <3>0
    <3>2. Min({reached, max}) = max
      BY <3>1, MinIs
    <3>. QED
      BY <1>1, <1>2, <2>0, <3>0, <3>2
  <2>. QED
    BY <1>1, <1>2, <1>3, <2>1, <2>2
<1>5. DrawAtom(atoms, room, from, date) = IF to = from THEN atoms ELSE Append(atoms, [room |-> room, from |-> from, to |-> to])
  BY DEF DrawAtom, max
<1>. HIDE DEF to
<1>6. IsClear(room, from, to)
  <2>1. \A d \in Dates : d < to => d < max
    BY <1>1, <1>2, <1>4
  <2>. QED
    BY <1>2, <2>1 DEF IsClear
<1>. QED
  BY <1>1, <1>4, <1>5, <1>6


-----------------------------------------------------------------------------
(* Loops *)

\* A function that is given for 0, and for each further number from the number before as long as
\* its value there is in D, takes its values in D.
LEMMA StepwiseFrom ==
  ASSUME NEW D, NEW first \in D, NEW m \in Nat, NEW step \in [1 .. m -> [D -> D]],
         NEW g, g = [n \in 0 .. m |-> g[n]], g[0] = first,
         \A n \in 1 .. m : g[n - 1] \in D => g[n] = step[n][g[n - 1]]
  PROVE  Stepwise(g, D, m, first, step)
<1>. DEFINE N == {n \in Nat : n <= m => g[n] \in D}
<1>1. 0 \in N
  OBVIOUS
<1>2. ASSUME NEW n \in Nat, n \in N PROVE n + 1 \in N
  <2>. SUFFICES ASSUME n + 1 <= m PROVE g[n + 1] \in D
    OBVIOUS
  <2>1. g[n] \in D /\ n + 1 \in 1 .. m /\ (n + 1) - 1 = n
    BY <1>2
  <2>2. g[n + 1] = step[n + 1][g[n]]
    BY <2>1
  <2>. QED
    BY <2>1, <2>2
<1>3. \A n \in Nat : n \in N
  <2>. HIDE DEF N
  <2>. QED
    BY <1>1, <1>2, SetInduction
<1>4. \A n \in 0 .. m : g[n] \in D
  BY <1>3
<1>5. g \in [0 .. m -> D]
  BY <1>4
<1>6. ASSUME NEW n \in 1 .. m PROVE g[n] = step[n][g[n - 1]]
  <2>1. n - 1 \in 0 .. m
    OBVIOUS
  <2>. QED
    BY <1>4, <2>1
<1>. QED
  BY <1>5, <1>6 DEF Stepwise

\* The item of a new reservation, and what storing it does.
LEMMA NewItemType ==
  ASSUME NEW atoms \in Seq(Atom)
  PROVE  /\ NewItem(atoms) \in Item
         /\ [op |-> "StoreNew", item |-> NewItem(atoms)] \in Operation
         /\ \A db : Effect(db, [op |-> "StoreNew", item |-> NewItem(atoms)]) = StoreNewItem(db, NewItem(atoms))
<1>1. Columns \in Fields /\ Part = Atom
  BY ToolsAssumption DEF Columns
<1>2. NewItem(atoms) \in Item /\ NewItem(atoms).type = "Reservation"
  BY <1>1 DEF NewItem, Item, ItemTypes, Tables
<1>3. [op |-> "StoreNew", item |-> NewItem(atoms)] \in Operation
  BY <1>2 DEF Operation
<1>4. ASSUME NEW db PROVE Effect(db, [op |-> "StoreNew", item |-> NewItem(atoms)]) = StoreNewItem(db, NewItem(atoms))
  BY <1>2 DEF Effect, Succeeds
<1>. QED
  BY <1>2, <1>3, <1>4

\* The reservations stored first are in a database, and valid.
LEMMA StoredFirstType ==
  /\ StoredFirst \in Database
  /\ \A i \in DOMAIN StoredFirst["Reservation"] : IsValid(StoredFirst["Reservation"][i].parts)
<1>. DEFINE D == {db \in Database : \A i \in DOMAIN db["Reservation"] : IsValid(db["Reservation"][i].parts)}
            m == Len(Stored)
            After(n, db) == StoreNewItem(db, NewItem(Stored[n]))
            step == [n \in 1 .. m |-> [db \in D |-> After(n, db)]]
            Loop(f) == f = [n \in 0 .. m |-> IF n = 0 THEN EmptyDatabase ELSE After(n, f[n - 1])]
            g == CHOOSE h : Loop(h)
<1>1. m \in Nat /\ EmptyDatabase \in D
  <2>1. EmptyDatabase["Reservation"] = << >> /\ DOMAIN << >> = {}
    BY EmptySeq DEF EmptyDatabase, Tables
  <2>2. EmptyDatabase \in Database
    BY EmptySeq DEF EmptyDatabase, Database
  <2>. QED
    BY <2>1, <2>2, WidgetAssumption, LenProperties
<1>2. step \in [1 .. m -> [D -> D]]
  <2>1. ASSUME NEW n \in 1 .. m, NEW db \in D PROVE After(n, db) \in D
    <3>. DEFINE rows == db["Reservation"]
                row == [revision |-> 1, fields |-> Columns, parts |-> Stored[n]]
    <3>1. Stored[n] \in Seq(Atom) /\ IsValid(Stored[n])
      BY WidgetAssumption, LenProperties, ElementOfSeq DEF ToSet
    <3>2. Effect(db, [op |-> "StoreNew", item |-> NewItem(Stored[n])]) \in Database
      BY <3>1, NewItemType, EffectType
    <3>3. After(n, db) \in Database
      BY <3>1, <3>2, NewItemType
    <3>4. rows \in Seq(Row) /\ row \in Row /\ After(n, db)["Reservation"] = Append(rows, row)
      BY <3>1, ToolsAssumption DEF Database, Tables, Row, StoreNewItem, NewItem, Columns
    <3>5. row.parts = Stored[n] /\ \A i \in DOMAIN rows : IsValid(rows[i].parts)
      OBVIOUS
    <3>. HIDE DEF After, row, rows
    <3>6. \A i \in DOMAIN Append(rows, row) : IsValid(Append(rows, row)[i].parts)
      <4>1. /\ Len(rows) \in Nat /\ DOMAIN rows = 1 .. Len(rows)
            /\ DOMAIN Append(rows, row) = 1 .. Len(rows) + 1
            /\ \A i \in 1 .. Len(rows) : Append(rows, row)[i] = rows[i]
            /\ Append(rows, row)[Len(rows) + 1] = row
        BY <3>4, AppendProperties, LenProperties
      <4>2. \A i \in 1 .. Len(rows) + 1 : i \in 1 .. Len(rows) \/ i = Len(rows) + 1
        BY <4>1
      <4>. QED
        BY <3>1, <3>5, <4>1, <4>2
    <3>. QED
      BY <3>3, <3>4, <3>6
  <2>. HIDE DEF After, D
  <2>. QED
    BY <2>1
<1>3. ASSUME NEW n \in 1 .. m, NEW db \in D PROVE step[n][db] = After(n, db)
  <2>. HIDE DEF After, D
  <2>. QED
    OBVIOUS
<1>. HIDE DEF After, D, m, step
<1>4. PICK f : Stepwise(f, D, m, EmptyDatabase, step)
  BY <1>1, <1>2, StepwiseFunction
<1>5. Loop(f)
  <2>1. \A n \in 0 .. m : f[n] = IF n = 0 THEN EmptyDatabase ELSE After(n, f[n - 1])
    <3>1. ASSUME NEW n \in 1 .. m PROVE f[n] = After(n, f[n - 1])
      <4>1. f[n - 1] \in D /\ f[n] = step[n][f[n - 1]]
        BY <1>1, <1>4 DEF Stepwise
      <4>. QED
        BY <1>3, <4>1
    <3>. QED
      BY <1>1, <1>4, <3>1 DEF Stepwise
  <2>. QED
    BY <1>4, <2>1 DEF Stepwise
<1>6. StoredFirst = g[m]
  BY DEF StoredFirst, After, m
<1>7. Loop(g)
  <2>. HIDE DEF Loop
  <2>. QED
    BY <1>5
<1>. HIDE DEF g
<1>8. Stepwise(g, D, m, EmptyDatabase, step)
  <2>1. g = [n \in 0 .. m |-> g[n]] /\ \A n \in 0 .. m : g[n] = IF n = 0 THEN EmptyDatabase ELSE After(n, g[n - 1])
    BY <1>7
  <2>2. g[0] = EmptyDatabase
    <3>1. 0 \in 0 .. m
      BY <1>1
    <3>. QED
      BY <2>1, <3>1
  <2>3. ASSUME NEW n \in 1 .. m, g[n - 1] \in D PROVE g[n] = step[n][g[n - 1]]
    <3>1. n \in 0 .. m /\ n # 0
      BY <1>1
    <3>2. g[n] = After(n, g[n - 1])
      BY <2>1, <3>1
    <3>. QED
      BY <1>3, <2>3, <3>2
  <2>. QED
    BY <1>1, <1>2, <2>1, <2>2, <2>3, StepwiseFrom
<1>. QED
  BY <1>1, <1>6, <1>8 DEF Stepwise, D

\* Executing a batch is executing its operations, one after the other.
LEMMA ExecutedRun ==
  ASSUME NEW db \in Database, NEW batch \in Seq(Operation)
  PROVE  \E run \in [0 .. Len(batch) -> [db : Database, changes : Seq(Change)]] :
           /\ run[0] = [db |-> db, changes |-> << >>]
           /\ \A n \in 1 .. Len(batch) :
                run[n] = [db |-> Effect(run[n - 1].db, batch[n]),
                          changes |-> run[n - 1].changes \o ChangesFor(run[n - 1].db, batch[n], AllReservations)]
           /\ Executed(db, batch) = run[Len(batch)]
<1>. DEFINE D == [db : Database, changes : Seq(Change)]
            m == Len(batch)
            first == [db |-> db, changes |-> << >>]
            After(n, r) == [db |-> Effect(r.db, batch[n]),
                            changes |-> r.changes \o ChangesFor(r.db, batch[n], AllReservations)]
            step == [n \in 1 .. m |-> [r \in D |-> After(n, r)]]
            Loop(f) == f = [n \in 0 .. m |-> IF n = 0 THEN first ELSE After(n, f[n - 1])]
            g == CHOOSE h : Loop(h)
<1>1. m \in Nat /\ first \in D
  BY LenProperties, EmptySeq
<1>2. step \in [1 .. m -> [D -> D]]
  <2>1. ASSUME NEW n \in 1 .. m, NEW r \in D PROVE After(n, r) \in D
    <3>1. batch[n] \in Operation /\ r.db \in Database /\ r.changes \in Seq(Change)
      BY ElementOfSeq
    <3>2. AllReservations \in Endpoint
      BY DEF AllReservations, Endpoint, Tables
    <3>3. Effect(r.db, batch[n]) \in Database
      BY <3>1, EffectType
    <3>4. ChangesFor(r.db, batch[n], AllReservations) \in Seq(Change)
      BY <3>1, <3>2, ChangesForType
    <3>5. r.changes \o ChangesFor(r.db, batch[n], AllReservations) \in Seq(Change)
      BY <3>1, <3>4, ConcatProperties
    <3>. QED
      BY <3>3, <3>5
  <2>. HIDE DEF After, D
  <2>. QED
    BY <2>1
<1>3. ASSUME NEW n \in 1 .. m, NEW r \in D PROVE step[n][r] = After(n, r)
  <2>. HIDE DEF After, D
  <2>. QED
    OBVIOUS
<1>. HIDE DEF After, D, m, step, first
<1>4. PICK f : Stepwise(f, D, m, first, step)
  BY <1>1, <1>2, StepwiseFunction
<1>5. Loop(f)
  <2>1. \A n \in 0 .. m : f[n] = IF n = 0 THEN first ELSE After(n, f[n - 1])
    <3>1. ASSUME NEW n \in 1 .. m PROVE f[n] = After(n, f[n - 1])
      <4>1. f[n - 1] \in D /\ f[n] = step[n][f[n - 1]]
        BY <1>1, <1>4 DEF Stepwise
      <4>. QED
        BY <1>3, <4>1
    <3>. QED
      BY <1>1, <1>4, <3>1 DEF Stepwise
  <2>. QED
    BY <1>4, <2>1 DEF Stepwise
<1>6. Executed(db, batch) = g[m]
  BY DEF Executed, After, m, first
<1>7. Loop(g)
  <2>. HIDE DEF Loop
  <2>. QED
    BY <1>5
<1>. HIDE DEF g
<1>8. Stepwise(g, D, m, first, step)
  <2>1. g = [n \in 0 .. m |-> g[n]] /\ \A n \in 0 .. m : g[n] = IF n = 0 THEN first ELSE After(n, g[n - 1])
    BY <1>7
  <2>2. g[0] = first
    <3>1. 0 \in 0 .. m
      BY <1>1
    <3>. QED
      BY <2>1, <3>1
  <2>3. ASSUME NEW n \in 1 .. m, g[n - 1] \in D PROVE g[n] = step[n][g[n - 1]]
    <3>1. n \in 0 .. m /\ n # 0
      BY <1>1
    <3>2. g[n] = After(n, g[n - 1])
      BY <2>1, <3>1
    <3>. QED
      BY <1>3, <2>3, <3>2
  <2>. QED
    BY <1>1, <1>2, <2>1, <2>2, <2>3, StepwiseFrom
<1>9. /\ g \in [0 .. m -> D] /\ g[0] = first
      /\ \A n \in 1 .. m : g[n] = After(n, g[n - 1])
  <2>1. g \in [0 .. m -> D] /\ g[0] = first /\ \A n \in 1 .. m : g[n - 1] \in D /\ g[n] = step[n][g[n - 1]]
    BY <1>1, <1>8 DEF Stepwise
  <2>. QED
    BY <1>3, <2>1
<1>. QED
  BY <1>6, <1>9 DEF D, m, first, After

\* Executing a batch leaves a database, and its changes are changes.
LEMMA ExecutedType ==
  ASSUME NEW db \in Database, NEW batch \in Seq(Operation)
  PROVE  Executed(db, batch).db \in Database /\ Executed(db, batch).changes \in Seq(Change)
<1>1. PICK run \in [0 .. Len(batch) -> [db : Database, changes : Seq(Change)]] : Executed(db, batch) = run[Len(batch)]
  BY ExecutedRun
<1>2. Len(batch) \in 0 .. Len(batch)
  BY LenProperties
<1>. QED
  BY <1>1, <1>2


\* Some of the first n ghosts: those which a new reservation does not intersect.
AreLeft(left, atoms, n) ==
  /\ left \in Seq(Seq(Atom))
  /\ \A i \in DOMAIN left : \E k \in 1 .. n : left[i] = ghosts[k] /\ ~IntersectsWith(atoms, ghosts[k])
  /\ \A i, j \in DOMAIN left : j < i => Apart(left[i], left[j])

\* reservationAdded leaves ghosts that lie beside each other and beside the new reservation.
LEMMA GhostsLeft ==
  ASSUME ghosts \in Seq(Seq(Atom)), NEW atoms,
         \A i, j \in DOMAIN ghosts : j < i => Apart(ghosts[i], ghosts[j])
  PROVE  AreLeft(GhostsBeside(atoms), atoms, Len(ghosts))
<1>. DEFINE D == Seq(Seq(Atom))
            m == Len(ghosts)
            After(n, left) == IF IntersectsWith(atoms, ghosts[n]) THEN left ELSE Append(left, ghosts[n])
            step == [n \in 1 .. m |-> [left \in D |-> After(n, left)]]
            Loop(f) == f = [n \in 0 .. m |-> IF n = 0 THEN << >>
                                             ELSE IF IntersectsWith(atoms, ghosts[n]) THEN f[n - 1]
                                             ELSE Append(f[n - 1], ghosts[n])]
            g == CHOOSE h : Loop(h)
<1>1. m \in Nat /\ << >> \in D /\ DOMAIN ghosts = 1 .. m /\ \A n \in 1 .. m : ghosts[n] \in Seq(Atom)
  BY LenProperties, ElementOfSeq, EmptySeq
<1>2. step \in [1 .. m -> [D -> D]]
  <2>1. ASSUME NEW n \in 1 .. m, NEW left \in D PROVE After(n, left) \in D
    BY <1>1, AppendProperties
  <2>. HIDE DEF After, D
  <2>. QED
    BY <2>1
<1>3. ASSUME NEW n \in 1 .. m, NEW left \in D PROVE step[n][left] = After(n, left)
  <2>. HIDE DEF After, D
  <2>. QED
    OBVIOUS
<1>. HIDE DEF After, D, m, step
<1>4. PICK f : Stepwise(f, D, m, << >>, step)
  BY <1>1, <1>2, StepwiseFunction
<1>5. Loop(f)
  <2>1. \A n \in 0 .. m : f[n] = IF n = 0 THEN << >> ELSE After(n, f[n - 1])
    <3>1. ASSUME NEW n \in 1 .. m PROVE f[n] = After(n, f[n - 1])
      <4>1. f[n - 1] \in D /\ f[n] = step[n][f[n - 1]]
        BY <1>1, <1>4 DEF Stepwise
      <4>. QED
        BY <1>3, <4>1
    <3>. QED
      BY <1>1, <1>4, <3>1 DEF Stepwise
  <2>. QED
    BY <1>4, <2>1 DEF Stepwise, After
<1>6. GhostsBeside(atoms) = g[m]
  BY DEF GhostsBeside, m
<1>7. Loop(g)
  <2>. HIDE DEF Loop
  <2>. QED
    BY <1>5
<1>. HIDE DEF g
<1>8. ASSUME NEW n \in 1 .. m PROVE g[n] = After(n, g[n - 1])
  <2>1. n \in 0 .. m /\ n # 0
    BY <1>1
  <2>. QED
    BY <1>7, <2>1 DEF After
<1>9. Stepwise(g, D, m, << >>, step)
  <2>1. g = [n \in 0 .. m |-> g[n]] /\ g[0] = << >>
    BY <1>1, <1>7
  <2>2. \A n \in 1 .. m : g[n - 1] \in D => g[n] = step[n][g[n - 1]]
    BY <1>1, <1>3, <1>8
  <2>. QED
    BY <1>1, <1>2, <2>1, <2>2, StepwiseFrom
<1>10. g[0] = << >> /\ \A n \in 0 .. m : g[n] \in D
  BY <1>9 DEF Stepwise
<1>11. ASSUME NEW n \in Nat, n < m, AreLeft(g[n], atoms, n) PROVE AreLeft(g[n + 1], atoms, n + 1)
  <2>0. n + 1 \in 1 .. m /\ (n + 1) - 1 = n /\ n \in 0 .. m
    BY <1>1, <1>11
  <2>1. g[n + 1] = After(n + 1, g[n]) /\ g[n + 1] \in D
    BY <1>8, <1>10, <2>0
  <2>2. CASE IntersectsWith(atoms, ghosts[n + 1])
    <3>1. g[n + 1] = g[n]
      BY <2>1, <2>2 DEF After
    <3>2. \A k : k \in 1 .. n => k \in 1 .. n + 1
      BY <1>11
    <3>. QED
      BY <1>11, <3>1, <3>2 DEF AreLeft
  <2>3. CASE ~IntersectsWith(atoms, ghosts[n + 1])
    <3>1. g[n + 1] = Append(g[n], ghosts[n + 1])
      BY <2>1, <2>3 DEF After
    <3>2. /\ Len(g[n]) \in Nat /\ DOMAIN g[n] = 1 .. Len(g[n])
          /\ DOMAIN g[n + 1] = 1 .. Len(g[n]) + 1
          /\ \A i \in 1 .. Len(g[n]) : g[n + 1][i] = g[n][i]
          /\ g[n + 1][Len(g[n]) + 1] = ghosts[n + 1]
      <4>1. g[n] \in Seq(Seq(Atom)) /\ ghosts[n + 1] \in Seq(Atom)
        BY <1>1, <1>10, <2>0 DEF D
      <4>2. Len(g[n]) \in Nat /\ DOMAIN g[n] = 1 .. Len(g[n])
        BY <4>1, LenProperties
      <4>3. g[n + 1] \in Seq(Seq(Atom)) /\ Len(g[n + 1]) = Len(g[n]) + 1
        BY <3>1, <4>1, AppendProperties
      <4>4. DOMAIN g[n + 1] = 1 .. Len(g[n]) + 1
        BY <4>3, LenProperties
      <4>5. g[n + 1][Len(g[n]) + 1] = ghosts[n + 1] /\ \A i \in 1 .. Len(g[n]) : g[n + 1][i] = g[n][i]
        BY <3>1, <4>1, AppendProperties
      <4>. QED
        BY <4>2, <4>4, <4>5
    <3>3. ASSUME NEW i \in DOMAIN g[n + 1]
          PROVE  \E k \in 1 .. n + 1 : g[n + 1][i] = ghosts[k] /\ ~IntersectsWith(atoms, ghosts[k])
      <4>1. CASE i \in 1 .. Len(g[n])
        <5>1. PICK k \in 1 .. n : g[n][i] = ghosts[k] /\ ~IntersectsWith(atoms, ghosts[k])
          BY <1>11, <3>2, <4>1 DEF AreLeft
        <5>2. k \in 1 .. n + 1
          BY <1>11
        <5>. QED
          BY <3>2, <4>1, <5>1, <5>2
      <4>2. CASE i = Len(g[n]) + 1
        <5>1. n + 1 \in 1 .. n + 1
          BY <1>11
        <5>. QED
          BY <2>3, <3>2, <4>2, <5>1
      <4>. QED
        BY <3>2, <4>1, <4>2
    <3>4. ASSUME NEW i \in DOMAIN g[n + 1], NEW j \in DOMAIN g[n + 1], j < i
          PROVE  Apart(g[n + 1][i], g[n + 1][j])
      <4>1. CASE i \in 1 .. Len(g[n])
        <5>1. j \in 1 .. Len(g[n])
          BY <3>2, <3>4, <4>1
        <5>. QED
          BY <1>11, <3>2, <3>4, <4>1, <5>1 DEF AreLeft
      <4>2. CASE i = Len(g[n]) + 1
        <5>1. j \in 1 .. Len(g[n])
          BY <3>2, <3>4, <4>2
        <5>2. PICK k \in 1 .. n : g[n][j] = ghosts[k]
          BY <1>11, <3>2, <5>1 DEF AreLeft
        <5>3. k \in DOMAIN ghosts /\ n + 1 \in DOMAIN ghosts /\ k < n + 1
          BY <1>1, <1>11, <2>0
        <5>. QED
          BY <3>2, <4>2, <5>1, <5>2, <5>3
      <4>. QED
        BY <3>2, <4>1, <4>2
    <3>5. g[n + 1] \in Seq(Seq(Atom))
      BY <2>1 DEF D
    <3>. QED
      BY <3>3, <3>4, <3>5 DEF AreLeft
  <2>. QED
    BY <2>2, <2>3
<1>12. AreLeft(g[m], atoms, m)
  <2>. DEFINE N == {n \in Nat : n <= m => AreLeft(g[n], atoms, n)}
  <2>1. 0 \in N
    <3>1. AreLeft(<< >>, atoms, 0)
      BY EmptySeq DEF AreLeft
    <3>. QED
      BY <1>10, <3>1
  <2>2. ASSUME NEW n \in Nat, n \in N PROVE n + 1 \in N
    <3>. SUFFICES ASSUME n + 1 <= m PROVE AreLeft(g[n + 1], atoms, n + 1)
      OBVIOUS
    <3>1. n < m /\ n <= m
      BY <1>1
    <3>2. AreLeft(g[n], atoms, n)
      BY <2>2, <3>1
    <3>. QED
      BY <1>11, <3>1, <3>2
  <2>. HIDE DEF N
  <2>3. m \in N
    BY <1>1, <2>1, <2>2, SetInduction
  <2>. QED
    BY <1>1, <2>3 DEF N
<1>. QED
  BY <1>6, <1>12 DEF m


-----------------------------------------------------------------------------
(* The tools of the widget *)

\* NewReservationTool::_currentGhost and MoveReservationTool::_currentGhost
Beginning == [room : Rooms, date : Dates]
Movement == [id : Nat, revision : Nat, index : Nat, room : Rooms, shown : BOOLEAN]

\* What the tools hold, and when: a tool that is not active has no ghosts.
GhostTypes ==
  /\ activeTool \in ToolNames
  /\ draft \in Seq(Atom) /\ ghosts \in Seq(Seq(Atom))
  /\ start \in Beginning \cup {Nowhere}
  /\ moving \in Movement \cup {NotMoving}

ToolsApart ==
  /\ activeTool # "new-reservation" => ghosts = << >>
  /\ activeTool # "move-reservation" => moving = NotMoving

\* Whether the Move tool holds a copy of a reservation.
IsHeld(r) == moving # NotMoving /\ r.id = moving.id /\ r.revision = moving.revision

\* GhostsAreFree, atom by atom
NightsFree ==
  /\ \A i \in DOMAIN ghosts : Apart(draft, ghosts[i])
  /\ \A i, j \in DOMAIN ghosts : j < i => Apart(ghosts[i], ghosts[j])
  /\ \A i \in DOMAIN ghosts, j \in DOMAIN reservations : Apart(ghosts[i], reservations[j].atoms)
  /\ \A j \in DOMAIN reservations : IsHeld(reservations[j]) \/ Apart(draft, reservations[j].atoms)

\* The reservation which the Move tool has copied is still there, and the copy differs from it in
\* the room of the atom in hand only: the first change that takes it off the board leaves its item
\* in the scene, since the ghost's item is taken for it.
HeldOnBoard ==
  Followed /\ moving # NotMoving =>
    /\ moving.shown /\ moving.index \in DOMAIN draft
    /\ \E j \in DOMAIN reservations :
         /\ IsHeld(reservations[j])
         /\ reservations[j].atoms = [draft EXCEPT ![moving.index].room = moving.room]

BoardInScene == Followed => UsedAddresses \subseteq scene

\* The inductive invariant of what the user sees, and the types of what the backend holds.
GhostInv ==
  /\ IsBoard(reservations, rooms)
  /\ GhostTypes /\ ToolsApart
  /\ NightsFree
  /\ HeldOnBoard /\ BoardInScene

ServerTypes ==
  /\ storage \in Database
  /\ changes \in Seq(Change)
  /\ requests \in Seq(Seq(Operation))

\* A movement is another value than none.
LEMMA MovementInHand == \A m \in Movement : m # NotMoving
<1>. SUFFICES ASSUME NEW m \in Movement, m = NotMoving PROVE FALSE
  OBVIOUS
<1>1. "room" \in DOMAIN m
  BY DEF Movement
<1>2. "room" \notin DOMAIN NotMoving
  BY DEF NotMoving
<1>. QED
  BY <1>1, <1>2

\* Drawing an atom on nights that are clear keeps the ghost in hand apart from the others.
LEMMA DrawnApart ==
  ASSUME IsBoard(reservations, rooms), ghosts \in Seq(Seq(Atom)),
         NEW atoms \in Seq(Atom), NEW room \in Rooms, NEW from \in Dates, NEW date \in Dates,
         \A i \in DOMAIN ghosts : Apart(atoms, ghosts[i]),
         \A j \in DOMAIN reservations : Apart(atoms, reservations[j].atoms)
  PROVE  LET drawn == DrawAtom(atoms, room, from, date)
         IN  /\ drawn \in Seq(Atom)
             /\ \A i \in DOMAIN ghosts : Apart(drawn, ghosts[i])
             /\ \A j \in DOMAIN reservations : Apart(drawn, reservations[j].atoms)
<1>. DEFINE drawn == DrawAtom(atoms, room, from, date)
<1>1. CASE drawn = atoms
  BY <1>1
<1>2. ASSUME NEW to \in Dates, IsClear(room, from, to), drawn = Append(atoms, [room |-> room, from |-> from, to |-> to])
      PROVE  /\ drawn \in Seq(Atom)
             /\ \A i \in DOMAIN ghosts : Apart(drawn, ghosts[i])
             /\ \A j \in DOMAIN reservations : Apart(drawn, reservations[j].atoms)
  <2>. DEFINE atom == [room |-> room, from |-> from, to |-> to]
  <2>1. atom \in Atom
    BY DEF Atom
  <2>2. ASSUME NEW d \in Dates, HasDate(atom, d)
        PROVE  /\ \A i \in DOMAIN reservations : ~HasNight(reservations[i].atoms, atom.room, d)
               /\ \A i \in DOMAIN ghosts : ~HasNight(ghosts[i], atom.room, d)
    BY <1>2, <2>2 DEF IsClear, HasDate
  <2>3. drawn = Append(atoms, atom)
    BY <1>2
  <2>. HIDE DEF drawn, atom
  <2>4. drawn \in Seq(Atom)
    BY <2>1, <2>3, AppendProperties
  <2>5. ASSUME NEW i \in DOMAIN ghosts PROVE Apart(drawn, ghosts[i])
    BY <2>1, <2>2, <2>3, ApartWithAtom
  <2>6. ASSUME NEW j \in DOMAIN reservations PROVE Apart(drawn, reservations[j].atoms)
    BY <2>1, <2>2, <2>3, ApartWithAtom
  <2>. QED
    BY <2>4, <2>5, <2>6
<1>. HIDE DEF drawn
<1>3. \/ drawn = atoms
      \/ \E to \in Dates : IsClear(room, from, to) /\ drawn = Append(atoms, [room |-> room, from |-> from, to |-> to])
  BY DrawnAtom DEF drawn
<1>4. /\ drawn \in Seq(Atom)
      /\ \A i \in DOMAIN ghosts : Apart(drawn, ghosts[i])
      /\ \A j \in DOMAIN reservations : Apart(drawn, reservations[j].atoms)
  BY <1>1, <1>2, <1>3
<1>. QED
  BY <1>4 DEF drawn


\* No reservation takes a night of a period for which isFree finds the room free.
LEMMA FreeMeans ==
  ASSUME IsBoard(reservations, rooms), NEW room \in Rooms, NEW atom \in Atom, IsFree(room, atom),
         NEW j \in DOMAIN reservations, NEW d \in Dates, HasDate(atom, d)
  PROVE  ~HasNight(reservations[j].atoms, room, d)
<1>. SUFFICES ASSUME HasNight(reservations[j].atoms, room, d) PROVE FALSE
  OBVIOUS
<1>1. Taken(room, d)
  BY TakenMeans
<1>2. IsRowOf(rooms[room], PointersOf(room, reservations))
  BY DEF IsBoard
<1>3. PICK k \in DOMAIN rooms[room] : HasDate(rooms[room][k], d)
  BY <1>1, NightsOfRow DEF Taken
<1>4. rooms[room][k] \in RowAtom
  BY <1>2, <1>3, LenProperties, ElementOfSeq DEF IsRowOf
<1>5. /\ rooms[room][k].from \in Int /\ rooms[room][k].to \in Int
      /\ atom.from \in Int /\ atom.to \in Int /\ d \in Int
  BY <1>4, DatesAssumption DEF RowAtom, Atom
<1>6. Intersects(rooms[room][k], atom)
  BY <1>3, <1>5 DEF Intersects, HasDate
<1>. QED
  BY <1>3, <1>6 DEF IsFree

\* Moving an atom to a room where nobody has its nights keeps the reservations apart.
LEMMA MovedApart ==
  ASSUME NEW a \in Seq(Atom), NEW b, Apart(a, b), NEW i \in DOMAIN a, NEW room \in Rooms,
         \A d \in Dates : HasDate(a[i], d) => ~HasNight(b, room, d)
  PROVE  Apart([a EXCEPT ![i].room = room], b)
<1>. DEFINE moved == [a EXCEPT ![i].room = room]
<1>1. DOMAIN moved = DOMAIN a /\ \A n \in DOMAIN a : n # i => moved[n] = a[n]
  OBVIOUS
<1>2. moved[i].room = room /\ moved[i].from = a[i].from /\ moved[i].to = a[i].to
  <2>1. a[i] \in Atom
    BY LenProperties, ElementOfSeq
  <2>. QED
    BY <2>1 DEF Atom
<1>. HIDE DEF moved
<1>. SUFFICES ASSUME NEW n \in DOMAIN a, NEW m \in DOMAIN b, NEW d \in Dates,
                     moved[n].room = b[m].room, HasDate(moved[n], d), HasDate(b[m], d)
              PROVE  FALSE
  BY <1>1 DEF Apart, moved
<1>3. CASE n = i
  BY <1>2, <1>3 DEF HasDate, HasNight
<1>4. CASE n # i
  BY <1>1, <1>4 DEF Apart
<1>. QED
  BY <1>3, <1>4

\* Nothing of what the tools and the board have has changed; the scene has not either.
BoardStays == UNCHANGED <<boardVars, scene, cleared, app>>

\* What the New Reservation tool does to its ghosts.
LEMMA DrawingKeeps ==
  ASSUME GhostInv, Followed, BoardStays, UNCHANGED <<activeTool, moving>>,
         activeTool = "new-reservation",
         draft' \in Seq(Atom), ghosts' \in Seq(Seq(Atom)), start' \in Beginning \cup {Nowhere},
         \A i \in DOMAIN ghosts' : Apart(draft', ghosts'[i]),
         \A i, j \in DOMAIN ghosts' : j < i => Apart(ghosts'[i], ghosts'[j]),
         \A i \in DOMAIN ghosts', j \in DOMAIN reservations : Apart(ghosts'[i], reservations[j].atoms),
         \A j \in DOMAIN reservations : Apart(draft', reservations[j].atoms)
  PROVE  GhostInv'
<1>1. reservations' = reservations /\ rooms' = rooms /\ scene' = scene
  BY DEF BoardStays, boardVars
<1>2. moving = NotMoving
  BY DEF GhostInv, ToolsApart
<1>3. IsBoard(reservations', rooms')
  BY <1>1 DEF GhostInv
<1>4. GhostTypes' /\ ToolsApart'
  BY <1>2 DEF GhostInv, GhostTypes, ToolsApart
<1>5. NightsFree'
  BY <1>1 DEF NightsFree
<1>6. HeldOnBoard'
  BY <1>2 DEF HeldOnBoard
<1>7. BoardInScene'
  BY <1>1 DEF GhostInv, BoardInScene, UsedAddresses
<1>. QED
  BY <1>3, <1>4, <1>5, <1>6, <1>7 DEF GhostInv

\* A tool forgets its ghosts.
LEMMA UnloadingKeeps ==
  ASSUME GhostInv, Followed, BoardStays, Unload, activeTool' \in ToolNames
  PROVE  GhostInv'
<1>1. reservations' = reservations /\ rooms' = rooms /\ scene' = scene
  BY DEF BoardStays, boardVars
<1>2. ghosts' = << >> /\ start' = Nowhere /\ moving' = NotMoving /\ draft' = << >>
  BY DEF Unload
<1>3. IsBoard(reservations', rooms')
  BY <1>1 DEF GhostInv
<1>4. GhostTypes' /\ ToolsApart'
  BY <1>2, EmptySeq DEF GhostTypes, ToolsApart
<1>5. NightsFree'
  BY <1>2, EmptySeq, EmptyIsApart DEF NightsFree
<1>6. HeldOnBoard'
  BY <1>2 DEF HeldOnBoard
<1>7. BoardInScene'
  BY <1>1 DEF GhostInv, BoardInScene, UsedAddresses
<1>. QED
  BY <1>3, <1>4, <1>5, <1>6, <1>7 DEF GhostInv

\* Neither the board nor a ghost changes.
LEMMA NothingShownChanges ==
  ASSUME GhostInv, Followed, BoardStays, UNCHANGED <<draft, activeTool, ghosts, start, moving>>
  PROVE  GhostInv'
<1>1. reservations' = reservations /\ rooms' = rooms /\ scene' = scene
  BY DEF BoardStays, boardVars
<1>3. IsBoard(reservations', rooms')
  BY <1>1 DEF GhostInv
<1>4. GhostTypes' /\ ToolsApart'
  BY DEF GhostInv, GhostTypes, ToolsApart
<1>5. NightsFree'
  BY <1>1 DEF GhostInv, NightsFree, IsHeld
<1>6. HeldOnBoard'
  BY <1>1 DEF GhostInv, HeldOnBoard, IsHeld
<1>7. BoardInScene'
  BY <1>1 DEF GhostInv, BoardInScene, UsedAddresses
<1>. QED
  BY <1>3, <1>4, <1>5, <1>6, <1>7 DEF GhostInv


\* Whatever the user does with a tool, the ghosts stay beside each other and beside the
\* reservations.
LEMMA ToolsKeep ==
  ASSUME GhostInv, Followed, BoardStays, User
  PROVE  GhostInv'
<1>1. /\ IsBoard(reservations, rooms)
      /\ activeTool \in ToolNames /\ draft \in Seq(Atom) /\ ghosts \in Seq(Seq(Atom))
      /\ start \in Beginning \cup {Nowhere} /\ moving \in Movement \cup {NotMoving}
      /\ activeTool # "move-reservation" => moving = NotMoving
      /\ activeTool # "new-reservation" => ghosts = << >>
      /\ NightsFree
  BY DEF GhostInv, GhostTypes, ToolsApart
<1>2. << >> \in Seq(Atom) /\ << >> \in Seq(Seq(Atom)) /\ DOMAIN << >> = {} /\ MouseDates \subseteq Dates
  BY ToolsAssumption, EmptySeq
<1>3. \A i, j \in DOMAIN ghosts : j < i => Apart(ghosts[i], ghosts[j])
  BY <1>1 DEF NightsFree
<1>4. \A i \in DOMAIN ghosts, j \in DOMAIN reservations : Apart(ghosts[i], reservations[j].atoms)
  BY <1>1 DEF NightsFree
<1>5. \A i \in DOMAIN ghosts : Apart(draft, ghosts[i])
  BY <1>1 DEF NightsFree
<1>6. ASSUME Drawing PROVE \A j \in DOMAIN reservations : Apart(draft, reservations[j].atoms)
  BY <1>1, <1>6 DEF NightsFree, IsHeld, Drawing
<1>7. ASSUME NEW name \in ToolNames, ActivateTool(name) PROVE GhostInv'
  <2>1. Unload /\ activeTool' \in ToolNames
    BY <1>7 DEF ActivateTool
  <2>. QED
    BY <2>1, UnloadingKeeps
<1>8. ASSUME NEW room \in Rooms, NEW date \in MouseDates, PressMouse(room, date) PROVE GhostInv'
  <2>1. /\ activeTool = "new-reservation"
        /\ UNCHANGED <<activeTool, moving, ghosts>> /\ draft' = << >>
        /\ start' = [room |-> room, date |-> date]
    BY <1>8 DEF PressMouse, Drawing
  <2>2. start' \in Beginning
    BY <1>2, <2>1 DEF Beginning
  <2>. QED
    BY <1>1, <1>2, <1>3, <1>4, <2>1, <2>2, EmptyIsApart, DrawingKeeps
<1>9. ASSUME Drawing, UNCHANGED toolVars, draft' \in Seq(Atom),
             \A i \in DOMAIN ghosts : Apart(draft', ghosts[i]),
             \A j \in DOMAIN reservations : Apart(draft', reservations[j].atoms)
      PROVE  GhostInv'
  <2>1. activeTool = "new-reservation" /\ UNCHANGED <<activeTool, moving, ghosts, start>>
    BY <1>9 DEF Drawing, toolVars
  <2>2. /\ ghosts' \in Seq(Seq(Atom)) /\ start' \in Beginning \cup {Nowhere}
        /\ \A i \in DOMAIN ghosts' : Apart(draft', ghosts'[i])
        /\ \A i, j \in DOMAIN ghosts' : j < i => Apart(ghosts'[i], ghosts'[j])
        /\ \A i \in DOMAIN ghosts', j \in DOMAIN reservations : Apart(ghosts'[i], reservations[j].atoms)
    BY <1>1, <1>3, <1>4, <1>9, <2>1
  <2>. QED
    BY <1>9, <2>1, <2>2, DrawingKeeps
<1>10. ASSUME draft # << >>
       PROVE  LastAtom(draft).room \in Rooms /\ LastAtom(draft).from \in Dates /\ LastAtom(draft).to \in Dates
  <2>1. Len(draft) \in Nat /\ Len(draft) # 0 /\ Len(draft) \in 1 .. Len(draft)
    BY <1>1, <1>10, LenProperties, EmptySeq
  <2>2. LastAtom(draft) \in Atom
    BY <1>1, <2>1, ElementOfSeq DEF LastAtom
  <2>. QED
    BY <2>2 DEF Atom
<1>11. ASSUME GhostInHand PROVE start.room \in Rooms /\ start.date \in Dates
  BY <1>1, <1>11 DEF GhostInHand, Beginning
<1>12. ASSUME NEW date \in MouseDates, DragMouse(date) PROVE GhostInv'
  <2>0. Drawing /\ GhostInHand /\ UNCHANGED toolVars
    BY <1>12 DEF DragMouse
  <2>1. CASE draft = << >>
    <3>1. draft' = DrawAtom(<< >>, start.room, start.date, date)
      BY <1>12, <2>1 DEF DragMouse
    <3>2. /\ \A i \in DOMAIN ghosts : Apart(<< >>, ghosts[i])
          /\ \A j \in DOMAIN reservations : Apart(<< >>, reservations[j].atoms)
      BY EmptyIsApart
    <3>3. /\ draft' \in Seq(Atom)
          /\ \A i \in DOMAIN ghosts : Apart(draft', ghosts[i])
          /\ \A j \in DOMAIN reservations : Apart(draft', reservations[j].atoms)
      BY <1>1, <1>2, <1>11, <2>0, <3>1, <3>2, DrawnApart
    <3>. QED
      BY <1>9, <2>0, <3>3
  <2>2. CASE draft # << >>
    <3>. DEFINE atoms == RemovedLast(draft)
    <3>1. draft' = DrawAtom(atoms, LastAtom(draft).room, LastAtom(draft).from, date)
      BY <1>12, <2>2 DEF DragMouse
    <3>2. /\ atoms \in Seq(Atom)
          /\ \A i \in DOMAIN ghosts : Apart(atoms, ghosts[i])
          /\ \A j \in DOMAIN reservations : Apart(atoms, reservations[j].atoms)
      <4>1. atoms \in Seq(Atom)
        <5>1. Len(draft) \in Nat /\ Len(draft) # 0 /\ \A n \in 1 .. Len(draft) - 1 : draft[n] \in Atom
          BY <1>1, <2>2, LenProperties, EmptySeq, ElementOfSeq
        <5>2. SubSeq(draft, 1, Len(draft) - 1) \in Seq(Atom)
          BY <1>1, <5>1, SubSeqProperties
        <5>. QED
          BY <2>2, <5>2 DEF RemovedLast
      <4>. QED
        BY <1>1, <1>5, <1>6, <2>0, <4>1, ApartWithoutLast
    <3>. HIDE DEF atoms
    <3>3. /\ draft' \in Seq(Atom)
          /\ \A i \in DOMAIN ghosts : Apart(draft', ghosts[i])
          /\ \A j \in DOMAIN reservations : Apart(draft', reservations[j].atoms)
      BY <1>1, <1>2, <1>10, <2>2, <3>1, <3>2, DrawnApart
    <3>. QED
      BY <1>9, <2>0, <3>3
  <2>. QED
    BY <2>1, <2>2
<1>13. ASSUME NEW room \in Rooms, NEW date \in MouseDates, ShiftDragMouse(room, date) PROVE GhostInv'
  <2>0. Drawing /\ GhostInHand /\ UNCHANGED toolVars
    BY <1>13 DEF ShiftDragMouse
  <2>. DEFINE from == IF draft = << >> THEN start.date ELSE LastAtom(draft).to
  <2>1. draft' = DrawAtom(draft, room, from, date)
    BY <1>13 DEF ShiftDragMouse
  <2>2. from \in Dates
    BY <1>10, <1>11, <2>0
  <2>. HIDE DEF from
  <2>3. /\ draft' \in Seq(Atom)
        /\ \A i \in DOMAIN ghosts : Apart(draft', ghosts[i])
        /\ \A j \in DOMAIN reservations : Apart(draft', reservations[j].atoms)
    BY <1>1, <1>2, <1>5, <1>6, <2>0, <2>1, <2>2, DrawnApart
  <2>. QED
    BY <1>9, <2>0, <2>3
<1>14. ASSUME ReleaseMouse PROVE GhostInv'
  <2>1. /\ Drawing /\ activeTool = "new-reservation" /\ UNCHANGED <<activeTool, moving>>
        /\ start' = Nowhere /\ draft' = << >>
        /\ ghosts' = ghosts \/ ghosts' = Append(ghosts, draft)
    BY <1>14 DEF ReleaseMouse, Drawing
  <2>2. CASE ghosts' = ghosts
    BY <1>1, <1>2, <1>3, <1>4, <2>1, <2>2, EmptyIsApart, DrawingKeeps
  <2>3. CASE ghosts' = Append(ghosts, draft)
    <3>1. /\ Len(ghosts) \in Nat /\ DOMAIN ghosts = 1 .. Len(ghosts)
          /\ ghosts' \in Seq(Seq(Atom)) /\ Len(ghosts') = Len(ghosts) + 1
          /\ ghosts'[Len(ghosts) + 1] = draft /\ \A i \in 1 .. Len(ghosts) : ghosts'[i] = ghosts[i]
      BY <1>1, <2>3, AppendProperties, LenProperties
    <3>2. DOMAIN ghosts' = 1 .. Len(ghosts) + 1
      BY <3>1, LenProperties
    <3>3. ASSUME NEW i \in DOMAIN ghosts', NEW j \in DOMAIN ghosts', j < i PROVE Apart(ghosts'[i], ghosts'[j])
      <4>1. CASE i \in 1 .. Len(ghosts)
        <5>1. i \in DOMAIN ghosts /\ j \in DOMAIN ghosts /\ ghosts'[i] = ghosts[i] /\ ghosts'[j] = ghosts[j]
          BY <3>1, <3>2, <3>3, <4>1
        <5>. QED
          BY <1>3, <3>3, <5>1
      <4>2. CASE i = Len(ghosts) + 1
        <5>1. j \in DOMAIN ghosts /\ ghosts'[j] = ghosts[j]
          BY <3>1, <3>2, <3>3, <4>2
        <5>. QED
          BY <1>5, <3>1, <4>2, <5>1
      <4>. QED
        BY <3>1, <3>2, <4>1, <4>2
    <3>4. ASSUME NEW i \in DOMAIN ghosts', NEW j \in DOMAIN reservations
          PROVE  Apart(ghosts'[i], reservations[j].atoms)
      <4>1. CASE i \in 1 .. Len(ghosts)
        BY <1>4, <3>1, <4>1
      <4>2. CASE i = Len(ghosts) + 1
        BY <1>6, <2>1, <3>1, <4>2
      <4>. QED
        BY <3>1, <3>2, <4>1, <4>2
    <3>. QED
      BY <1>2, <2>1, <3>1, <3>3, <3>4, EmptyIsApart, DrawingKeeps
  <2>. QED
    BY <2>1, <2>2, <2>3
<1>15. ASSUME PressEscape PROVE GhostInv'
  <2>1. Unload /\ activeTool' \in ToolNames
    BY <1>1, <1>15 DEF PressEscape
  <2>. QED
    BY <2>1, UnloadingKeeps
<1>16. ASSUME PressBackspace PROVE GhostInv'
  <2>1. /\ Drawing /\ activeTool = "new-reservation" /\ UNCHANGED <<activeTool, moving, start, draft>>
        /\ ghosts # << >> /\ ghosts' = Front(ghosts)
    BY <1>16 DEF PressBackspace, Drawing
  <2>2. /\ ghosts' \in Seq(Seq(Atom)) /\ DOMAIN ghosts' \subseteq DOMAIN ghosts
        /\ \A i \in DOMAIN ghosts' : ghosts'[i] = ghosts[i]
    <3>1. /\ Len(ghosts) \in Nat /\ Len(ghosts) # 0 /\ DOMAIN ghosts = 1 .. Len(ghosts)
          /\ \A n \in 1 .. Len(ghosts) - 1 : ghosts[n] \in Seq(Atom)
      BY <1>1, <2>1, LenProperties, EmptySeq, ElementOfSeq
    <3>2. /\ SubSeq(ghosts, 1, Len(ghosts) - 1) \in Seq(Seq(Atom))
          /\ Len(SubSeq(ghosts, 1, Len(ghosts) - 1)) = Len(ghosts) - 1
          /\ \A i \in 1 .. Len(ghosts) - 1 : SubSeq(ghosts, 1, Len(ghosts) - 1)[i] = ghosts[i]
      BY <1>1, <3>1, SubSeqProperties
    <3>3. Front(ghosts) = SubSeq(ghosts, 1, Len(ghosts) - 1)
      BY DEF Front
    <3>4. DOMAIN Front(ghosts) = 1 .. Len(ghosts) - 1
      BY <3>2, <3>3, LenProperties
    <3>. QED
      BY <2>1, <3>1, <3>2, <3>3, <3>4
  <2>3. /\ \A i \in DOMAIN ghosts' : Apart(draft', ghosts'[i])
        /\ \A i, j \in DOMAIN ghosts' : j < i => Apart(ghosts'[i], ghosts'[j])
        /\ \A i \in DOMAIN ghosts', j \in DOMAIN reservations : Apart(ghosts'[i], reservations[j].atoms)
        /\ \A j \in DOMAIN reservations : Apart(draft', reservations[j].atoms)
    BY <1>3, <1>4, <1>5, <1>6, <2>1, <2>2
  <2>. QED
    BY <1>1, <2>1, <2>2, <2>3, DrawingKeeps
<1>17. ASSUME PressReturn \/ CancelDescription PROVE GhostInv'
  BY <1>17, NothingShownChanges DEF PressReturn, CancelDescription
<1>18. ASSUME EnterDescription PROVE GhostInv'
  <2>1. UNCHANGED <<activeTool, start, moving, draft>> /\ ghosts' = << >>
    BY <1>18 DEF EnterDescription
  <2>2. reservations' = reservations /\ rooms' = rooms /\ scene' = scene
    BY DEF BoardStays, boardVars
  <2>3. IsBoard(reservations', rooms') /\ GhostTypes' /\ ToolsApart'
    BY <1>1, <1>2, <2>1, <2>2 DEF GhostTypes, ToolsApart
  <2>4. NightsFree'
    BY <1>1, <1>2, <2>1, <2>2 DEF NightsFree, IsHeld
  <2>5. HeldOnBoard'
    BY <2>1, <2>2 DEF GhostInv, HeldOnBoard, IsHeld
  <2>6. BoardInScene'
    BY <2>2 DEF GhostInv, BoardInScene, UsedAddresses
  <2>. QED
    BY <2>3, <2>4, <2>5, <2>6 DEF GhostInv
<1>19. ASSUME NEW room \in Rooms, DragAtom(room) PROVE GhostInv'
  <2>1. /\ activeTool = "move-reservation" /\ moving # NotMoving /\ moving \in Movement
        /\ room = moving.room \/ IsFree(room, draft[moving.index])
        /\ draft' = [draft EXCEPT ![moving.index].room = room]
        /\ UNCHANGED <<activeTool, ghosts, start, moving>> /\ ghosts = << >>
    BY <1>1, <1>19 DEF DragAtom, Moving, ReservationInHand, toolVars
  <2>. DEFINE n == moving.index
  <2>2. PICK k \in DOMAIN reservations :
          /\ IsHeld(reservations[k])
          /\ reservations[k].atoms = [draft EXCEPT ![n].room = moving.room]
    BY <2>1 DEF GhostInv, HeldOnBoard
  <2>3. n \in DOMAIN draft /\ moving.shown /\ draft[n] \in Atom
    <3>1. n \in DOMAIN draft /\ moving.shown
      BY <2>1 DEF GhostInv, HeldOnBoard
    <3>. QED
      BY <1>1, <3>1, LenProperties, ElementOfSeq
  <2>4. reservations' = reservations /\ rooms' = rooms /\ scene' = scene
    BY DEF BoardStays, boardVars
  <2>5. draft' \in Seq(Atom) /\ DOMAIN draft' = DOMAIN draft
    <3>1. [draft[n] EXCEPT !.room = room] \in Atom
      BY <2>3 DEF Atom
    <3>2. draft' = [draft EXCEPT ![n] = [draft[n] EXCEPT !.room = room]]
      BY <2>1
    <3>3. [draft EXCEPT ![n] = [draft[n] EXCEPT !.room = room]] \in Seq(Atom)
      BY <1>1, <3>1, ReplacedInSeq
    <3>. QED
      BY <2>1, <3>2, <3>3
  <2>6. [draft' EXCEPT ![n].room = moving.room] = [draft EXCEPT ![n].room = moving.room]
    BY <2>1, <2>3 DEF Atom
  <2>7. ASSUME NEW j \in DOMAIN reservations, ~IsHeld(reservations[j])
        PROVE  Apart(draft', reservations[j].atoms)
    <3>1. CASE room = moving.room
      <4>1. draft' = reservations[k].atoms
        BY <2>1, <2>2, <3>1
      <4>2. j # k
        BY <2>2, <2>7
      <4>. QED
        BY <1>1, <4>1, <4>2, NightsApart, ApartMeans
    <3>2. CASE IsFree(room, draft[n])
      <4>1. Apart(draft, reservations[j].atoms)
        BY <1>1, <2>7 DEF NightsFree
      <4>2. \A d \in Dates : HasDate(draft[n], d) => ~HasNight(reservations[j].atoms, room, d)
        BY <1>1, <2>3, <3>2, FreeMeans
      <4>. QED
        BY <1>1, <2>1, <2>3, <4>1, <4>2, MovedApart
    <3>. QED
      BY <2>1, <3>1, <3>2
  <2>8. IsBoard(reservations', rooms') /\ GhostTypes' /\ ToolsApart'
    BY <1>1, <1>2, <2>1, <2>4, <2>5 DEF GhostTypes, ToolsApart
  <2>9. NightsFree'
    BY <1>2, <2>1, <2>4, <2>7 DEF NightsFree, IsHeld
  <2>10. HeldOnBoard' /\ BoardInScene'
    BY <2>1, <2>2, <2>3, <2>4, <2>5, <2>6 DEF GhostInv, HeldOnBoard, IsHeld, BoardInScene, UsedAddresses
  <2>. QED
    BY <2>8, <2>9, <2>10 DEF GhostInv
<1>20. ASSUME ReleaseAtom PROVE GhostInv'
  <2>1. UNCHANGED <<activeTool, ghosts, start>> /\ moving' = NotMoving /\ draft' = << >> /\ ghosts = << >>
    BY <1>1, <1>20 DEF ReleaseAtom, Moving
  <2>3. reservations' = reservations /\ rooms' = rooms /\ scene' = scene
    BY DEF BoardStays, boardVars
  <2>4. IsBoard(reservations', rooms') /\ GhostTypes' /\ ToolsApart'
    BY <1>1, <1>2, <2>1, <2>3 DEF GhostTypes, ToolsApart
  <2>5. NightsFree'
    BY <1>2, <2>1, EmptyIsApart DEF NightsFree
  <2>6. HeldOnBoard' /\ BoardInScene'
    BY <2>1, <2>3 DEF GhostInv, HeldOnBoard, BoardInScene, UsedAddresses
  <2>. QED
    BY <2>4, <2>5, <2>6 DEF GhostInv
<1>. QED
  BY <1>7, <1>8, <1>12, <1>13, <1>14, <1>15, <1>16, <1>17, <1>18, <1>19, <1>20 DEF User


\* The user presses on an atom, on a room or on a key.
LEMMA UserKeeps ==
  ASSUME GhostInv, Followed, UserEvents
  PROVE  GhostInv'
<1>1. UserUnchanged => BoardStays
  BY DEF UserUnchanged, BoardStays
<1>2. ASSUME NEW i \in DOMAIN reservations, NEW n \in DOMAIN reservations[i].atoms, PressItem(i, n)
      PROVE  GhostInv'
  <2>1. BoardStays
    BY <1>1, <1>2 DEF PressItem
  <2>2. CASE Moving /\ ~ReservationInHand
    <3>. DEFINE r == reservations[i]
    <3>1. /\ activeTool = "move-reservation" /\ UNCHANGED <<activeTool, ghosts, start>>
          /\ moving' = [id |-> r.id, revision |-> r.revision, index |-> n, room |-> r.atoms[n].room, shown |-> TRUE]
          /\ draft' = r.atoms
      BY <1>2, <2>2 DEF PressItem, PressAtom, Moving
    <3>2. /\ r \in BoardReservation /\ r.atoms \in Seq(Atom) /\ r.atoms[n] \in Atom /\ n \in Nat
      <4>1. r \in BoardReservation /\ r.atoms \in Seq(Atom)
        BY OnBoard DEF GhostInv
      <4>. QED
        BY <4>1, LenProperties, ElementOfSeq
    <3>3. moving' \in Movement /\ moving' # NotMoving
      <4>1. moving' \in Movement
        BY <3>1, <3>2 DEF Movement, BoardReservation, Atom
      <4>. QED
        BY <4>1, MovementInHand
    <3>4. reservations' = reservations /\ rooms' = rooms /\ scene' = scene
      BY <2>1 DEF BoardStays, boardVars
    <3>5. IsBoard(reservations', rooms') /\ GhostTypes' /\ ToolsApart'
      BY <3>1, <3>2, <3>3, <3>4 DEF GhostInv, GhostTypes, ToolsApart
    <3>6. NightsFree'
      <4>1. ghosts' = << >> /\ DOMAIN ghosts' = {}
        BY <3>1, EmptySeq DEF GhostInv, ToolsApart
      <4>2. ASSUME NEW j \in DOMAIN reservations, j # i PROVE Apart(draft', reservations[j].atoms)
        BY <3>1, <4>2, NightsApart, ApartMeans DEF GhostInv
      <4>3. IsHeld(reservations[i])'
        BY <3>1, <3>3, <3>4 DEF IsHeld
      <4>. QED
        BY <3>4, <4>1, <4>2, <4>3 DEF NightsFree
    <3>7. HeldOnBoard'
      <4>1. [draft' EXCEPT ![n].room = r.atoms[n].room] = r.atoms
        BY <3>1, <3>2 DEF Atom
      <4>2. moving'.shown /\ moving'.index = n /\ moving'.room = r.atoms[n].room /\ n \in DOMAIN draft'
        BY <3>1
      <4>3. IsHeld(reservations[i])'
        BY <3>1, <3>3, <3>4 DEF IsHeld
      <4>. QED
        BY <3>4, <4>1, <4>2, <4>3 DEF HeldOnBoard
    <3>8. BoardInScene'
      BY <3>4 DEF GhostInv, BoardInScene, UsedAddresses
    <3>. QED
      BY <3>5, <3>6, <3>7, <3>8 DEF GhostInv
  <2>3. CASE ~(Moving /\ ~ReservationInHand)
    <3>1. UNCHANGED <<draft, activeTool, ghosts, start, moving>>
      BY <1>2, <2>3 DEF PressItem, ghostVars, toolVars
    <3>. QED
      BY <2>1, <3>1, NothingShownChanges
  <2>. QED
    BY <2>2, <2>3
<1>3. ASSUME PressElsewhere \/ PressDelete PROVE GhostInv'
  <2>1. BoardStays /\ UNCHANGED <<draft, activeTool, ghosts, start, moving>>
    BY <1>1, <1>3 DEF PressElsewhere, PressDelete, ghostVars, toolVars
  <2>. QED
    BY <2>1, NothingShownChanges
<1>4. ASSUME NEW room \in Rooms, NEW date \in MouseDates, PressRoom(room, date) PROVE GhostInv'
  <2>1. BoardStays /\ User
    BY <1>1, <1>4 DEF PressRoom, User
  <2>. QED
    BY <2>1, ToolsKeep
<1>5. ASSUME UseTool PROVE GhostInv'
  <2>1. BoardStays /\ User
    BY <1>1, <1>5 DEF UseTool
  <2>. QED
    BY <2>1, ToolsKeep
<1>. QED
  BY <1>2, <1>3, <1>4, <1>5 DEF UserEvents

-----------------------------------------------------------------------------
(* What the widget is told *)

\* A pointer to no reservation ends what is followed.
LEMMA DanglingEnds ==
  ASSUME NEW a, a \in scene', a \notin UsedAddresses'
  PROVE  ~Followed'
BY DEF Followed, Dangling, Pointers

\* Taking a reservation off the board leaves the others.
LEMMA LeftOnBoard ==
  ASSUME NEW board, NEW rows, IsBoard(board, rows), NEW i \in DOMAIN board
  PROVE  /\ \A j \in DOMAIN RemoveAt(board, i) : \E k \in DOMAIN board \ {i} : RemoveAt(board, i)[j] = board[k]
         /\ \A k \in DOMAIN board \ {i} : \E j \in DOMAIN RemoveAt(board, i) : RemoveAt(board, i)[j] = board[k]
<1>. DEFINE shorter == RemoveAt(board, i)
<1>1. Len(board) \in Nat /\ DOMAIN board = 1 .. Len(board) /\ board \in Seq(BoardReservation) /\ i \in 1 .. Len(board)
  BY OnBoard DEF IsBoard
<1>2. /\ shorter \in Seq(BoardReservation) /\ DOMAIN shorter = 1 .. Len(board) - 1
      /\ \A j \in 1 .. Len(board) - 1 : shorter[j] = IF j < i THEN board[j] ELSE board[j + 1]
  BY <1>1, RemovedAt
<1>. HIDE DEF shorter
<1>3. ASSUME NEW j \in DOMAIN shorter PROVE \E k \in DOMAIN board \ {i} : shorter[j] = board[k]
  <2>1. CASE j < i
    <3>1. j \in DOMAIN board \ {i} /\ shorter[j] = board[j]
      BY <1>1, <1>2, <2>1
    <3>. QED
      BY <3>1
  <2>2. CASE ~(j < i)
    <3>1. j + 1 \in DOMAIN board \ {i} /\ shorter[j] = board[j + 1]
      BY <1>1, <1>2, <2>2
    <3>. QED
      BY <3>1
  <2>. QED
    BY <2>1, <2>2
<1>4. ASSUME NEW k \in DOMAIN board \ {i} PROVE \E j \in DOMAIN shorter : shorter[j] = board[k]
  <2>1. CASE k < i
    <3>1. k \in DOMAIN shorter /\ shorter[k] = board[k]
      BY <1>1, <1>2, <2>1
    <3>. QED
      BY <3>1
  <2>2. CASE ~(k < i)
    <3>1. k - 1 \in DOMAIN shorter /\ shorter[k - 1] = board[k]
      BY <1>1, <1>2, <2>2
    <3>. QED
      BY <3>1
  <2>. QED
    BY <2>1, <2>2
<1>. QED
  BY <1>3, <1>4 DEF shorter

\* A change takes a reservation off the board: its item, or that of the ghost, which is a copy
\* of it, is taken out of the scene.
LEMMA RemovingKeeps ==
  ASSUME GhostInv, Followed, NEW id, RemoveItem(id), RemoveFromBoard(id),
         UNCHANGED <<activeTool, ghosts, start, cleared, app>>
  PROVE  GhostInv'
<1>1. /\ IsBoard(reservations, rooms)
      /\ activeTool \in ToolNames /\ draft \in Seq(Atom) /\ ghosts \in Seq(Seq(Atom))
      /\ start \in Beginning \cup {Nowhere} /\ moving \in Movement \cup {NotMoving}
      /\ activeTool # "move-reservation" => moving = NotMoving
      /\ activeTool # "new-reservation" => ghosts = << >>
      /\ NightsFree
      /\ UsedAddresses \subseteq scene
  BY DEF GhostInv, GhostTypes, ToolsApart, BoardInScene
<1>2. draft' = draft
  BY DEF RemoveFromBoard, RemoveReservationById, TakeOff
<1>3. \/ /\ moving # NotMoving /\ moving.id = id
         /\ moving' = [moving EXCEPT !.shown = FALSE] /\ scene' = scene
      \/ /\ moving # NotMoving => moving.id # id
         /\ moving' = moving
         /\ scene' = scene \/ \E item \in {reservations[i].address : i \in WithId(id)} : scene' = scene \ {item}
  <2>1. moving # NotMoving => moving.shown
    BY DEF GhostInv, HeldOnBoard
  <2>. QED
    BY <2>1 DEF RemoveItem
<1>4. /\ moving' \in Movement \cup {NotMoving}
      /\ moving' # NotMoving <=> moving # NotMoving
      /\ moving # NotMoving => moving'.id = moving.id /\ moving'.revision = moving.revision
  <2>1. ASSUME moving # NotMoving, moving' = [moving EXCEPT !.shown = FALSE]
        PROVE  moving' \in Movement /\ moving'.id = moving.id /\ moving'.revision = moving.revision
    BY <1>1, <2>1 DEF Movement
  <2>. QED
    BY <1>1, <1>3, <2>1, MovementInHand
<1>5. \A r : IsHeld(r)' <=> IsHeld(r)
  BY <1>4 DEF IsHeld
<1>6. GhostTypes' /\ ToolsApart'
  BY <1>1, <1>2, <1>4 DEF GhostTypes, ToolsApart
<1>7. CASE WithId(id) = {}
  <2>1. reservations' = reservations /\ rooms' = rooms
    BY <1>7 DEF RemoveFromBoard, boardVars
  <2>2. moving' = moving /\ scene' = scene
    <3>1. ASSUME moving # NotMoving, moving.id = id PROVE FALSE
      <4>1. \E j \in DOMAIN reservations : reservations[j].id = id
        BY <3>1 DEF GhostInv, HeldOnBoard, IsHeld
      <4>. QED
        BY <1>7, <4>1 DEF WithId
    <3>. QED
      BY <1>3, <1>7, <3>1
  <2>3. IsBoard(reservations', rooms')
    BY <1>1, <2>1
  <2>4. NightsFree'
    BY <1>1, <1>2, <2>1, <2>2 DEF NightsFree, IsHeld
  <2>5. HeldOnBoard' /\ BoardInScene'
    BY <1>1, <1>2, <2>1, <2>2 DEF GhostInv, HeldOnBoard, BoardInScene, IsHeld, UsedAddresses
  <2>. QED
    BY <1>6, <2>3, <2>4, <2>5 DEF GhostInv
<1>8. CASE WithId(id) # {}
  <2>1. PICK i \in DOMAIN reservations : reservations[i].id = id /\ TakeOff(i)
    BY <1>8 DEF RemoveFromBoard, RemoveReservationById
  <2>2. IsBoard(reservations, rooms)'
    BY <1>1, <2>1, TakeOffKeeps
  <2>3. /\ \A j \in DOMAIN reservations' : \E k \in DOMAIN reservations \ {i} : reservations'[j] = reservations[k]
        /\ \A k \in DOMAIN reservations \ {i} : \E j \in DOMAIN reservations' : reservations'[j] = reservations[k]
    BY <1>1, <2>1, LeftOnBoard DEF TakeOff
  <2>4. reservations[i].address \notin UsedAddresses' /\ reservations[i].address \in scene
    <3>1. \A k \in DOMAIN reservations \ {i} : reservations[k].address # reservations[i].address
      BY <1>1, <2>1 DEF IsBoard
    <3>. QED
      BY <1>1, <2>1, <2>3, <3>1 DEF UsedAddresses
  <2>5. NightsFree'
    BY <1>1, <1>2, <1>5, <2>3 DEF NightsFree
  <2>6. BoardInScene'
    <3>. SUFFICES ASSUME Followed' PROVE UsedAddresses' \subseteq scene'
      BY DEF BoardInScene
    <3>1. reservations[i].address \notin scene'
      BY <2>4, DanglingEnds
    <3>2. \A a \in scene : a \in scene' \/ a = reservations[i].address
      BY <1>3, <2>4, <3>1
    <3>3. UsedAddresses' \subseteq UsedAddresses
      BY <2>3 DEF UsedAddresses
    <3>. QED
      BY <1>1, <2>4, <3>2, <3>3
  <2>7. HeldOnBoard'
    <3>. SUFFICES ASSUME Followed', moving' # NotMoving
                  PROVE  /\ moving'.shown /\ moving'.index \in DOMAIN draft'
                         /\ \E j \in DOMAIN reservations' :
                              /\ IsHeld(reservations[j])'
                              /\ reservations'[j].atoms = [draft' EXCEPT ![moving'.index].room = moving'.room]
      BY DEF HeldOnBoard
    <3>1. reservations[i].address \notin scene'
      BY <2>4, DanglingEnds
    <3>2. moving' = moving /\ moving.id # id
      BY <1>3, <1>4, <2>4, <3>1
    <3>3. PICK k \in DOMAIN reservations :
            IsHeld(reservations[k]) /\ reservations[k].atoms = [draft EXCEPT ![moving.index].room = moving.room]
      BY <3>2 DEF GhostInv, HeldOnBoard
    <3>4. k # i
      BY <2>1, <3>2, <3>3 DEF IsHeld
    <3>5. PICK j \in DOMAIN reservations' : reservations'[j] = reservations[k]
      BY <2>3, <3>4
    <3>6. moving.shown /\ moving.index \in DOMAIN draft
      BY <3>2 DEF GhostInv, HeldOnBoard
    <3>. QED
      BY <1>2, <1>5, <3>2, <3>3, <3>5, <3>6
  <2>. QED
    BY <1>6, <2>2, <2>5, <2>6, <2>7 DEF GhostInv
<1>. QED
  BY <1>7, <1>8


\* A reservation is put on the board, if it fits: the ghosts in its way are dropped.
LEMMA AddingKeeps ==
  ASSUME GhostInv, Followed, NEW item, item.parts \in Seq(Atom), item.id \in Nat, item.revision \in Nat,
         AddToBoard(item)
  PROVE  GhostInv'
<1>. DEFINE atoms == item.parts
            new == [address |-> NewAddress, id |-> item.id, revision |-> item.revision, atoms |-> atoms]
<1>1. /\ IsBoard(reservations, rooms)
      /\ activeTool \in ToolNames /\ draft \in Seq(Atom) /\ ghosts \in Seq(Seq(Atom))
      /\ start \in Beginning \cup {Nowhere} /\ moving \in Movement \cup {NotMoving}
      /\ activeTool # "move-reservation" => moving = NotMoving
      /\ activeTool # "new-reservation" => ghosts = << >>
      /\ NightsFree
      /\ UsedAddresses \subseteq scene
  BY DEF GhostInv, GhostTypes, ToolsApart, BoardInScene
<1>2. activeTool' = activeTool /\ cleared' = cleared
  BY DEF AddToBoard
<1>3. ghosts' = GhostsBeside(atoms)
  BY DEF AddToBoard, ReservationAdded
<1>4. \/ start' = Nowhere /\ moving' = NotMoving /\ draft' = << >>
      \/ UNCHANGED <<start, moving, draft>> /\ ~IntersectsWith(atoms, draft)
  BY DEF AddToBoard, ReservationAdded
<1>5. \/ /\ CanAddReservation(atoms) /\ app' = app
         /\ PutOn(NewAddress, item.id, item.revision, atoms)
         /\ scene' = scene \cup {NewAddress}
      \/ app' = "ended" /\ UNCHANGED <<reservations, rooms, scene>>
  BY DEF AddToBoard
<1>6. AreLeft(ghosts', atoms, Len(ghosts)) /\ DOMAIN ghosts = 1 .. Len(ghosts)
  BY <1>1, <1>3, GhostsLeft, LenProperties DEF NightsFree
<1>7. /\ ghosts' \in Seq(Seq(Atom))
      /\ \A i, j \in DOMAIN ghosts' : j < i => Apart(ghosts'[i], ghosts'[j])
      /\ \A i \in DOMAIN ghosts' : \E k \in DOMAIN ghosts : ghosts'[i] = ghosts[k] /\ ~IntersectsWith(atoms, ghosts[k])
  BY <1>6 DEF AreLeft
<1>8. GhostTypes'
  BY <1>1, <1>2, <1>4, <1>7, EmptySeq DEF GhostTypes
<1>9. ToolsApart'
  <2>1. ASSUME ghosts = << >> PROVE ghosts' = << >>
    <3>1. Len(ghosts') \in Nat /\ DOMAIN ghosts' = 1 .. Len(ghosts') /\ DOMAIN ghosts' = {}
      BY <1>7, <2>1, EmptySeq, LenProperties
    <3>2. Len(ghosts') = 0
      BY <3>1
    <3>. QED
      BY <1>7, <3>2, EmptySeq
  <2>. QED
    BY <1>1, <1>2, <1>4, <2>1 DEF ToolsApart
<1>10. \A i \in DOMAIN ghosts' : Apart(draft', ghosts'[i])
  BY <1>1, <1>4, <1>7, EmptyIsApart DEF NightsFree
<1>11. \A i \in DOMAIN ghosts', j \in DOMAIN reservations : Apart(ghosts'[i], reservations[j].atoms)
  BY <1>1, <1>7 DEF NightsFree
<1>12. \A j \in DOMAIN reservations : IsHeld(reservations[j])' \/ Apart(draft', reservations[j].atoms) \/ reservations'[j] # reservations[j]
  <2>1. CASE draft' = << >>
    BY <2>1, EmptyIsApart
  <2>2. CASE UNCHANGED <<start, moving, draft>>
    BY <1>1, <2>2 DEF NightsFree, IsHeld
  <2>. QED
    BY <1>4, <2>1, <2>2
<1>13. \A i \in DOMAIN ghosts' : Apart(ghosts'[i], atoms)
  <2>. SUFFICES ASSUME NEW i \in DOMAIN ghosts' PROVE Apart(ghosts'[i], atoms)
    OBVIOUS
  <2>1. PICK k \in DOMAIN ghosts : ghosts'[i] = ghosts[k] /\ ~IntersectsWith(atoms, ghosts[k])
    BY <1>7
  <2>2. ghosts[k] \in Seq(Atom)
    BY <1>1, LenProperties, ElementOfSeq
  <2>. QED
    BY <2>1, <2>2, BesideIsApart, ApartSymmetric
<1>14. Apart(draft', atoms)
  BY <1>1, <1>4, EmptyIsApart, BesideIsApart, ApartSymmetric
<1>15. CASE app' = "ended" /\ UNCHANGED <<reservations, rooms, scene>>
  <2>1. IsBoard(reservations', rooms')
    BY <1>1, <1>15
  <2>2. NightsFree'
    BY <1>7, <1>10, <1>11, <1>12, <1>15 DEF NightsFree
  <2>3. HeldOnBoard' /\ BoardInScene'
    BY <1>15 DEF HeldOnBoard, BoardInScene, Followed
  <2>. QED
    BY <1>8, <1>9, <2>1, <2>2, <2>3 DEF GhostInv
<1>16. CASE PutOn(NewAddress, item.id, item.revision, atoms) /\ scene' = scene \cup {NewAddress} /\ app' = app
  <2>1. IsBoard(reservations, rooms)'
    BY <1>1, <1>16, PutOnKeeps
  <2>2. reservations' = Append(reservations, new) /\ reservations \in Seq(BoardReservation) /\ new \in BoardReservation
    BY <1>1, <1>16 DEF PutOn, IsBoard, BoardReservation
  <2>3. /\ Len(reservations) \in Nat /\ DOMAIN reservations = 1 .. Len(reservations)
        /\ DOMAIN reservations' = 1 .. Len(reservations) + 1
        /\ \A j \in 1 .. Len(reservations) : reservations'[j] = reservations[j]
        /\ reservations'[Len(reservations) + 1].atoms = atoms
        /\ reservations'[Len(reservations) + 1].address = NewAddress
    <3>. HIDE DEF new
    <3>1. /\ Len(reservations) \in Nat /\ DOMAIN reservations = 1 .. Len(reservations)
          /\ reservations' \in Seq(BoardReservation) /\ Len(reservations') = Len(reservations) + 1
          /\ reservations'[Len(reservations) + 1] = new
          /\ \A j \in 1 .. Len(reservations) : reservations'[j] = reservations[j]
      BY <2>2, AppendProperties, LenProperties
    <3>2. DOMAIN reservations' = 1 .. Len(reservations) + 1
      BY <3>1, LenProperties
    <3>. QED
      BY <3>1, <3>2 DEF new
  <2>4. ASSUME NEW i \in DOMAIN ghosts', NEW j \in DOMAIN reservations'
        PROVE  Apart(ghosts'[i], reservations'[j].atoms)
    <3>1. CASE j \in DOMAIN reservations
      BY <1>11, <2>3, <3>1
    <3>2. CASE j = Len(reservations) + 1
      BY <1>13, <2>3, <3>2
    <3>. QED
      BY <2>3, <3>1, <3>2
  <2>5. ASSUME NEW j \in DOMAIN reservations'
        PROVE  IsHeld(reservations[j])' \/ Apart(draft', reservations'[j].atoms)
    <3>1. CASE j \in DOMAIN reservations
      BY <1>12, <2>3, <3>1
    <3>2. CASE j = Len(reservations) + 1
      BY <1>14, <2>3, <3>2
    <3>. QED
      BY <2>3, <3>1, <3>2
  <2>6. NightsFree'
    BY <1>7, <1>10, <2>4, <2>5 DEF NightsFree
  <2>7. HeldOnBoard'
    <3>1. CASE moving' = NotMoving
      BY <3>1 DEF HeldOnBoard
    <3>2. CASE moving' # NotMoving
      <4>1. moving' = moving /\ draft' = draft /\ moving # NotMoving
        BY <1>4, <3>2
      <4>2. PICK k \in DOMAIN reservations :
              IsHeld(reservations[k]) /\ reservations[k].atoms = [draft EXCEPT ![moving.index].room = moving.room]
        BY <4>1 DEF GhostInv, HeldOnBoard
      <4>3. moving.shown /\ moving.index \in DOMAIN draft
        BY <4>1 DEF GhostInv, HeldOnBoard
      <4>4. k \in DOMAIN reservations' /\ reservations'[k] = reservations[k]
        BY <2>3
      <4>5. IsHeld(reservations[k])'
        BY <4>1, <4>2, <4>4 DEF IsHeld
      <4>. QED
        BY <4>1, <4>2, <4>3, <4>4, <4>5 DEF HeldOnBoard
    <3>. QED
      BY <3>1, <3>2
  <2>8. BoardInScene'
    <3>1. ASSUME NEW j \in DOMAIN reservations' PROVE reservations'[j].address \in scene'
      <4>1. CASE j \in DOMAIN reservations
        BY <1>1, <1>16, <2>3, <4>1 DEF UsedAddresses
      <4>2. CASE j = Len(reservations) + 1
        BY <1>16, <2>3, <4>2
      <4>. QED
        BY <2>3, <4>1, <4>2
    <3>. QED
      BY <3>1 DEF BoardInScene, UsedAddresses
  <2>. QED
    BY <1>8, <1>9, <2>1, <2>6, <2>7, <2>8 DEF GhostInv
<1>. QED
  BY <1>5, <1>15, <1>16

\* allReservationsRemoved takes the items out of the scene; the board and the ghosts stay.
LEMMA ClearingKeeps ==
  ASSUME GhostInv, AllReservationsRemoved
  PROVE  GhostInv'
<1>1. UNCHANGED <<reservations, rooms, draft, activeTool, ghosts, start>> /\ cleared' = TRUE
  BY DEF AllReservationsRemoved, boardVars
<1>2. ~Followed'
  BY <1>1 DEF Followed
<1>3. /\ moving' \in Movement \cup {NotMoving}
      /\ moving' # NotMoving <=> moving # NotMoving
      /\ moving # NotMoving => moving'.id = moving.id /\ moving'.revision = moving.revision
  <2>1. moving \in Movement \cup {NotMoving}
    BY DEF GhostInv, GhostTypes
  <2>2. ASSUME moving # NotMoving, moving' = [moving EXCEPT !.shown = FALSE]
        PROVE  moving' \in Movement /\ moving'.id = moving.id /\ moving'.revision = moving.revision
    BY <2>1, <2>2 DEF Movement
  <2>. QED
    BY <2>1, <2>2, MovementInHand DEF AllReservationsRemoved
<1>4. IsBoard(reservations', rooms')
  BY <1>1 DEF GhostInv
<1>5. GhostTypes' /\ ToolsApart'
  BY <1>1, <1>3 DEF GhostInv, GhostTypes, ToolsApart
<1>6. NightsFree'
  BY <1>1, <1>3 DEF GhostInv, NightsFree, IsHeld
<1>7. HeldOnBoard' /\ BoardInScene'
  BY <1>2 DEF HeldOnBoard, BoardInScene
<1>. QED
  BY <1>4, <1>5, <1>6, <1>7 DEF GhostInv


\* What an added change and an updated one tell of: items with atoms.
LEMMA ToldItems ==
  ASSUME ServerTypes, changes # << >>
  PROVE  /\ Head(changes) \in Change /\ Tail(changes) \in Seq(Change)
         /\ Head(changes).kind \in {"added", "updated"} =>
              /\ Head(changes).items \in SUBSET Item
              /\ \A item \in Head(changes).items :
                   item.parts \in Seq(Atom) /\ item.id \in Nat /\ item.revision \in Nat
<1>1. Head(changes) \in Change /\ Tail(changes) \in Seq(Change)
  BY HeadTailProperties DEF ServerTypes
<1>2. ASSUME Head(changes).kind \in {"added", "updated"} PROVE Head(changes).items \in SUBSET Item
  BY <1>1, <1>2 DEF Change, Cleared, Initialized
<1>3. \A item \in Item : item.parts \in Seq(Atom) /\ item.id \in Nat /\ item.revision \in Nat
  BY ToolsAssumption DEF Item
<1>. QED
  BY <1>1, <1>2, <1>3

\* The widget follows the stream.
LEMMA MainThreadKeeps ==
  ASSUME GhostInv, ServerTypes, Followed, MainThread
  PROVE  GhostInv'
<1>1. ASSUME ReservationsAdded PROVE GhostInv'
  <2>1. changes # << >> /\ Head(changes).kind = "added"
    BY <1>1 DEF ReservationsAdded, Told
  <2>2. CASE Head(changes).items = {}
    <3>1. BoardStays /\ UNCHANGED <<draft, activeTool, ghosts, start, moving>>
      BY <1>1, <2>2 DEF ReservationsAdded, BoardStays, sceneVars, ghostVars, toolVars
    <3>. QED
      BY <3>1, NothingShownChanges
  <2>3. CASE Head(changes).items # {}
    <3>1. PICK item \in Head(changes).items : AddToBoard(item)
      BY <1>1, <2>3 DEF ReservationsAdded
    <3>2. item.parts \in Seq(Atom) /\ item.id \in Nat /\ item.revision \in Nat
      BY <2>1, ToldItems
    <3>. QED
      BY <3>1, <3>2, AddingKeeps
  <2>. QED
    BY <2>2, <2>3
<1>2. ASSUME ReservationsUpdated PROVE GhostInv'
  <2>1. PICK item \in Head(changes).items : RemoveItem(item.id) /\ RemoveFromBoard(item.id)
    BY <1>2 DEF ReservationsUpdated
  <2>2. UNCHANGED <<activeTool, ghosts, start, cleared, app>>
    BY <1>2 DEF ReservationsUpdated
  <2>. QED
    BY <2>1, <2>2, RemovingKeeps
<1>3. ASSUME ReservationsRemoved PROVE GhostInv'
  <2>1. PICK id \in Head(changes).ids : RemoveItem(id) /\ RemoveFromBoard(id)
    BY <1>3 DEF ReservationsRemoved
  <2>2. UNCHANGED <<activeTool, ghosts, start, cleared, app>>
    BY <1>3 DEF ReservationsRemoved
  <2>. QED
    BY <2>1, <2>2, RemovingKeeps
<1>. QED
  BY <1>1, <1>2, <1>3, ClearingKeeps DEF MainThread

-----------------------------------------------------------------------------
(* The backend *)

\* Executing a batch keeps the types, whoever sent it.
LEMMA ExecuteTypes ==
  ASSUME ServerTypes, NEW batch \in Seq(Operation), Execute(batch)
  PROVE  storage' \in Database /\ changes' \in Seq(Change)
<1>1. Executed(storage, batch).db \in Database /\ Executed(storage, batch).changes \in Seq(Change)
  BY ExecutedType DEF ServerTypes
<1>2. changes \o Executed(storage, batch).changes \in Seq(Change)
  BY <1>1, ConcatProperties DEF ServerTypes
<1>. QED
  BY <1>1, <1>2 DEF Execute

\* What other clients send are operations.
LEMMA OthersSendOperations ==
  ASSUME ServerTypes
  PROVE  OtherOperations \subseteq Operation
<1>1. \A atoms \in Theirs : [op |-> "StoreNew", item |-> NewItem(atoms)] \in Operation
  BY WidgetAssumption, NewItemType
<1>2. Loaded(storage, AllReservations) \subseteq Item
  <2>1. AllReservations \in Endpoint
    BY DEF AllReservations, Endpoint, Tables
  <2>. QED
    BY <2>1, LoadedType DEF ServerTypes
<1>3. ASSUME NEW item \in Loaded(storage, AllReservations), NEW atoms \in Theirs
      PROVE  [op |-> "Update", item |-> [item EXCEPT !.parts = atoms]] \in Operation
  <2>1. item \in Item /\ atoms \in Seq(Part)
    BY <1>2, WidgetAssumption, ToolsAssumption
  <2>2. [item EXCEPT !.parts = atoms] \in Item
    BY <2>1 DEF Item
  <2>. QED
    BY <2>2 DEF Operation
<1>4. ASSUME NEW item \in Loaded(storage, AllReservations)
      PROVE  [op |-> "Delete", type |-> "Reservation", id |-> item.id] \in Operation
  <2>1. item.id \in Nat
    BY <1>2 DEF Item
  <2>. QED
    BY <2>1 DEF Operation
<1>5. [op |-> "EraseAllData"] \in Operation
  BY DEF Operation
<1>. QED
  BY <1>1, <1>3, <1>4, <1>5 DEF OtherOperations

\* SetToSeq of a finite set is a sequence of its members.
LEMMA SelectedInSeq ==
  ASSUME NEW S, IsFiniteSet(S)
  PROVE  Cardinality(S) \in Nat /\ SetToSeq(S) \in [1 .. Cardinality(S) -> S]
<1>1. Cardinality(S) \in Nat
  BY FS_CardinalityType
<1>2. PICK n \in Nat : ExistsBijection(1 .. n, S)
  BY FS_NatBijection
<1>3. n = Cardinality(S)
  BY <1>2, FS_CountingElements
<1>4. \E f \in [1 .. Cardinality(S) -> S] : IsInjective(f)
  BY <1>2, <1>3 DEF ExistsBijection, Bijection, Injection, IsInjective
<1>. QED
  BY <1>1, <1>4 DEF SetToSeq

\* The batches which the user's tools queue are of operations.
LEMMA RequestTypes ==
  ASSUME GhostInv, ServerTypes, UserEvents
  PROVE  requests' \in Seq(Seq(Operation))
<1>1. requests \in Seq(Seq(Operation)) /\ draft \in Seq(Atom) /\ ghosts \in Seq(Seq(Atom)) /\ Part = Atom /\ Columns \in Fields
  BY ToolsAssumption DEF GhostInv, GhostTypes, ServerTypes, Columns
<1>2. ASSUME NEW queued \in Seq(Seq(Operation)), QueueOperations(queued) PROVE requests' \in Seq(Seq(Operation))
  BY <1>1, <1>2, ConcatProperties DEF QueueOperations
<1>3. ASSUME EnterDescription PROVE requests' \in Seq(Seq(Operation))
  <2>. DEFINE batch(i) == <<[op |-> "StoreNew", item |-> NewItem(ghosts[i])]>>
              queued == [i \in DOMAIN ghosts |-> batch(i)]
  <2>1. Len(ghosts) \in Nat /\ DOMAIN ghosts = 1 .. Len(ghosts) /\ \A i \in 1 .. Len(ghosts) : ghosts[i] \in Seq(Atom)
    BY <1>1, LenProperties, ElementOfSeq
  <2>2. ASSUME NEW i \in 1 .. Len(ghosts) PROVE batch(i) \in Seq(Operation)
    <3>1. [op |-> "StoreNew", item |-> NewItem(ghosts[i])] \in Operation
      BY <2>1, NewItemType
    <3>. QED
      BY <3>1
  <2>. HIDE DEF batch
  <2>3. queued \in [1 .. Len(ghosts) -> Seq(Operation)]
    BY <2>1, <2>2
  <2>4. queued \in Seq(Seq(Operation))
    BY <2>1, <2>3, SeqDef
  <2>5. QueueOperations(queued)
    BY <1>3 DEF EnterDescription, batch
  <2>. QED
    BY <1>2, <2>4, <2>5
<1>4. ASSUME ReleaseAtom PROVE requests' \in Seq(Seq(Operation))
  <2>. DEFINE item == [type |-> "Reservation", id |-> moving.id, revision |-> moving.revision,
                       fields |-> Columns, parts |-> Joined(draft)]
              queued == << <<[op |-> "Update", item |-> item]>> >>
  <2>1. moving \in Movement
    BY <1>4 DEF ReleaseAtom, ReservationInHand, GhostInv, GhostTypes
  <2>2. Joined(draft) \in Seq(Part)
    BY <1>1, JoinedType
  <2>3. item \in Item
    BY <1>1, <2>1, <2>2 DEF Item, ItemTypes, Tables, Movement
  <2>4. QueueOperations(queued)
    BY <1>4 DEF ReleaseAtom
  <2>. HIDE DEF item
  <2>5. [op |-> "Update", item |-> item] \in Operation
    BY <2>3 DEF Operation
  <2>6. queued \in Seq(Seq(Operation))
    BY <2>5
  <2>. QED
    BY <1>2, <2>4, <2>6
<1>5. ASSUME PressDelete PROVE requests' \in Seq(Seq(Operation))
  <2>. DEFINE ids == SetToSeq(SelectedIds)
              Op(i) == [op |-> "Delete", type |-> "Reservation", id |-> ids[i]]
              batch == [i \in 1 .. Cardinality(SelectedIds) |-> Op(i)]
  <2>1. SelectedIds \in SUBSET Nat /\ IsFiniteSet(SelectedIds)
    <3>. DEFINE D == {j \in DOMAIN reservations : reservations[j].address \in selected}
    <3>1. IsFiniteSet(DOMAIN reservations) /\ \A i \in DOMAIN reservations : reservations[i].id \in Nat
      <4>1. Len(reservations) \in Nat /\ DOMAIN reservations = 1 .. Len(reservations)
        BY OnBoard DEF GhostInv
      <4>2. \A i \in DOMAIN reservations : reservations[i] \in BoardReservation
        BY OnBoard DEF GhostInv
      <4>. QED
        BY <4>1, <4>2, FS_Interval DEF BoardReservation
    <3>2. IsFiniteSet(D)
      BY <3>1, FS_Subset
    <3>3. IsFiniteSet({reservations[i].id : i \in D})
      <4>. DEFINE f == [i \in D |-> reservations[i].id]
                  T == {reservations[i].id : i \in D}
      <4>. HIDE DEF D
      <4>1. f \in Surjection(D, T)
        BY DEF Surjection
      <4>. HIDE DEF f, T
      <4>2. IsFiniteSet(T)
        BY <3>2, <4>1, FS_Surjection DEF ExistsSurjection
      <4>. QED
        BY <4>2 DEF T
    <3>. QED
      BY <3>1, <3>3 DEF SelectedIds
  <2>2. Cardinality(SelectedIds) \in Nat /\ ids \in [1 .. Cardinality(SelectedIds) -> SelectedIds]
    BY <2>1, SelectedInSeq
  <2>3. ASSUME NEW i \in 1 .. Cardinality(SelectedIds) PROVE Op(i) \in Operation
    <3>1. ids[i] \in Nat
      <4>. HIDE DEF ids
      <4>. QED
        BY <2>1, <2>2
    <3>. HIDE DEF ids
    <3>. QED
      BY <3>1 DEF Operation
  <2>. HIDE DEF Op
  <2>4. batch \in Seq(Operation)
    <3>1. batch \in [1 .. Cardinality(SelectedIds) -> Operation]
      BY <2>3
    <3>. QED
      BY <2>2, <3>1, SeqDef
  <2>5. QueueOperations(<<batch>>)
    BY <1>5 DEF PressDelete, Op
  <2>. HIDE DEF batch
  <2>6. <<batch>> \in Seq(Seq(Operation))
    BY <2>4
  <2>. QED
    BY <1>2, <2>5, <2>6
<1>6. ASSUME User PROVE requests' \in Seq(Seq(Operation))
  <2>1. CASE UNCHANGED requests
    BY <1>1, <2>1
  <2>. QED
    BY <1>3, <1>4, <1>6, <2>1
       DEF User, ActivateTool, PressMouse, ShiftDragMouse, DragMouse, ReleaseMouse, PressEscape, PressBackspace,
           PressReturn, CancelDescription, DragAtom, requestVars
<1>7. ASSUME NEW i, NEW n, PressItem(i, n) PROVE UNCHANGED requests
  BY <1>7 DEF PressItem, PressAtom, requestVars
<1>8. ASSUME NEW room \in Rooms, NEW date \in MouseDates, PressRoom(room, date) PROVE UNCHANGED requests
  BY <1>8 DEF PressRoom, PressMouse
<1>9. ASSUME PressElsewhere PROVE UNCHANGED requests
  BY <1>9 DEF PressElsewhere, requestVars
<1>. QED
  BY <1>1, <1>5, <1>6, <1>7, <1>8, <1>9 DEF UserEvents, UseTool


-----------------------------------------------------------------------------
(* PlanningWidget *)

\* The inductive invariant.
WidgetInv == GhostInv /\ ServerTypes

\* The widget has no ghosts at first, and an empty board.
LEMMA WidgetStart == WidgetInit => WidgetInv
<1>. SUFFICES ASSUME WidgetInit PROVE WidgetInv
  OBVIOUS
<1>1. /\ draft = << >> /\ reservations = << >> /\ rooms = [room \in Rooms |-> << >>]
      /\ activeTool = "" /\ ghosts = << >> /\ start = Nowhere /\ moving = NotMoving
      /\ requests = << >> /\ storage = StoredFirst
      /\ changes = InitialChanges(storage, AllReservations)
  BY DEF WidgetInit, Init, ToolsInit
<1>2. << >> \in Seq(Atom) /\ << >> \in Seq(Seq(Atom)) /\ << >> \in Seq(Seq(Operation)) /\ DOMAIN << >> = {}
  BY EmptySeq
<1>3. IsBoard(reservations, rooms)
  BY <1>1, EmptyBoard
<1>4. GhostTypes /\ ToolsApart
  BY <1>1, <1>2 DEF GhostTypes, ToolsApart, ToolNames
<1>5. NightsFree /\ HeldOnBoard /\ BoardInScene
  BY <1>1, <1>2 DEF NightsFree, HeldOnBoard, BoardInScene, UsedAddresses
<1>6. ServerTypes
  <2>1. storage \in Database /\ AllReservations \in Endpoint
    BY <1>1, StoredFirstType DEF AllReservations, Endpoint, Tables
  <2>2. changes \in Seq(Change)
    BY <1>1, <2>1, InitialChangesType
  <2>. QED
    BY <1>1, <1>2, <2>1, <2>2 DEF ServerTypes
<1>. QED
  BY <1>3, <1>4, <1>5, <1>6 DEF WidgetInv, GhostInv

\* Every step of the backend, of the main thread and of the user keeps it.
LEMMA WidgetStep == WidgetInv /\ [WidgetNext]_widgetVars => WidgetInv'
<1>. SUFFICES ASSUME WidgetInv, [WidgetNext]_widgetVars PROVE WidgetInv'
  OBVIOUS
<1>1. GhostInv /\ ServerTypes
  BY DEF WidgetInv
<1>2. ASSUME Followed, Backend PROVE WidgetInv'
  <2>1. BoardStays /\ UNCHANGED <<draft, activeTool, ghosts, start, moving>>
    BY <1>2 DEF Backend, ExecuteRequest, ExecuteOther, BoardStays, ghostVars, toolVars, sceneVars
  <2>2. GhostInv'
    BY <1>1, <1>2, <2>1, NothingShownChanges
  <2>3. ASSUME ExecuteRequest PROVE ServerTypes'
    <3>1. Head(requests) \in Seq(Operation) /\ requests' \in Seq(Seq(Operation))
      BY <1>1, <2>3, HeadTailProperties DEF ExecuteRequest, ServerTypes
    <3>2. storage' \in Database /\ changes' \in Seq(Change)
      BY <1>1, <2>3, <3>1, ExecuteTypes DEF ExecuteRequest
    <3>. QED
      BY <3>1, <3>2 DEF ServerTypes
  <2>4. ASSUME ExecuteOther PROVE ServerTypes'
    <3>1. PICK op \in OtherOperations : Execute(<<op>>)
      BY <2>4 DEF ExecuteOther
    <3>2. op \in Operation
      BY <1>1, OthersSendOperations
    <3>3. <<op>> \in Seq(Operation)
      BY <3>2
    <3>4. storage' \in Database /\ changes' \in Seq(Change)
      BY <1>1, <3>1, <3>3, ExecuteTypes
    <3>5. requests' = requests
      BY <2>4 DEF ExecuteOther, requestVars
    <3>. QED
      BY <1>1, <3>4, <3>5 DEF ServerTypes
  <2>. QED
    BY <1>2, <2>2, <2>3, <2>4 DEF Backend, WidgetInv
<1>3. ASSUME Followed, MainThread PROVE WidgetInv'
  <2>1. GhostInv'
    BY <1>1, <1>3, MainThreadKeeps
  <2>2. changes # << >> /\ UNCHANGED <<requestVars, backendVars>>
    BY <1>3 DEF MainThread, ReservationsAdded, ReservationsUpdated, ReservationsRemoved, AllReservationsRemoved, Told
  <2>3. Head(changes) \in Change /\ Tail(changes) \in Seq(Change)
    BY <1>1, <2>2, ToldItems
  <2>4. ASSUME NEW items \in SUBSET Item PROVE <<Added(items)>> \o Tail(changes) \in Seq(Change)
    <3>1. <<Added(items)>> \in Seq(Change)
      BY <2>4 DEF Added, Change
    <3>. QED
      BY <2>3, <3>1, ConcatProperties
  <2>5. changes' \in Seq(Change)
    <3>1. CASE changes' = Tail(changes)
      BY <2>3, <3>1
    <3>2. ASSUME ReservationsAdded, changes' # Tail(changes) PROVE changes' \in Seq(Change)
      <4>1. PICK item \in Head(changes).items : Handled(item)
        BY <3>2 DEF ReservationsAdded
      <4>2. Head(changes).items \ {item} \in SUBSET Item
        BY <1>1, <2>2, <3>2, ToldItems DEF ReservationsAdded, Told
      <4>. QED
        BY <2>4, <3>2, <4>1, <4>2 DEF Handled
    <3>3. ASSUME ReservationsUpdated PROVE changes' \in Seq(Change)
      <4>1. Head(changes).items \in SUBSET Item
        BY <1>1, <2>2, <3>3, ToldItems DEF ReservationsUpdated, Told
      <4>. QED
        BY <2>4, <3>3, <4>1 DEF ReservationsUpdated
    <3>. QED
      BY <1>3, <3>1, <3>2, <3>3 DEF MainThread, ReservationsRemoved, AllReservationsRemoved
  <2>6. ServerTypes'
    BY <1>1, <2>2, <2>5 DEF ServerTypes, requestVars, backendVars
  <2>. QED
    BY <2>1, <2>6 DEF WidgetInv
<1>4. ASSUME Followed, UserEvents PROVE WidgetInv'
  <2>1. GhostInv'
    BY <1>1, <1>4, UserKeeps
  <2>2. requests' \in Seq(Seq(Operation))
    BY <1>1, <1>4, RequestTypes
  <2>3. UserUnchanged
    BY <1>4 DEF UserEvents, PressItem, PressElsewhere, PressRoom, PressDelete, UseTool
  <2>4. ServerTypes'
    BY <1>1, <2>2, <2>3 DEF UserUnchanged, backendVars, changeVars, ServerTypes
  <2>. QED
    BY <2>1, <2>4 DEF WidgetInv
<1>5. CASE UNCHANGED widgetVars
  <2>1. BoardStays /\ UNCHANGED <<draft, activeTool, ghosts, start, moving, selected, app, cleared>>
        /\ UNCHANGED <<storage, changes, requests>>
    BY <1>5 DEF widgetVars, BoardStays, ghostVars, toolVars, sceneVars, backendVars, changeVars, requestVars
  <2>2. reservations' = reservations /\ rooms' = rooms /\ scene' = scene
    BY <2>1 DEF BoardStays, boardVars
  <2>3. IsBoard(reservations', rooms') /\ GhostTypes' /\ ToolsApart' /\ ServerTypes'
    BY <1>1, <2>1, <2>2 DEF GhostInv, GhostTypes, ToolsApart, ServerTypes
  <2>4. NightsFree' /\ HeldOnBoard' /\ BoardInScene'
    <3>1. Followed' <=> Followed
      BY <2>1, <2>2 DEF Followed, Dangling, Pointers, UsedAddresses
    <3>. QED
      <4>1. NightsFree /\ HeldOnBoard /\ BoardInScene
        BY <1>1 DEF GhostInv
      <4>2. NightsFree'
        BY <2>1, <2>2, <4>1 DEF NightsFree, IsHeld
      <4>3. HeldOnBoard'
        BY <2>1, <2>2, <3>1, <4>1 DEF HeldOnBoard, IsHeld
      <4>4. BoardInScene'
        BY <2>2, <3>1, <4>1 DEF BoardInScene, UsedAddresses
      <4>. QED
        BY <4>2, <4>3, <4>4
  <2>. QED
    BY <2>3, <2>4 DEF WidgetInv, GhostInv
<1>. QED
  BY <1>2, <1>3, <1>4, <1>5 DEF WidgetNext, Stopped

\* While the tools draw and move reservations and other clients store theirs, the ghosts have
\* no night in common with each other or with a reservation on the board, but for the one which
\* the Move tool holds a copy of.
THEOREM GhostsStayFree == WidgetSpec => []GhostsAreFree
<1>1. WidgetInv => GhostsAreFree
  <2>. SUFFICES ASSUME WidgetInv PROVE GhostsAreFree
    OBVIOUS
  <2>1. NightsFree /\ Len(ghosts) \in Nat /\ DOMAIN ghosts = 1 .. Len(ghosts)
    BY LenProperties DEF WidgetInv, GhostInv, GhostTypes
  <2>2. ASSUME NEW i \in DOMAIN ghosts
        PROVE  /\ Nights(draft) \cap Nights(ghosts[i]) = {}
               /\ \A j \in 1 .. i - 1 : Nights(ghosts[i]) \cap Nights(ghosts[j]) = {}
               /\ \A j \in DOMAIN reservations : Nights(ghosts[i]) \cap Nights(reservations[j].atoms) = {}
    <3>1. \A j \in 1 .. i - 1 : j \in DOMAIN ghosts /\ j < i
      BY <2>1
    <3>. QED
      BY <2>1, <3>1, ApartMeans DEF NightsFree
  <2>3. ASSUME NEW j \in DOMAIN reservations \ Held
        PROVE  Nights(draft) \cap Nights(reservations[j].atoms) = {}
    BY <2>1, ApartMeans DEF NightsFree, IsHeld, Held
  <2>4. \A i \in DOMAIN ghosts : \A j \in 1 .. i - 1 : j \in DOMAIN ghosts
    BY <2>1
  <2>. QED
    BY <2>2, <2>3, <2>4 DEF GhostsAreFree
<1>. QED
  BY <1>1, WidgetStart, WidgetStep, PTL DEF WidgetSpec

-----------------------------------------------------------------------------
(* From the board to the storage, along the changes *)

\* A reservation, as the board shows it and as the storage holds it
Entry(id, revision, parts) == [id |-> id, revision |-> revision, parts |-> parts]

\* The entries of a stream's items
EntriesOf(items) == {Entry(item.id, item.revision, item.parts) : item \in items}

\* The entries of a board, and of a storage: every reservation which a stream loads
Shown(board) == {Entry(board[i].id, board[i].revision, board[i].atoms) : i \in DOMAIN board}
StoredIn(db) == EntriesOf(Loaded(db, AllReservations))

\* Valid reservations without a night in common
Fits(E) ==
  /\ \A e \in E : IsValid(e.parts)
  /\ \A e, g \in E : e = g \/ Apart(e.parts, g.parts)

\* The entries but for those of an id
Without(E, id) == {e \in E : e.id # id}

\* What a change makes of a board's entries: what is added is new, and an update or a removal is
\* of one reservation, which may not be there.
Follows(E, change, F) ==
  \/ /\ change.kind = "added"
     /\ \A item \in change.items : \A e \in E : e.id # item.id
     /\ \A item, other \in change.items : item.id = other.id => item = other
     /\ F = E \cup EntriesOf(change.items)
  \/ \E item : /\ change = Updated({item})
               /\ F = Without(E, item.id) \cup EntriesOf({item})
  \/ \E id : change = Removed({id}) /\ F = Without(E, id)
  \/ change = Cleared /\ F = {}

\* What follows from a change of a kind
LEMMA FollowsByKind ==
  ASSUME NEW E, NEW change, NEW F, Follows(E, change, F)
  PROVE  /\ change.kind = "added" =>
              /\ \A item \in change.items : \A e \in E : e.id # item.id
              /\ \A item, other \in change.items : item.id = other.id => item = other
              /\ F = E \cup EntriesOf(change.items)
         /\ change.kind = "updated" =>
              \E item : change = Updated({item}) /\ F = Without(E, item.id) \cup EntriesOf({item})
         /\ change.kind = "removed" =>
              \E id : change = Removed({id}) /\ F = Without(E, id)
<1>1. \A S : Updated(S).kind = "updated" /\ Removed(S).kind = "removed"
  BY DEF Updated, Removed
<1>2. Cleared.kind = "cleared"
  BY DEF Cleared
<1>. QED
  BY <1>1, <1>2 DEF Follows

\* A log of changes leads from some entries to others, and as long as it is calm nothing on the
\* way is booked twice.
IsPath(f, E, log, F, calm) ==
  /\ f[0] = E /\ f[Len(log)] = F
  /\ \A n \in 1 .. Len(log) : Follows(f[n - 1], log[n], f[n])
  /\ calm => \A n \in 0 .. Len(log) : Fits(f[n])

Leads(E, log, F, calm) == \E f : IsPath(f, E, log, F, calm)

\* An empty log leads nowhere else.
LEMMA LeadsNowhere ==
  ASSUME NEW E, NEW F, NEW calm \in BOOLEAN
  PROVE  Leads(E, << >>, F, calm) <=> E = F /\ (calm => Fits(E))
<1>1. Len(<< >>) = 0
  BY EmptySeq
<1>2. ASSUME NEW f, IsPath(f, E, << >>, F, calm) PROVE E = F /\ (calm => Fits(E))
  BY <1>1, <1>2 DEF IsPath
<1>3. ASSUME E = F, calm => Fits(E) PROVE Leads(E, << >>, F, calm)
  <2>. DEFINE f == [n \in {0} |-> E]
  <2>1. f[0] = E /\ \A n \in 0 .. 0 : n = 0
    OBVIOUS
  <2>. HIDE DEF f
  <2>2. IsPath(f, E, << >>, F, calm)
    BY <1>1, <1>3, <2>1 DEF IsPath
  <2>. QED
    BY <2>2 DEF Leads
<1>. QED
  BY <1>2, <1>3 DEF Leads

\* One change leads to what follows from it.
LEMMA LeadsInOne ==
  ASSUME NEW E, NEW F, NEW change, NEW calm \in BOOLEAN, Follows(E, change, F), calm => Fits(E) /\ Fits(F)
  PROVE  Leads(E, <<change>>, F, calm)
<1>. DEFINE f == [n \in 0 .. 1 |-> IF n = 0 THEN E ELSE F]
            log == <<change>>
<1>1. f[0] = E /\ f[1] = F /\ Len(log) = 1 /\ log[1] = change
  OBVIOUS
<1>2. (\A n \in 0 .. 1 : n = 0 \/ n = 1) /\ (\A n \in 1 .. 1 : n = 1 /\ n - 1 = 0)
  OBVIOUS
<1>. HIDE DEF f, log
<1>3. IsPath(f, E, log, F, calm)
  BY <1>1, <1>2 DEF IsPath
<1>. QED
  BY <1>3 DEF Leads, log

\* A log goes on where another one has led.
LEMMA LeadsOn ==
  ASSUME NEW E, NEW s \in Seq(Change), NEW F, NEW t \in Seq(Change), NEW G, NEW calm \in BOOLEAN,
         Leads(E, s, F, calm), Leads(F, t, G, calm)
  PROVE  Leads(E, s \o t, G, calm)
<1>1. PICK f : IsPath(f, E, s, F, calm)
  BY DEF Leads
<1>2. PICK g : IsPath(g, F, t, G, calm)
  BY DEF Leads
<1>. DEFINE h == [n \in 0 .. Len(s) + Len(t) |-> IF n <= Len(s) THEN f[n] ELSE g[n - Len(s)]]
            log == s \o t
<1>3. /\ Len(s) \in Nat /\ Len(t) \in Nat /\ Len(log) = Len(s) + Len(t)
      /\ \A n \in 1 .. Len(s) : log[n] = s[n]
      /\ \A n \in 1 .. Len(s) + Len(t) : n > Len(s) => log[n] = t[n - Len(s)]
  <2>1. Len(s) \in Nat /\ Len(t) \in Nat /\ Len(log) = Len(s) + Len(t)
    BY LenProperties, ConcatProperties
  <2>2. \A n \in 1 .. Len(log) : log[n] = IF n <= Len(s) THEN s[n] ELSE t[n - Len(s)]
    BY ConcatProperties
  <2>. HIDE DEF log
  <2>. QED
    BY <2>1, <2>2
<1>4. /\ \A n \in 0 .. Len(s) : h[n] = f[n]
      /\ \A n \in 0 .. Len(t) : h[Len(s) + n] = g[n]
  <2>1. ASSUME NEW n \in 0 .. Len(s) PROVE h[n] = f[n]
    BY <1>3
  <2>2. ASSUME NEW n \in 0 .. Len(t) PROVE h[Len(s) + n] = g[n]
    <3>1. CASE n = 0
      <4>1. h[Len(s)] = f[Len(s)] /\ Len(s) + n = Len(s)
        BY <1>3, <3>1
      <4>. HIDE DEF h
      <4>. QED
        BY <1>1, <1>2, <3>1, <4>1 DEF IsPath
    <3>2. CASE n # 0
      <4>1. Len(s) + n \in 0 .. Len(s) + Len(t) /\ ~(Len(s) + n <= Len(s)) /\ (Len(s) + n) - Len(s) = n
        BY <1>3, <3>2
      <4>. QED
        BY <4>1
    <3>. QED
      BY <3>1, <3>2
  <2>. QED
    BY <2>1, <2>2
<1>. HIDE DEF h, log
<1>5. h[0] = E /\ h[Len(log)] = G
  <2>1. 0 \in 0 .. Len(s) /\ Len(t) \in 0 .. Len(t)
    BY <1>3
  <2>. QED
    BY <1>1, <1>2, <1>3, <1>4, <2>1 DEF IsPath
<1>6. ASSUME NEW n \in 1 .. Len(log) PROVE Follows(h[n - 1], log[n], h[n])
  <2>1. CASE n <= Len(s)
    <3>1. n \in 1 .. Len(s) /\ n \in 0 .. Len(s) /\ n - 1 \in 0 .. Len(s)
      BY <1>3, <2>1
    <3>. QED
      BY <1>1, <1>3, <1>4, <3>1 DEF IsPath
  <2>2. CASE n > Len(s)
    <3>. DEFINE k == n - Len(s)
    <3>1. k \in 1 .. Len(t) /\ k \in 0 .. Len(t) /\ k - 1 \in 0 .. Len(t) /\ n = Len(s) + k /\ n - 1 = Len(s) + (k - 1)
      BY <1>3, <2>2
    <3>2. log[n] = t[k]
      BY <1>3, <2>2
    <3>. HIDE DEF k
    <3>3. h[n] = g[k] /\ h[n - 1] = g[k - 1]
      BY <1>4, <3>1
    <3>. QED
      BY <1>2, <3>1, <3>2, <3>3 DEF IsPath
  <2>. QED
    BY <1>3, <2>1, <2>2
<1>7. ASSUME calm, NEW n \in 0 .. Len(log) PROVE Fits(h[n])
  <2>1. CASE n <= Len(s)
    <3>1. n \in 0 .. Len(s)
      BY <1>3, <2>1
    <3>. QED
      BY <1>1, <1>4, <1>7, <3>1 DEF IsPath
  <2>2. CASE n > Len(s)
    <3>. DEFINE k == n - Len(s)
    <3>1. k \in 0 .. Len(t) /\ n = Len(s) + k
      BY <1>3, <2>2
    <3>. HIDE DEF k
    <3>2. h[n] = g[k]
      BY <1>4, <3>1
    <3>. QED
      BY <1>2, <1>7, <3>1, <3>2 DEF IsPath
  <2>. QED
    BY <1>3, <2>1, <2>2
<1>8. IsPath(h, E, log, G, calm)
  BY <1>5, <1>6, <1>7 DEF IsPath
<1>. QED
  BY <1>8 DEF Leads, log

\* The first change of a log, and where the others lead from.
LEMMA LeadsFirst ==
  ASSUME NEW E, NEW log \in Seq(Change), log # << >>, NEW F, NEW calm \in BOOLEAN, Leads(E, log, F, calm)
  PROVE  \E G : Follows(E, Head(log), G) /\ Leads(G, Tail(log), F, calm) /\ (calm => Fits(E) /\ Fits(G))
<1>1. PICK f : IsPath(f, E, log, F, calm)
  BY DEF Leads
<1>. DEFINE h == [n \in 0 .. Len(log) - 1 |-> f[n + 1]]
            rest == Tail(log)
<1>2. /\ Len(log) \in Nat \ {0} /\ Head(log) = log[1] /\ Len(rest) = Len(log) - 1
      /\ \A n \in 1 .. Len(log) - 1 : rest[n] = log[n + 1]
  <2>1. Len(log) \in Nat /\ Len(log) # 0
    BY LenProperties, EmptySeq
  <2>. QED
    BY <2>1, HeadTailProperties
<1>3. \A n \in 0 .. Len(log) - 1 : h[n] = f[n + 1]
  OBVIOUS
<1>. HIDE DEF h, rest
<1>4. h[0] = f[1] /\ h[Len(rest)] = F
  <2>1. 0 \in 0 .. Len(log) - 1 /\ Len(log) - 1 \in 0 .. Len(log) - 1 /\ (Len(log) - 1) + 1 = Len(log)
    BY <1>2
  <2>2. h[Len(rest)] = f[Len(log)]
    BY <1>2, <1>3, <2>1
  <2>. QED
    BY <1>1, <1>3, <2>1, <2>2 DEF IsPath
<1>5. ASSUME NEW n \in 1 .. Len(rest) PROVE Follows(h[n - 1], rest[n], h[n])
  <2>1. n \in 1 .. Len(log) - 1 /\ n \in 0 .. Len(log) - 1 /\ n - 1 \in 0 .. Len(log) - 1 /\ (n - 1) + 1 = n
        /\ n + 1 \in 1 .. Len(log) /\ (n + 1) - 1 = n
    BY <1>2
  <2>2. h[n] = f[n + 1] /\ h[n - 1] = f[n] /\ rest[n] = log[n + 1]
    BY <1>2, <1>3, <2>1
  <2>3. Follows(f[(n + 1) - 1], log[n + 1], f[n + 1])
    BY <1>1, <2>1 DEF IsPath
  <2>. QED
    BY <2>1, <2>2, <2>3
<1>6. ASSUME calm, NEW n \in 0 .. Len(rest) PROVE Fits(h[n])
  <2>1. n \in 0 .. Len(log) - 1 /\ n + 1 \in 0 .. Len(log)
    BY <1>2
  <2>. QED
    BY <1>1, <1>3, <1>6, <2>1 DEF IsPath
<1>7. Leads(f[1], rest, F, calm)
  <2>1. IsPath(h, f[1], rest, F, calm)
    BY <1>4, <1>5, <1>6 DEF IsPath
  <2>. QED
    BY <2>1 DEF Leads
<1>8. 1 \in 1 .. Len(log) /\ 0 \in 0 .. Len(log) /\ 1 \in 0 .. Len(log) /\ 1 - 1 = 0
  BY <1>2
<1>9. Follows(E, log[1], f[1]) /\ (calm => Fits(E) /\ Fits(f[1]))
  BY <1>1, <1>8 DEF IsPath
<1>. QED
  BY <1>2, <1>7, <1>9 DEF rest

\* What is calm later was calm before.
LEMMA LeadsCalmly ==
  ASSUME NEW E, NEW log, NEW F, NEW calm \in BOOLEAN, NEW later \in BOOLEAN, later => calm, Leads(E, log, F, calm)
  PROVE  Leads(E, log, F, later)
BY DEF Leads, IsPath

-----------------------------------------------------------------------------
(* What an operation makes of the reservations stored *)

\* A reservation, for a stream, is a row with atoms.
LEMMA StoredMeans ==
  ASSUME NEW db \in Database
  PROVE  /\ \A item : item \in Loaded(db, AllReservations) <=>
              \E i \in DOMAIN db["Reservation"] :
                db["Reservation"][i].parts # << >> /\ item = ItemAt(db, "Reservation", i)
         /\ \A e : e \in StoredIn(db) <=>
              \E i \in DOMAIN db["Reservation"] :
                /\ db["Reservation"][i].parts # << >>
                /\ e = Entry(i, db["Reservation"][i].revision, db["Reservation"][i].parts)
<1>1. Loaded(db, AllReservations) = LoadAll(db, "Reservation")
  BY DEF Loaded, AllReservations, HasHandler, Tables
<1>2. \A item : item \in Loaded(db, AllReservations) <=>
        \E i \in DOMAIN db["Reservation"] :
          db["Reservation"][i].parts # << >> /\ item = ItemAt(db, "Reservation", i)
  BY <1>1 DEF LoadAll, IsLoadable
<1>3. \A i : /\ ItemAt(db, "Reservation", i).id = i
             /\ ItemAt(db, "Reservation", i).revision = db["Reservation"][i].revision
             /\ ItemAt(db, "Reservation", i).parts = db["Reservation"][i].parts
  BY DEF ItemAt
<1>4. ASSUME NEW e
      PROVE  e \in StoredIn(db) <=>
               \E i \in DOMAIN db["Reservation"] :
                 /\ db["Reservation"][i].parts # << >>
                 /\ e = Entry(i, db["Reservation"][i].revision, db["Reservation"][i].parts)
  <2>1. e \in StoredIn(db) <=>
          \E item \in Loaded(db, AllReservations) : e = Entry(item.id, item.revision, item.parts)
    BY DEF StoredIn, EntriesOf
  <2>. QED
    BY <1>2, <1>3, <2>1
<1>. QED
  BY <1>2, <1>4

\* An operation on reservations, with a valid one
IsSound(op) ==
  op.op \in {"StoreNew", "Update"} => op.item.type = "Reservation" /\ IsValid(op.item.parts)

\* A new reservation is stored in a row after the others, and a stream is told what is in it.
LEMMA StoringReservation ==
  ASSUME NEW db \in Database, NEW op \in Operation, op.op = "StoreNew", IsSound(op)
  PROVE  \E item :
           /\ ChangesFor(db, op, AllReservations) = <<Added({item})>>
           /\ \A e \in StoredIn(db) : e.id # item.id
           /\ item.parts = op.item.parts /\ IsValid(item.parts)
           /\ StoredIn(Effect(db, op)) = StoredIn(db) \cup EntriesOf({item})
<1>. DEFINE item == StoredItem(db, op.item)
            rows == db["Reservation"]
            row == [revision |-> 1, fields |-> op.item.fields, parts |-> op.item.parts]
            after == Effect(db, op)
<1>1. op.item \in Item /\ op.item.type = "Reservation" /\ IsValid(op.item.parts)
  BY DEF Operation, IsSound
<1>2. Succeeds(db, op)
  BY <1>1 DEF Succeeds
<1>3. /\ rows \in Seq(Row) /\ Len(rows) \in Nat /\ DOMAIN rows = 1 .. Len(rows)
      /\ row \in Row
  BY <1>1, LenProperties DEF Database, Tables, Row, Item
<1>4. item.type = "Reservation" /\ item.id = Len(rows) + 1 /\ item.revision = 1 /\ item.parts = op.item.parts
  BY <1>1 DEF StoredItem, Item
<1>5. ChangesFor(db, op, AllReservations) = <<Added({item})>>
  BY <1>1, <1>2, <1>4 DEF ChangesFor, ItemChanges, HasHandler, AllReservations
<1>6. after \in Database /\ after["Reservation"] = Append(rows, row)
  <2>1. after = [db EXCEPT !["Reservation"] = Append(@, row)]
    BY <1>1, <1>2 DEF Effect, StoreNewItem
  <2>. HIDE DEF row
  <2>2. after \in Database
    BY EffectType
  <2>. QED
    BY <2>1, <2>2 DEF Database, Tables
<1>. HIDE DEF after
<1>7. /\ DOMAIN after["Reservation"] = 1 .. Len(rows) + 1
      /\ \A i \in 1 .. Len(rows) : after["Reservation"][i] = rows[i]
      /\ after["Reservation"][Len(rows) + 1] = row
  <2>. HIDE DEF row, rows
  <2>1. /\ Append(rows, row) \in Seq(Row) /\ Len(Append(rows, row)) = Len(rows) + 1
        /\ \A i \in 1 .. Len(rows) : Append(rows, row)[i] = rows[i]
        /\ Append(rows, row)[Len(rows) + 1] = row
    BY <1>3, AppendProperties
  <2>2. DOMAIN Append(rows, row) = 1 .. Len(rows) + 1
    BY <2>1, LenProperties
  <2>. QED
    BY <1>6, <2>1, <2>2
<1>8. op.item.parts # << >> /\ row.revision = 1 /\ row.parts = op.item.parts
  BY <1>1 DEF IsValid
<1>. HIDE DEF item, row
<1>9. \A e : e \in EntriesOf({item}) <=> e = Entry(Len(rows) + 1, 1, op.item.parts)
  BY <1>4 DEF EntriesOf
<1>10. \A e \in StoredIn(db) : e.id # item.id
  <2>. SUFFICES ASSUME NEW e \in StoredIn(db) PROVE e.id # item.id
    OBVIOUS
  <2>1. PICK i \in DOMAIN rows : e = Entry(i, rows[i].revision, rows[i].parts)
    BY StoredMeans
  <2>2. e.id = i
    BY <2>1 DEF Entry
  <2>. HIDE DEF rows
  <2>. QED
    BY <1>3, <1>4, <2>2
<1>11. ASSUME NEW e PROVE e \in StoredIn(after) <=> e \in StoredIn(db) \cup EntriesOf({item})
  <2>1. e \in StoredIn(after) <=>
          \E i \in 1 .. Len(rows) + 1 :
            /\ after["Reservation"][i].parts # << >>
            /\ e = Entry(i, after["Reservation"][i].revision, after["Reservation"][i].parts)
    BY <1>6, <1>7, StoredMeans
  <2>2. e \in StoredIn(db) <=>
          \E i \in 1 .. Len(rows) : rows[i].parts # << >> /\ e = Entry(i, rows[i].revision, rows[i].parts)
    BY <1>3, StoredMeans
  <2>3. (\A i : i \in 1 .. Len(rows) + 1 <=> i \in 1 .. Len(rows) \/ i = Len(rows) + 1)
    <3>. HIDE DEF rows
    <3>. QED
      BY <1>3
  <2>. HIDE DEF rows
  <2>4. ASSUME e \in StoredIn(after) PROVE e \in StoredIn(db) \cup EntriesOf({item})
    <3>1. PICK i \in 1 .. Len(rows) + 1 :
            /\ after["Reservation"][i].parts # << >>
            /\ e = Entry(i, after["Reservation"][i].revision, after["Reservation"][i].parts)
      BY <2>1, <2>4
    <3>2. CASE i \in 1 .. Len(rows)
      BY <1>7, <2>2, <3>1, <3>2
    <3>3. CASE i = Len(rows) + 1
      BY <1>7, <1>8, <1>9, <3>1, <3>3
    <3>. QED
      BY <2>3, <3>2, <3>3
  <2>5. ASSUME e \in StoredIn(db) PROVE e \in StoredIn(after)
    <3>1. PICK i \in 1 .. Len(rows) : rows[i].parts # << >> /\ e = Entry(i, rows[i].revision, rows[i].parts)
      BY <2>2, <2>5
    <3>. QED
      BY <1>7, <2>1, <2>3, <3>1
  <2>6. ASSUME e \in EntriesOf({item}) PROVE e \in StoredIn(after)
    BY <1>7, <1>8, <1>9, <2>1, <2>3, <2>6
  <2>. QED
    BY <2>4, <2>5, <2>6
<1>. QED
  BY <1>1, <1>4, <1>5, <1>10, <1>11 DEF after

\* An update puts the item in the place of the reservation of its id.
LEMMA UpdatingReservation ==
  ASSUME NEW db \in Database, NEW op \in Operation, op.op = "Update", IsSound(op), Succeeds(db, op)
  PROVE  \E item :
           /\ ChangesFor(db, op, AllReservations) = <<Updated({item})>>
           /\ item.id = op.item.id /\ item.parts = op.item.parts /\ IsValid(item.parts)
           /\ StoredIn(Effect(db, op)) = {e \in StoredIn(db) : e.id # item.id} \cup EntriesOf({item})
<1>. DEFINE id == op.item.id
            rows == db["Reservation"]
            item == [op.item EXCEPT !.revision = @ + 1]
            row == [revision |-> rows[id].revision + 1, fields |-> op.item.fields, parts |-> op.item.parts]
            after == Effect(db, op)
<1>1. op.item \in Item /\ op.item.type = "Reservation" /\ IsValid(op.item.parts)
  BY DEF Operation, IsSound
<1>2. id \in DOMAIN rows /\ rows[id].revision = op.item.revision
  BY <1>1 DEF Succeeds, Matches
<1>3. rows \in Seq(Row) /\ Len(rows) \in Nat /\ DOMAIN rows = 1 .. Len(rows)
  BY LenProperties DEF Database, Tables
<1>4. item.type = "Reservation" /\ item.id = id /\ item.revision = op.item.revision + 1 /\ item.parts = op.item.parts
  BY <1>1 DEF Item
<1>5. ChangesFor(db, op, AllReservations) = <<Updated({item})>>
  BY <1>1, <1>4 DEF ChangesFor, ItemChanges, HasHandler, AllReservations
<1>6. after \in Database /\ after["Reservation"] = [rows EXCEPT ![id] = row]
  <2>1. after = [db EXCEPT !["Reservation"] = [@ EXCEPT ![id] = row]]
    BY <1>1 DEF Effect, UpdateItem
  <2>. HIDE DEF row
  <2>2. after \in Database
    BY EffectType
  <2>. QED
    BY <2>1, <2>2 DEF Database, Tables
<1>. HIDE DEF after
<1>7. /\ DOMAIN after["Reservation"] = DOMAIN rows
      /\ \A i \in DOMAIN rows : i # id => after["Reservation"][i] = rows[i]
      /\ after["Reservation"][id] = row
  <2>. HIDE DEF row, rows
  <2>. QED
    BY <1>2, <1>3, <1>6
<1>8. row.parts # << >> /\ row.revision = item.revision /\ row.parts = item.parts
  BY <1>1, <1>2, <1>4 DEF IsValid
<1>. HIDE DEF item, row
<1>9. \A e : e \in EntriesOf({item}) <=> e = Entry(id, item.revision, item.parts)
  BY <1>4 DEF EntriesOf
<1>10. ASSUME NEW e PROVE e \in StoredIn(after) <=> e \in {g \in StoredIn(db) : g.id # item.id} \cup EntriesOf({item})
  <2>1. e \in StoredIn(after) <=>
          \E i \in DOMAIN rows :
            /\ after["Reservation"][i].parts # << >>
            /\ e = Entry(i, after["Reservation"][i].revision, after["Reservation"][i].parts)
    BY <1>6, <1>7, StoredMeans
  <2>2. e \in StoredIn(db) <=>
          \E i \in DOMAIN rows : rows[i].parts # << >> /\ e = Entry(i, rows[i].revision, rows[i].parts)
    BY StoredMeans
  <2>3. \A i, r, p : Entry(i, r, p).id = i
    BY DEF Entry
  <2>. HIDE DEF rows, id
  <2>4. ASSUME e \in StoredIn(after) PROVE e \in {g \in StoredIn(db) : g.id # item.id} \cup EntriesOf({item})
    <3>1. PICK i \in DOMAIN rows :
            /\ after["Reservation"][i].parts # << >>
            /\ e = Entry(i, after["Reservation"][i].revision, after["Reservation"][i].parts)
      BY <2>1, <2>4
    <3>2. CASE i = id
      BY <1>7, <1>8, <1>9, <3>1, <3>2
    <3>3. CASE i # id
      <4>1. e \in StoredIn(db) /\ e.id # item.id
        BY <1>4, <1>7, <2>2, <2>3, <3>1, <3>3
      <4>. QED
        BY <4>1
    <3>. QED
      BY <3>2, <3>3
  <2>5. ASSUME e \in StoredIn(db), e.id # item.id PROVE e \in StoredIn(after)
    <3>1. PICK i \in DOMAIN rows : rows[i].parts # << >> /\ e = Entry(i, rows[i].revision, rows[i].parts)
      BY <2>2, <2>5
    <3>2. i # id
      BY <1>4, <2>3, <2>5, <3>1
    <3>. QED
      BY <1>7, <2>1, <3>1, <3>2
  <2>6. ASSUME e \in EntriesOf({item}) PROVE e \in StoredIn(after)
    BY <1>2, <1>7, <1>8, <1>9, <2>1, <2>6
  <2>. QED
    BY <2>4, <2>5, <2>6
<1>. QED
  BY <1>1, <1>4, <1>5, <1>10 DEF after

\* A removal takes what has its id, or there is nothing to remove.
LEMMA DeletingReservation ==
  ASSUME NEW db \in Database, NEW op \in Operation, op.op = "Delete"
  PROVE  /\ \/ ChangesFor(db, op, AllReservations) = << >> /\ Effect(db, op) = db
            \/ \E id : /\ ChangesFor(db, op, AllReservations) = <<Removed({id})>>
                       /\ StoredIn(Effect(db, op)) = {e \in StoredIn(db) : e.id # id}
         /\ StoredIn(Effect(db, op)) \subseteq StoredIn(db)
<1>1. CASE ~Succeeds(db, op)
  BY <1>1 DEF ChangesFor, Effect
<1>2. CASE Succeeds(db, op)
  <2>. DEFINE id == op.id
              rows == db["Reservation"]
              after == Effect(db, op)
  <2>1. ChangesFor(db, op, AllReservations) = <<Removed({id})>>
    BY <1>2 DEF ChangesFor, RemoveChanges, HasHandler, AllReservations
  <2>2. after = IF id \in DOMAIN rows THEN [db EXCEPT !["Reservation"][id].parts = << >>] ELSE db
    BY <1>2 DEF Effect, DeleteReservationById
  <2>3. after \in Database /\ rows \in Seq(Row) /\ DOMAIN rows = 1 .. Len(rows)
    BY EffectType, LenProperties DEF Database, Tables
  <2>. HIDE DEF after
  <2>4. /\ DOMAIN after["Reservation"] = DOMAIN rows
        /\ \A i \in DOMAIN rows : i # id => after["Reservation"][i] = rows[i]
        /\ id \in DOMAIN rows => after["Reservation"][id].parts = << >>
    <3>1. CASE id \in DOMAIN rows
      <4>1. after["Reservation"] = [rows EXCEPT ![id] = [rows[id] EXCEPT !.parts = << >>]]
        BY <2>2, <3>1 DEF Database, Tables
      <4>2. rows[id] \in Row
        BY <2>3, <3>1, ElementOfSeq
      <4>3. [rows[id] EXCEPT !.parts = << >>].parts = << >>
        BY <4>2 DEF Row
      <4>. HIDE DEF rows, id
      <4>. QED
        BY <2>3, <3>1, <4>1, <4>3
    <3>2. CASE id \notin DOMAIN rows
      BY <2>2, <3>2
    <3>. QED
      BY <3>1, <3>2
  <2>5. ASSUME NEW e PROVE e \in StoredIn(after) <=> e \in {g \in StoredIn(db) : g.id # id}
    <3>1. e \in StoredIn(after) <=>
            \E i \in DOMAIN rows :
              /\ after["Reservation"][i].parts # << >>
              /\ e = Entry(i, after["Reservation"][i].revision, after["Reservation"][i].parts)
      BY <2>3, <2>4, StoredMeans
    <3>2. e \in StoredIn(db) <=>
            \E i \in DOMAIN rows : rows[i].parts # << >> /\ e = Entry(i, rows[i].revision, rows[i].parts)
      BY StoredMeans
    <3>3. \A i, r, p : Entry(i, r, p).id = i
      BY DEF Entry
    <3>. HIDE DEF rows, id
    <3>. QED
      BY <2>4, <3>1, <3>2, <3>3
  <2>6. StoredIn(after) = {g \in StoredIn(db) : g.id # id}
    BY <2>5
  <2>7. StoredIn(after) \subseteq StoredIn(db)
    BY <2>5
  <2>. HIDE DEF id, rows
  <2>. QED
    BY <2>1, <2>6, <2>7 DEF after
<1>. QED
  BY <1>1, <1>2

\* Rows without a night in common, each valid or without atoms, fit.
LEMMA CalmStorageFits ==
  ASSUME NEW db \in Database, ~DoubleBooked(db), \A e \in StoredIn(db) : IsValid(e.parts)
  PROVE  Fits(StoredIn(db))
<1>. SUFFICES ASSUME NEW e \in StoredIn(db), NEW g \in StoredIn(db) PROVE e = g \/ Apart(e.parts, g.parts)
  BY DEF Fits
<1>1. PICK i \in DOMAIN db["Reservation"] :
        e = Entry(i, db["Reservation"][i].revision, db["Reservation"][i].parts)
  BY StoredMeans
<1>2. PICK j \in DOMAIN db["Reservation"] :
        g = Entry(j, db["Reservation"][j].revision, db["Reservation"][j].parts)
  BY StoredMeans
<1>3. CASE i = j
  BY <1>1, <1>2, <1>3
<1>4. CASE i # j
  <2>1. Nights(db["Reservation"][i].parts) \cap Nights(db["Reservation"][j].parts) = {}
    BY <1>4 DEF DoubleBooked
  <2>2. e.parts = db["Reservation"][i].parts /\ g.parts = db["Reservation"][j].parts
    BY <1>1, <1>2 DEF Entry
  <2>. QED
    BY <2>1, <2>2, ApartMeans
<1>. QED
  BY <1>3, <1>4

\* On a calm way all fit.
LEMMA LeadsFits ==
  ASSUME NEW E, NEW log \in Seq(Change), NEW F, Leads(E, log, F, TRUE)
  PROVE  Fits(E) /\ Fits(F)
<1>1. PICK f : IsPath(f, E, log, F, TRUE)
  BY DEF Leads
<1>2. 0 \in 0 .. Len(log) /\ Len(log) \in 0 .. Len(log)
  BY LenProperties
<1>. QED
  BY <1>1, <1>2 DEF IsPath

\* What an operation tells the stream leads from the reservations before it to those after it.
LEMMA OperationLeads ==
  ASSUME NEW db \in Database, NEW op \in Operation, IsSound(op), NEW calm \in BOOLEAN,
         calm => Fits(StoredIn(db)),
         calm => op.op = "Delete" \/ ~DoubleBooked(Effect(db, op))
  PROVE  /\ Leads(StoredIn(db), ChangesFor(db, op, AllReservations), StoredIn(Effect(db, op)), calm)
         /\ calm => Fits(StoredIn(Effect(db, op)))
<1>. DEFINE E == StoredIn(db)
            F == StoredIn(Effect(db, op))
            log == ChangesFor(db, op, AllReservations)
<1>1. ASSUME F = E, log = << >> PROVE Leads(E, log, F, calm) /\ (calm => Fits(F))
  BY <1>1, LeadsNowhere
<1>2. ASSUME NEW change, log = <<change>>, Follows(E, change, F), calm => Fits(F)
      PROVE  Leads(E, log, F, calm) /\ (calm => Fits(F))
  BY <1>2, LeadsInOne
<1>3. ASSUME \A e \in F : e \in E \/ IsValid(e.parts), op.op # "Delete" PROVE calm => Fits(F)
  <2>. SUFFICES ASSUME calm PROVE Fits(F)
    OBVIOUS
  <2>1. \A e \in F : IsValid(e.parts)
    BY <1>3 DEF Fits
  <2>2. Effect(db, op) \in Database
    BY EffectType
  <2>. QED
    BY <1>3, <2>1, <2>2, CalmStorageFits
<1>4. CASE op.op = "StoreNew"
  <2>1. PICK item : /\ log = <<Added({item})>>
                    /\ \A e \in E : e.id # item.id
                    /\ IsValid(item.parts)
                    /\ F = E \cup EntriesOf({item})
    BY <1>4, StoringReservation
  <2>2. Follows(E, Added({item}), F)
    BY <2>1 DEF Follows, Added
  <2>3. \A e \in F : e \in E \/ IsValid(e.parts)
    BY <2>1 DEF EntriesOf, Entry
  <2>4. calm => Fits(F)
    BY <1>3, <1>4, <2>3
  <2>. QED
    BY <1>2, <2>1, <2>2, <2>4
<1>5. CASE op.op = "Update"
  <2>1. CASE ~Succeeds(db, op)
    <3>1. F = E /\ log = << >>
      BY <2>1 DEF Effect, ChangesFor
    <3>. QED
      BY <1>1, <3>1
  <2>2. CASE Succeeds(db, op)
    <3>1. PICK item : /\ log = <<Updated({item})>>
                      /\ IsValid(item.parts)
                      /\ F = Without(E, item.id) \cup EntriesOf({item})
      BY <1>5, <2>2, UpdatingReservation DEF Without
    <3>2. Follows(E, Updated({item}), F)
      BY <3>1 DEF Follows
    <3>3. \A e \in F : e \in E \/ IsValid(e.parts)
      BY <3>1 DEF EntriesOf, Entry, Without
    <3>4. calm => Fits(F)
      BY <1>3, <1>5, <3>3
    <3>. QED
      BY <1>2, <3>1, <3>2, <3>4
  <2>. QED
    BY <2>1, <2>2
<1>6. CASE op.op = "Delete"
  <2>1. CASE log = << >> /\ Effect(db, op) = db
    BY <1>1, <2>1
  <2>2. ASSUME NEW id, log = <<Removed({id})>>, F = Without(E, id)
        PROVE  Leads(E, log, F, calm) /\ (calm => Fits(F))
    <3>1. Follows(E, Removed({id}), F)
      BY <2>2 DEF Follows
    <3>2. calm => Fits(F)
      BY <2>2 DEF Fits, Without
    <3>. QED
      BY <1>2, <2>2, <3>1, <3>2
  <2>. QED
    <3>1. \/ log = << >> /\ Effect(db, op) = db
          \/ \E id : log = <<Removed({id})>> /\ F = {e \in E : e.id # id}
      BY <1>6, DeletingReservation
    <3>2. CASE log = << >> /\ Effect(db, op) = db
      BY <2>1, <3>2
    <3>3. CASE \E id : log = <<Removed({id})>> /\ F = {e \in E : e.id # id}
      <4>1. PICK id : log = <<Removed({id})>> /\ F = {e \in E : e.id # id}
        BY <3>3
      <4>2. F = Without(E, id)
        BY <4>1 DEF Without
      <4>. QED
        BY <2>2, <4>1, <4>2
    <3>. QED
      BY <3>1, <3>2, <3>3
<1>7. CASE op.op = "EraseAllData"
  <2>1. log = <<Cleared>>
    BY <1>7 DEF ChangesFor, Succeeds, ClearChanges, HasHandler, AllReservations, Tables
  <2>2. F = {}
    <3>1. Effect(db, op) = EmptyDatabase /\ Effect(db, op) \in Database
      BY <1>7, EffectType DEF Effect, Succeeds, DeleteAll
    <3>2. DOMAIN EmptyDatabase["Reservation"] = {}
      BY EmptySeq DEF EmptyDatabase, Tables
    <3>3. \A e : e \notin F
      BY <3>1, <3>2, StoredMeans
    <3>. QED
      BY <3>3
  <2>3. Follows(E, Cleared, F)
    BY <2>2 DEF Follows
  <2>4. calm => Fits(F)
    BY <2>2 DEF Fits
  <2>. QED
    BY <1>2, <2>1, <2>3, <2>4
<1>8. op.op \in {"StoreNew", "Update", "Delete", "EraseAllData"}
  BY DEF Operation
<1>. QED
  BY <1>4, <1>5, <1>6, <1>7, <1>8

\* A batch of the widget's, or of another client: one operation, or deletions.
IsSoundBatch(batch) ==
  \/ Len(batch) = 1 /\ IsSound(batch[1])
  \/ \A n \in DOMAIN batch : batch[n].op = "Delete"

\* What a batch tells the stream leads from the reservations before it to those after it.
LEMMA BatchLeads ==
  ASSUME NEW db \in Database, NEW batch \in Seq(Operation), IsSoundBatch(batch), NEW calm \in BOOLEAN,
         calm => Fits(StoredIn(db)),
         calm => ~DoubleBooked(Executed(db, batch).db)
  PROVE  Leads(StoredIn(db), Executed(db, batch).changes, StoredIn(Executed(db, batch).db), calm)
<1>. DEFINE m == Len(batch)
            D == [db : Database, changes : Seq(Change)]
<1>1. PICK run \in [0 .. m -> D] :
        /\ run[0] = [db |-> db, changes |-> << >>]
        /\ \A n \in 1 .. m : run[n] = [db |-> Effect(run[n - 1].db, batch[n]),
                                       changes |-> run[n - 1].changes \o ChangesFor(run[n - 1].db, batch[n], AllReservations)]
        /\ Executed(db, batch) = run[m]
  BY ExecutedRun
<1>2. m \in Nat /\ DOMAIN batch = 1 .. m /\ \A n \in 1 .. m : batch[n] \in Operation
  BY LenProperties, ElementOfSeq
<1>3. ASSUME NEW n \in 0 .. m PROVE run[n].db \in Database /\ run[n].changes \in Seq(Change)
  <2>1. run \in [0 .. m -> D]
    BY <1>1
  <2>. HIDE DEF D, m
  <2>2. run[n] \in D
    BY <2>1
  <2>. QED
    BY <2>2 DEF D
<1>. DEFINE Along(n) == /\ Leads(StoredIn(db), run[n].changes, StoredIn(run[n].db), calm)
                        /\ calm => Fits(StoredIn(run[n].db))
<1>4. Along(0)
  <2>1. run[0].db = db /\ run[0].changes = << >>
    BY <1>1
  <2>. QED
    BY <2>1, LeadsNowhere
<1>5. ASSUME NEW n \in 1 .. m, Along(n - 1), IsSound(batch[n]),
             calm => batch[n].op = "Delete" \/ ~DoubleBooked(run[n].db)
      PROVE  Along(n)
  <2>. DEFINE before == run[n - 1].db
              told == run[n - 1].changes
              log == ChangesFor(before, batch[n], AllReservations)
  <2>1. n - 1 \in 0 .. m
    BY <1>2
  <2>2. before \in Database /\ told \in Seq(Change) /\ batch[n] \in Operation
    BY <1>2, <1>3, <2>1
  <2>3. run[n].db = Effect(before, batch[n]) /\ run[n].changes = told \o log
    <3>1. run[n] = [db |-> Effect(before, batch[n]), changes |-> told \o log]
      BY <1>1
    <3>. HIDE DEF before, told, log
    <3>. QED
      BY <3>1
  <2>4. log \in Seq(Change)
    <3>1. AllReservations \in Endpoint
      BY DEF AllReservations, Endpoint, Tables
    <3>. QED
      BY <2>2, <3>1, ChangesForType
  <2>5. Leads(StoredIn(before), log, StoredIn(run[n].db), calm) /\ (calm => Fits(StoredIn(run[n].db)))
    BY <1>5, <2>2, <2>3, OperationLeads
  <2>. HIDE DEF before, told, log
  <2>6. Leads(StoredIn(db), told, StoredIn(before), calm)
    BY <1>5 DEF before, told
  <2>7. Leads(StoredIn(db), told \o log, StoredIn(run[n].db), calm)
    BY <2>2, <2>4, <2>5, <2>6, LeadsOn
  <2>. QED
    BY <2>3, <2>5, <2>7
<1>. HIDE DEF Along
<1>6. Along(m)
  <2>1. CASE m = 1 /\ IsSound(batch[1])
    <3>1. 1 \in 1 .. m /\ 1 - 1 = 0
      BY <2>1
    <3>. QED
      BY <1>1, <1>4, <1>5, <2>1, <3>1
  <2>2. CASE \A n \in DOMAIN batch : batch[n].op = "Delete"
    <3>. DEFINE N == {n \in Nat : n <= m => Along(n)}
    <3>1. 0 \in N
      BY <1>4
    <3>2. ASSUME NEW n \in Nat, n \in N PROVE n + 1 \in N
      <4>. SUFFICES ASSUME n + 1 <= m PROVE Along(n + 1)
        OBVIOUS
      <4>1. n + 1 \in 1 .. m /\ (n + 1) - 1 = n /\ Along(n)
        BY <1>2, <3>2
      <4>2. batch[n + 1].op = "Delete" /\ IsSound(batch[n + 1])
        BY <1>2, <2>2, <4>1 DEF IsSound
      <4>. QED
        BY <1>5, <4>1, <4>2
    <3>3. \A n \in Nat : n \in N
      <4>. HIDE DEF N
      <4>. QED
        BY <3>1, <3>2, SetInduction
    <3>. QED
      BY <1>2, <3>3
  <2>. QED
    BY <2>1, <2>2 DEF IsSoundBatch
<1>. QED
  BY <1>1, <1>6 DEF Along

-----------------------------------------------------------------------------
(* What a board shows *)

\* No two reservations on a board have one id.
EachOnceOn(board) == \A i, j \in DOMAIN board : board[i].id = board[j].id => i = j

\* Some of the entries which fit fit.
LEMMA SomeFit ==
  ASSUME NEW E, NEW F, Fits(F), E \subseteq F
  PROVE  Fits(E)
BY DEF Fits

\* A board with one more reservation
LEMMA ShownWith ==
  ASSUME NEW board \in Seq(BoardReservation), NEW new \in BoardReservation, EachOnceOn(board),
         \A i \in DOMAIN board : board[i].id # new.id
  PROVE  /\ EachOnceOn(Append(board, new))
         /\ Shown(Append(board, new)) = Shown(board) \cup {Entry(new.id, new.revision, new.atoms)}
         /\ \A a : (\E i \in DOMAIN Append(board, new) : a = Append(board, new)[i].address)
                     <=> (\E i \in DOMAIN board : a = board[i].address) \/ a = new.address
<1>. DEFINE longer == Append(board, new)
<1>1. /\ Len(board) \in Nat /\ DOMAIN board = 1 .. Len(board)
      /\ DOMAIN longer = 1 .. Len(board) + 1
      /\ \A i \in 1 .. Len(board) : longer[i] = board[i]
      /\ longer[Len(board) + 1] = new
  BY AppendProperties, LenProperties
<1>. HIDE DEF longer
<1>2. \A i : i \in DOMAIN longer <=> i \in DOMAIN board \/ i = Len(board) + 1
  BY <1>1
<1>3. EachOnceOn(longer)
  BY <1>1, <1>2 DEF EachOnceOn
<1>4. ASSUME NEW e PROVE e \in Shown(longer) <=> e \in Shown(board) \cup {Entry(new.id, new.revision, new.atoms)}
  <2>1. e \in Shown(longer) <=>
          \E i \in DOMAIN longer : e = Entry(longer[i].id, longer[i].revision, longer[i].atoms)
    BY DEF Shown
  <2>2. e \in Shown(board) <=>
          \E i \in DOMAIN board : e = Entry(board[i].id, board[i].revision, board[i].atoms)
    BY DEF Shown
  <2>. QED
    BY <1>1, <1>2, <2>1, <2>2
<1>5. ASSUME NEW a
      PROVE  (\E i \in DOMAIN longer : a = longer[i].address)
               <=> (\E i \in DOMAIN board : a = board[i].address) \/ a = new.address
  BY <1>1, <1>2
<1>. QED
  BY <1>3, <1>4, <1>5 DEF longer

\* A board with one reservation less
LEMMA ShownWithout ==
  ASSUME NEW board, NEW rows, IsBoard(board, rows), EachOnceOn(board), NEW i \in DOMAIN board
  PROVE  /\ EachOnceOn(RemoveAt(board, i))
         /\ Shown(RemoveAt(board, i)) = {e \in Shown(board) : e.id # board[i].id}
         /\ \A a : (\E j \in DOMAIN RemoveAt(board, i) : a = RemoveAt(board, i)[j].address)
                     <=> (\E k \in DOMAIN board : a = board[k].address) /\ a # board[i].address
<1>. DEFINE shorter == RemoveAt(board, i)
<1>1. Len(board) \in Nat /\ DOMAIN board = 1 .. Len(board) /\ board \in Seq(BoardReservation) /\ i \in 1 .. Len(board)
  BY OnBoard DEF IsBoard
<1>2. /\ DOMAIN shorter = 1 .. Len(board) - 1
      /\ \A j \in 1 .. Len(board) - 1 : shorter[j] = IF j < i THEN board[j] ELSE board[j + 1]
  BY <1>1, RemovedAt
<1>3. /\ \A j \in DOMAIN shorter : \E k \in DOMAIN board \ {i} : shorter[j] = board[k]
      /\ \A k \in DOMAIN board \ {i} : \E j \in DOMAIN shorter : shorter[j] = board[k]
  BY LeftOnBoard
<1>. HIDE DEF shorter
<1>4. EachOnceOn(shorter)
  <2>. SUFFICES ASSUME NEW j \in 1 .. Len(board) - 1, NEW k \in 1 .. Len(board) - 1, shorter[j].id = shorter[k].id
                PROVE  j = k
    BY <1>2 DEF EachOnceOn
  <2>. DEFINE p == IF j < i THEN j ELSE j + 1
              q == IF k < i THEN k ELSE k + 1
  <2>1. p \in DOMAIN board /\ q \in DOMAIN board /\ (p = q => j = k)
    BY <1>1
  <2>2. shorter[j] = board[p] /\ shorter[k] = board[q]
    BY <1>2
  <2>. HIDE DEF p, q
  <2>. QED
    BY <2>1, <2>2 DEF EachOnceOn
<1>5. ASSUME NEW e PROVE e \in Shown(shorter) <=> e \in Shown(board) /\ e.id # board[i].id
  <2>1. e \in Shown(shorter) <=>
          \E j \in DOMAIN shorter : e = Entry(shorter[j].id, shorter[j].revision, shorter[j].atoms)
    BY DEF Shown
  <2>2. e \in Shown(board) <=>
          \E k \in DOMAIN board : e = Entry(board[k].id, board[k].revision, board[k].atoms) /\ e.id = board[k].id
    BY DEF Shown, Entry
  <2>3. \A k \in DOMAIN board : board[k].id # board[i].id <=> k \in DOMAIN board \ {i}
    BY DEF EachOnceOn
  <2>4. ASSUME e \in Shown(shorter) PROVE e \in Shown(board) /\ e.id # board[i].id
    <3>1. PICK j \in DOMAIN shorter : e = Entry(shorter[j].id, shorter[j].revision, shorter[j].atoms)
      BY <2>1, <2>4
    <3>2. PICK k \in DOMAIN board \ {i} : shorter[j] = board[k]
      BY <1>3
    <3>3. e.id = board[k].id
      BY <3>1, <3>2 DEF Entry
    <3>. QED
      BY <2>2, <2>3, <3>1, <3>2, <3>3
  <2>5. ASSUME e \in Shown(board), e.id # board[i].id PROVE e \in Shown(shorter)
    <3>1. PICK k \in DOMAIN board : e = Entry(board[k].id, board[k].revision, board[k].atoms) /\ e.id = board[k].id
      BY <2>2, <2>5
    <3>2. PICK j \in DOMAIN shorter : shorter[j] = board[k]
      BY <1>3, <2>3, <2>5, <3>1
    <3>. QED
      BY <2>1, <3>1, <3>2
  <2>. QED
    BY <2>4, <2>5
<1>6. ASSUME NEW a
      PROVE  (\E j \in DOMAIN shorter : a = shorter[j].address)
               <=> (\E k \in DOMAIN board : a = board[k].address) /\ a # board[i].address
  <2>1. \A k \in DOMAIN board : board[k].address # board[i].address <=> k \in DOMAIN board \ {i}
    BY DEF IsBoard
  <2>. QED
    BY <1>3, <2>1
<1>7. Shown(shorter) = {e \in Shown(board) : e.id # board[i].id}
  BY <1>5
<1>. QED
  BY <1>4, <1>6, <1>7 DEF shorter

\* A valid reservation whose nights nobody has can be added.
LEMMA ApartCanBeAdded ==
  ASSUME IsBoard(reservations, rooms), NEW atoms \in Seq(Atom), IsValid(atoms),
         \A j \in DOMAIN reservations : Apart(reservations[j].atoms, atoms)
  PROVE  CanAddReservation(atoms)
<1>. SUFFICES ASSUME NEW n \in DOMAIN atoms, NEW k \in DOMAIN rooms[atoms[n].room],
                     Intersects(rooms[atoms[n].room][k], atoms[n])
              PROVE  FALSE
  BY DEF CanAddReservation, IsFree
<1>. DEFINE room == atoms[n].room
            a == rooms[room][k]
<1>1. atoms[n] \in Atom /\ room \in Rooms /\ ~IsNull(atoms[n])
  <2>1. atoms[n] \in Atom /\ ~IsNull(atoms[n])
    BY LenProperties, ElementOfSeq DEF IsValid
  <2>. QED
    BY <2>1 DEF Atom
<1>2. a \in PointersOf(room, reservations)
  <2>. HIDE DEF room
  <2>1. IsRowOf(rooms[room], PointersOf(room, reservations))
    BY <1>1 DEF IsBoard
  <2>2. k \in DOMAIN rooms[room]
    BY DEF room
  <2>. QED
    BY <2>1, <2>2 DEF IsRowOf, ToSet
<1>. HIDE DEF room
<1>3. PICK j \in DOMAIN reservations : \E m \in DOMAIN reservations[j].atoms :
        /\ reservations[j].atoms[m].room = room
        /\ a = PointerTo(reservations[j].address, reservations[j].atoms, m)
  BY <1>1, <1>2, OnBoard
<1>. PICK m \in DOMAIN reservations[j].atoms :
        /\ reservations[j].atoms[m].room = room
        /\ a = PointerTo(reservations[j].address, reservations[j].atoms, m)
  BY <1>3
<1>. DEFINE b == reservations[j].atoms[m]
<1>4. b \in Atom /\ ~IsNull(b)
  <2>1. reservations[j].atoms \in Seq(Atom) /\ IsValid(reservations[j].atoms)
    BY OnBoard
  <2>. QED
    BY <2>1, LenProperties, ElementOfSeq DEF IsValid
<1>5. Intersects(b, atoms[n])
  <2>1. a.from = b.from /\ a.to = b.to
    BY <1>3 DEF PointerTo
  <2>2. Intersects(a, atoms[n])
    BY DEF room
  <2>. HIDE DEF a, b
  <2>. QED
    BY <2>1, <2>2 DEF Intersects, HasDate
<1>. HIDE DEF b, a
<1>6. b.from \in Dates /\ b.to \in Dates /\ atoms[n].from \in Dates /\ atoms[n].to \in Dates
      /\ b.from \in Int /\ b.to \in Int /\ atoms[n].from \in Int /\ atoms[n].to \in Int
  BY <1>1, <1>4, DatesAssumption DEF Atom
<1>7. \E d \in Dates : HasDate(b, d) /\ HasDate(atoms[n], d)
  <2>1. CASE HasDate(b, atoms[n].from)
    <3>1. HasDate(atoms[n], atoms[n].from)
      BY <1>1, <1>6 DEF HasDate, IsNull
    <3>. QED
      BY <1>6, <2>1, <3>1
  <2>2. CASE HasDate(atoms[n], b.from)
    <3>1. HasDate(b, b.from)
      BY <1>4, <1>6 DEF HasDate, IsNull
    <3>. QED
      BY <1>6, <2>2, <3>1
  <2>3. CASE atoms[n].from < b.from /\ b.from < atoms[n].to
    <3>1. HasDate(atoms[n], b.from)
      BY <1>6, <2>3 DEF HasDate
    <3>. QED
      BY <2>2, <3>1
  <2>. QED
    BY <1>5, <2>1, <2>2, <2>3 DEF Intersects
<1>. QED
  BY <1>3, <1>7 DEF Apart, room, b

-----------------------------------------------------------------------------
(* The widget follows the storage *)

\* The ghosts which the user has drawn are reservations, and so is what the tools have queued.
DrawnValid == \A i \in DOMAIN ghosts : IsValid(ghosts[i])
RequestsSound == \A i \in DOMAIN requests : IsSoundBatch(requests[i])

\* The changes which the widget has yet to be told lead from what the board shows to what is stored.
BoardFollows ==
  app = "running" /\ ~cleared => Leads(Shown(reservations), changes, StoredIn(storage), ~overlapped)

\* The inductive invariant of what the widget is told, next to WidgetInv.
FollowInv ==
  /\ DrawnValid /\ RequestsSound
  /\ overlapped \in BOOLEAN
  /\ EachOnceOn(reservations)
  /\ BoardFollows
  /\ SceneShowsBoard
  /\ ThrowsOnlyOnDoubleBooking

\* Any number of batches is queued at once.
LEMMA SoundBatchesQueued ==
  ASSUME ServerTypes, RequestsSound, NEW queued \in Seq(Seq(Operation)), QueueOperations(queued),
         \A i \in DOMAIN queued : IsSoundBatch(queued[i])
  PROVE  RequestsSound'
<1>1. requests \in Seq(Seq(Operation)) /\ requests' = requests \o queued
  BY DEF ServerTypes, QueueOperations
<1>2. /\ Len(requests) \in Nat /\ DOMAIN requests = 1 .. Len(requests)
      /\ Len(queued) \in Nat /\ DOMAIN queued = 1 .. Len(queued)
      /\ DOMAIN requests' = 1 .. Len(requests) + Len(queued)
      /\ \A i \in 1 .. Len(requests) + Len(queued) :
           requests'[i] = IF i <= Len(requests) THEN requests[i] ELSE queued[i - Len(requests)]
  BY <1>1, ConcatProperties, LenProperties
<1>3. ASSUME NEW i \in 1 .. Len(requests) + Len(queued) PROVE IsSoundBatch(requests'[i])
  <2>1. CASE i <= Len(requests)
    <3>1. i \in DOMAIN requests /\ requests'[i] = requests[i]
      BY <1>2, <2>1
    <3>. QED
      BY <3>1 DEF RequestsSound
  <2>2. CASE i > Len(requests)
    <3>1. i - Len(requests) \in DOMAIN queued /\ requests'[i] = queued[i - Len(requests)]
      BY <1>2, <2>2
    <3>. QED
      BY <3>1
  <2>. QED
    BY <1>2, <2>1, <2>2
<1>. QED
  BY <1>2, <1>3 DEF RequestsSound

\* The reservation which the Move tool commits is valid and as long as the one on the board, whose
\* dates its atoms have.
LEMMA MovedValid ==
  ASSUME GhostInv, Followed, moving # NotMoving
  PROVE  /\ IsValid(draft) /\ IsValid(Joined(draft))
         /\ \E j \in DOMAIN reservations :
              IsHeld(reservations[j]) /\ DateRange(reservations[j].atoms) = DateRange(Joined(draft))
<1>1. draft \in Seq(Atom) /\ moving.index \in DOMAIN draft
  BY DEF GhostInv, GhostTypes, HeldOnBoard
<1>2. PICK j \in DOMAIN reservations :
        IsHeld(reservations[j]) /\ reservations[j].atoms = [draft EXCEPT ![moving.index].room = moving.room]
  BY DEF GhostInv, HeldOnBoard
<1>. DEFINE held == reservations[j].atoms
<1>3. IsValid(held) /\ held \in Seq(Atom)
  BY OnBoard DEF GhostInv
<1>4. DOMAIN held = DOMAIN draft /\ \A n \in DOMAIN draft : held[n].from = draft[n].from /\ held[n].to = draft[n].to
  <2>1. \A n \in DOMAIN draft : draft[n] \in Atom
    BY <1>1, LenProperties, ElementOfSeq
  <2>2. ASSUME NEW n \in DOMAIN draft PROVE held[n].from = draft[n].from /\ held[n].to = draft[n].to
    <3>1. held[n] = IF n = moving.index THEN [draft[n] EXCEPT !.room = moving.room] ELSE draft[n]
      BY <1>1, <1>2
    <3>. HIDE DEF held
    <3>. QED
      BY <2>1, <3>1 DEF Atom
  <2>. QED
    BY <1>1, <1>2, <2>2
<1>. HIDE DEF held
<1>5. IsValid(draft)
  <2>1. draft # << >>
    BY <1>1, EmptySeq
  <2>2. \A i \in DOMAIN draft : ~IsNull(draft[i])
    BY <1>3, <1>4 DEF IsValid, IsNull
  <2>3. ASSUME NEW i \in DOMAIN draft \ {1} PROVE draft[i - 1].to = draft[i].from
    <3>1. i - 1 \in DOMAIN draft
      BY <1>1, <2>3, LenProperties
    <3>2. held[i - 1].to = held[i].from
      BY <1>3, <1>4 DEF IsValid
    <3>. QED
      BY <1>4, <3>1, <3>2
  <2>. QED
    BY <2>1, <2>2, <2>3 DEF IsValid
<1>6. IsJoined(Joined(draft), draft, Len(draft)) /\ IsValid(Joined(draft))
  BY <1>1, <1>5, JoinedKeeps DEF IsJoined
<1>7. DateRange(held) = DateRange(Joined(draft))
  <2>1. /\ Len(held) = Len(draft) /\ 1 \in DOMAIN draft /\ Len(draft) \in DOMAIN draft
    <3>1. Len(draft) # 0
      BY <1>1, <1>5, EmptySeq DEF IsValid
    <3>. QED
      BY <1>1, <1>3, <1>4, <3>1, LenProperties
  <2>2. held[1].from = draft[1].from /\ held[Len(held)].to = draft[Len(draft)].to
    BY <1>4, <2>1
  <2>. QED
    BY <1>3, <1>6, <2>2 DEF DateRange, IsJoined, FirstAtom, LastAtom
<1>. QED
  BY <1>2, <1>5, <1>6, <1>7 DEF held

\* What the user's tools queue are valid reservations, and what they draw.
LEMMA ToolsSound ==
  ASSUME GhostInv, ServerTypes, DrawnValid, RequestsSound, Followed, User
  PROVE  DrawnValid' /\ RequestsSound'
<1>1. /\ requests \in Seq(Seq(Operation)) /\ draft \in Seq(Atom) /\ ghosts \in Seq(Seq(Atom))
      /\ Part = Atom /\ Columns \in Fields
      /\ Len(ghosts) \in Nat /\ DOMAIN ghosts = 1 .. Len(ghosts)
  BY ToolsAssumption, LenProperties DEF GhostInv, GhostTypes, ServerTypes, Columns
<1>2. ASSUME ghosts' = << >> PROVE DrawnValid'
  <2>1. DOMAIN ghosts' = {}
    BY <1>2, EmptySeq
  <2>. QED
    BY <2>1 DEF DrawnValid
<1>3. ASSUME UNCHANGED ghosts PROVE DrawnValid'
  BY <1>3 DEF DrawnValid
<1>4. ASSUME UNCHANGED requests PROVE RequestsSound'
  BY <1>4 DEF RequestsSound
<1>5. ASSUME ReleaseMouse PROVE DrawnValid' /\ RequestsSound'
  <2>1. UNCHANGED requests
    BY <1>5 DEF ReleaseMouse, requestVars
  <2>2. CASE ghosts' = ghosts
    BY <1>3, <1>4, <2>1, <2>2
  <2>3. CASE ~IsNull(DateRange(draft)) /\ ghosts' = Append(ghosts, draft)
    <3>1. IsValid(draft)
      BY <2>3 DEF DateRange, IsNull
    <3>2. /\ DOMAIN ghosts' = 1 .. Len(ghosts) + 1
          /\ \A i \in 1 .. Len(ghosts) : ghosts'[i] = ghosts[i]
          /\ ghosts'[Len(ghosts) + 1] = draft
      BY <1>1, <2>3, AppendProperties, LenProperties
    <3>3. \A i \in 1 .. Len(ghosts) + 1 : i \in 1 .. Len(ghosts) \/ i = Len(ghosts) + 1
      BY <1>1
    <3>4. DrawnValid'
      BY <1>1, <3>1, <3>2, <3>3 DEF DrawnValid
    <3>. QED
      BY <1>4, <2>1, <3>4
  <2>. QED
    BY <1>5, <2>2, <2>3 DEF ReleaseMouse
<1>6. ASSUME PressBackspace PROVE DrawnValid' /\ RequestsSound'
  <2>1. UNCHANGED requests /\ ghosts # << >> /\ ghosts' = Front(ghosts)
    BY <1>6 DEF PressBackspace, requestVars
  <2>2. ghosts' = SubSeq(ghosts, 1, Len(ghosts) - 1) /\ Len(ghosts) # 0
    BY <1>1, <2>1, EmptySeq DEF Front
  <2>3. \A i \in 1 .. Len(ghosts) - 1 : ghosts[i] \in Seq(Atom)
    BY <1>1, ElementOfSeq
  <2>4. DOMAIN ghosts' = 1 .. Len(ghosts) - 1 /\ \A i \in 1 .. Len(ghosts) - 1 : ghosts'[i] = ghosts[i]
    BY <1>1, <2>2, <2>3, SubSeqProperties, LenProperties
  <2>5. DrawnValid'
    <3>1. \A i \in 1 .. Len(ghosts) - 1 : i \in DOMAIN ghosts
      BY <1>1
    <3>. QED
      BY <2>4, <3>1 DEF DrawnValid
  <2>. QED
    BY <1>4, <2>1, <2>5
<1>7. ASSUME EnterDescription PROVE DrawnValid' /\ RequestsSound'
  <2>. DEFINE batch(i) == <<[op |-> "StoreNew", item |-> NewItem(ghosts[i])]>>
              queued == [i \in DOMAIN ghosts |-> batch(i)]
  <2>1. \A i \in 1 .. Len(ghosts) : ghosts[i] \in Seq(Atom)
    BY <1>1, ElementOfSeq
  <2>2. ASSUME NEW i \in 1 .. Len(ghosts) PROVE batch(i) \in Seq(Operation) /\ IsSoundBatch(batch(i))
    <3>. DEFINE op == [op |-> "StoreNew", item |-> NewItem(ghosts[i])]
    <3>1. op \in Operation
      BY <2>1, NewItemType
    <3>2. IsSound(op)
      <4>1. op.item.type = "Reservation" /\ op.item.parts = ghosts[i]
        BY DEF NewItem
      <4>. QED
        BY <1>1, <4>1 DEF DrawnValid, IsSound
    <3>. HIDE DEF op
    <3>3. <<op>> \in Seq(Operation) /\ Len(<<op>>) = 1 /\ <<op>>[1] = op
      BY <3>1
    <3>4. IsSoundBatch(<<op>>)
      BY <3>2, <3>3 DEF IsSoundBatch
    <3>. QED
      BY <3>3, <3>4 DEF op
  <2>. HIDE DEF batch
  <2>3. queued \in [1 .. Len(ghosts) -> Seq(Operation)]
    BY <1>1, <2>2
  <2>4. queued \in Seq(Seq(Operation))
    BY <1>1, <2>3, SeqDef
  <2>5. QueueOperations(queued) /\ ghosts' = << >>
    BY <1>7 DEF EnterDescription, batch
  <2>6. \A i \in DOMAIN queued : IsSoundBatch(queued[i])
    BY <1>1, <2>2
  <2>. HIDE DEF queued
  <2>. QED
    BY <1>2, <2>4, <2>5, <2>6, SoundBatchesQueued
<1>8. ASSUME ReleaseAtom PROVE DrawnValid' /\ RequestsSound'
  <2>. DEFINE item == [type |-> "Reservation", id |-> moving.id, revision |-> moving.revision,
                       fields |-> Columns, parts |-> Joined(draft)]
              op == [op |-> "Update", item |-> item]
              queued == << <<op>> >>
  <2>1. moving \in Movement /\ moving # NotMoving
    BY <1>8 DEF ReleaseAtom, ReservationInHand, GhostInv, GhostTypes
  <2>2. Joined(draft) \in Seq(Part) /\ IsValid(Joined(draft))
    BY <1>1, <2>1, JoinedType, MovedValid
  <2>3. item \in Item
    BY <1>1, <2>1, <2>2 DEF Item, ItemTypes, Tables, Movement
  <2>4. item.type = "Reservation" /\ IsValid(item.parts)
    BY <2>2
  <2>5. QueueOperations(queued) /\ UNCHANGED ghosts
    BY <1>8 DEF ReleaseAtom
  <2>. HIDE DEF item
  <2>6. op \in Operation /\ IsSound(op)
    BY <2>3, <2>4 DEF Operation, IsSound
  <2>. HIDE DEF op
  <2>7. queued \in Seq(Seq(Operation)) /\ DOMAIN queued = {1} /\ queued[1] = <<op>>
    BY <2>6
  <2>8. Len(<<op>>) = 1 /\ <<op>>[1] = op
    OBVIOUS
  <2>9. IsSoundBatch(<<op>>)
    BY <2>6, <2>8 DEF IsSoundBatch
  <2>. HIDE DEF queued
  <2>10. \A i \in DOMAIN queued : IsSoundBatch(queued[i])
    BY <2>7, <2>9
  <2>. QED
    BY <1>3, <2>5, <2>7, <2>10, SoundBatchesQueued
<1>9. CASE UNCHANGED requests /\ (UNCHANGED ghosts \/ ghosts' = << >>)
  BY <1>2, <1>3, <1>4, <1>9
<1>. QED
  BY <1>5, <1>6, <1>7, <1>8, <1>9
     DEF User, ActivateTool, Unload, PressMouse, ShiftDragMouse, DragMouse, PressEscape,
         PressReturn, CancelDescription, DragAtom, requestVars, toolVars

\* The user draws, selects and deletes: the batches queued are sound, and what is selected is
\* on the scene.
LEMMA UserFollows ==
  ASSUME GhostInv, ServerTypes, FollowInv, Followed, UserEvents
  PROVE  FollowInv'
<1>1. DrawnValid /\ RequestsSound
  BY DEF FollowInv
<1>2. UserUnchanged
  BY DEF UserEvents, PressItem, PressElsewhere, PressRoom, PressDelete, UseTool
<1>3. UNCHANGED <<reservations, rooms, storage, overlapped, changes, scene, mistaken, cleared, app>>
  BY <1>2 DEF UserUnchanged, boardVars, backendVars, changeVars
<1>4. overlapped' \in BOOLEAN /\ EachOnceOn(reservations') /\ BoardFollows' /\ ThrowsOnlyOnDoubleBooking'
  <2>1. Shown(reservations)' = Shown(reservations) /\ StoredIn(storage)' = StoredIn(storage)
    BY <1>3
  <2>. QED
    BY <1>3, <2>1 DEF FollowInv, BoardFollows, ThrowsOnlyOnDoubleBooking
<1>5. selected' = selected \/ selected' \subseteq scene \cup selected
  BY DEF UserEvents, PressItem, PressElsewhere, PressRoom, PressDelete, UseTool
<1>6. SceneShowsBoard'
  <2>1. UsedAddresses' = UsedAddresses
    BY <1>3 DEF UsedAddresses
  <2>. QED
    BY <1>3, <1>5, <2>1 DEF FollowInv, SceneShowsBoard
<1>7. DrawnValid' /\ RequestsSound'
  <2>1. ASSUME UNCHANGED <<ghosts, requests>> PROVE DrawnValid' /\ RequestsSound'
    BY <1>1, <2>1 DEF DrawnValid, RequestsSound
  <2>2. ASSUME User PROVE DrawnValid' /\ RequestsSound'
    BY <1>1, <2>2, ToolsSound
  <2>3. ASSUME NEW i, NEW n, PressItem(i, n) PROVE DrawnValid' /\ RequestsSound'
    BY <2>1, <2>3 DEF PressItem, PressAtom, ghostVars, toolVars, requestVars
  <2>4. ASSUME PressElsewhere PROVE DrawnValid' /\ RequestsSound'
    BY <2>1, <2>4 DEF PressElsewhere, ghostVars, toolVars, requestVars
  <2>5. ASSUME NEW room \in Rooms, NEW date \in MouseDates, PressRoom(room, date) PROVE DrawnValid' /\ RequestsSound'
    <3>1. User
      BY <2>5 DEF PressRoom, User
    <3>. QED
      BY <2>2, <3>1
  <2>6. ASSUME PressDelete PROVE DrawnValid' /\ RequestsSound'
    <3>1. UNCHANGED ghosts
      BY <2>6 DEF PressDelete, ghostVars, toolVars
    <3>2. DrawnValid'
      BY <1>1, <3>1 DEF DrawnValid
    <3>. DEFINE batch == [i \in 1 .. Cardinality(SelectedIds) |->
                            [op |-> "Delete", type |-> "Reservation", id |-> SetToSeq(SelectedIds)[i]]]
    <3>3. requests' = Append(requests, batch) /\ requests' \in Seq(Seq(Operation))
      <4>1. requests' = requests \o <<batch>> /\ requests \in Seq(Seq(Operation)) /\ UserEvents
        BY <2>6 DEF PressDelete, QueueOperations, ServerTypes
      <4>2. requests' \in Seq(Seq(Operation))
        BY <4>1, RequestTypes
      <4>. HIDE DEF batch
      <4>. QED
        BY <4>1, <4>2
    <3>4. IsSoundBatch(batch)
      BY DEF IsSoundBatch
    <3>. HIDE DEF batch
    <3>5. /\ Len(requests) \in Nat /\ DOMAIN requests = 1 .. Len(requests)
          /\ DOMAIN requests' = 1 .. Len(requests) + 1
          /\ \A i \in 1 .. Len(requests) : requests'[i] = requests[i]
          /\ requests'[Len(requests) + 1] = batch
      BY <3>3 DEF ServerTypes
    <3>6. \A i \in 1 .. Len(requests) + 1 : i \in 1 .. Len(requests) \/ i = Len(requests) + 1
      BY <3>5
    <3>7. RequestsSound'
      BY <1>1, <3>4, <3>5, <3>6 DEF RequestsSound
    <3>. QED
      BY <3>2, <3>7
  <2>7. ASSUME UseTool PROVE DrawnValid' /\ RequestsSound'
    BY <2>2, <2>7 DEF UseTool
  <2>. QED
    BY <2>3, <2>4, <2>5, <2>6, <2>7 DEF UserEvents
<1>. QED
  BY <1>4, <1>6, <1>7 DEF FollowInv

\* The backend executes a batch, whoever sent it: the changes it tells lead on to what it stores.
LEMMA ExecuteFollows ==
  ASSUME ServerTypes, FollowInv, Followed, NEW batch \in Seq(Operation), IsSoundBatch(batch), Execute(batch),
         UNCHANGED <<reservations, cleared, app>>
  PROVE  BoardFollows' /\ overlapped' \in BOOLEAN /\ (overlapped => overlapped')
<1>. DEFINE calm == ~overlapped'
            run == Executed(storage, batch)
            E == Shown(reservations)
<1>1. /\ storage' = run.db /\ changes' = changes \o run.changes
      /\ overlapped' = (overlapped \/ DoubleBooked(run.db))
  BY DEF Execute
<1>2. overlapped \in BOOLEAN /\ overlapped' \in BOOLEAN
  BY <1>1 DEF FollowInv
<1>3. Leads(E, changes, StoredIn(storage), ~overlapped)
  BY DEF FollowInv, BoardFollows, Followed
<1>4. calm \in BOOLEAN /\ (~overlapped) \in BOOLEAN /\ (calm => ~overlapped) /\ (calm => ~DoubleBooked(run.db))
  <2>. HIDE DEF run
  <2>1. ~overlapped' => ~overlapped /\ ~DoubleBooked(run.db)
    BY <1>1, Zenon
  <2>2. calm \in BOOLEAN /\ (~overlapped) \in BOOLEAN
    BY DEF calm
  <2>. QED
    BY <2>1, <2>2 DEF calm
<1>5. storage \in Database /\ changes \in Seq(Change) /\ run.db \in Database /\ run.changes \in Seq(Change)
  BY ExecutedType DEF ServerTypes
<1>. HIDE DEF calm, run, E
<1>6. Leads(E, changes, StoredIn(storage), calm)
  BY <1>3, <1>4, LeadsCalmly
<1>7. calm => Fits(StoredIn(storage))
  <2>. SUFFICES ASSUME calm PROVE Fits(StoredIn(storage))
    OBVIOUS
  <2>1. Leads(E, changes, StoredIn(storage), TRUE)
    BY <1>4, <1>6, LeadsCalmly
  <2>. QED
    BY <1>5, <2>1, LeadsFits
<1>8. Leads(StoredIn(storage), run.changes, StoredIn(run.db), calm)
  BY <1>4, <1>5, <1>7, BatchLeads DEF run
<1>9. Leads(E, changes \o run.changes, StoredIn(run.db), calm)
  BY <1>4, <1>5, <1>6, <1>8, LeadsOn
<1>10. BoardFollows'
  <2>1. Shown(reservations)' = E /\ StoredIn(storage)' = StoredIn(run.db)
    BY <1>1 DEF E
  <2>2. Leads(Shown(reservations)', changes', StoredIn(storage)', ~overlapped')
    BY <1>1, <1>9, <2>1 DEF calm
  <2>. QED
    BY <2>2 DEF BoardFollows
<1>. QED
  BY <1>1, <1>2, <1>10

\* A step of the backend
LEMMA BackendFollows ==
  ASSUME ServerTypes, FollowInv, Followed, Backend
  PROVE  FollowInv'
<1>1. /\ UNCHANGED <<reservations, rooms, ghosts, scene, selected, mistaken, cleared, app>>
  BY DEF Backend, ExecuteRequest, ExecuteOther, boardVars, ghostVars, toolVars, sceneVars
<1>2. \E batch \in Seq(Operation) : IsSoundBatch(batch) /\ Execute(batch)
  <2>1. ASSUME ExecuteRequest PROVE \E batch \in Seq(Operation) : IsSoundBatch(batch) /\ Execute(batch)
    <3>1. requests \in Seq(Seq(Operation)) /\ requests # << >> /\ Execute(Head(requests))
      BY <2>1 DEF ExecuteRequest, ServerTypes
    <3>2. Head(requests) \in Seq(Operation) /\ 1 \in DOMAIN requests /\ Head(requests) = requests[1]
      BY <3>1, HeadTailProperties, LenProperties, EmptySeq
    <3>. QED
      BY <3>1, <3>2 DEF FollowInv, RequestsSound
  <2>2. ASSUME ExecuteOther PROVE \E batch \in Seq(Operation) : IsSoundBatch(batch) /\ Execute(batch)
    <3>1. PICK op \in OtherOperations : Execute(<<op>>)
      BY <2>2 DEF ExecuteOther
    <3>2. op \in Operation
      BY OthersSendOperations
    <3>3. IsSound(op)
      <4>1. ASSUME NEW atoms \in Theirs, op = [op |-> "StoreNew", item |-> NewItem(atoms)] PROVE IsSound(op)
        BY <4>1, WidgetAssumption DEF IsSound, NewItem
      <4>2. ASSUME NEW item \in Loaded(storage, AllReservations), NEW atoms \in Theirs,
                   op = [op |-> "Update", item |-> [item EXCEPT !.parts = atoms]]
            PROVE  IsSound(op)
        <5>1. item.type = "Reservation" /\ item \in Item
          <6>1. AllReservations \in Endpoint
            BY DEF AllReservations, Endpoint, Tables
          <6>2. item \in Item
            BY <6>1, LoadedType DEF ServerTypes
          <6>. QED
            BY <6>2, StoredMeans DEF ItemAt, ServerTypes
        <5>2. op.item.type = "Reservation" /\ op.item.parts = atoms
          BY <4>2, <5>1 DEF Item
        <5>. QED
          BY <5>2, WidgetAssumption DEF IsSound
      <4>3. CASE op.op \in {"Delete", "EraseAllData"}
        BY <4>3 DEF IsSound
      <4>. QED
        BY <4>1, <4>2, <4>3 DEF OtherOperations
    <3>4. <<op>> \in Seq(Operation) /\ Len(<<op>>) = 1 /\ <<op>>[1] = op
      BY <3>2
    <3>5. IsSoundBatch(<<op>>)
      BY <3>3, <3>4 DEF IsSoundBatch
    <3>. QED
      BY <3>1, <3>4, <3>5
  <2>. QED
    BY <2>1, <2>2 DEF Backend
<1>3. BoardFollows' /\ overlapped' \in BOOLEAN /\ (overlapped => overlapped')
  BY <1>1, <1>2, ExecuteFollows
<1>4. RequestsSound'
  <2>1. CASE UNCHANGED requests
    BY <2>1 DEF FollowInv, RequestsSound
  <2>2. CASE requests # << >> /\ requests' = Tail(requests)
    <3>1. requests \in Seq(Seq(Operation))
      BY DEF ServerTypes
    <3>2. /\ Len(requests) \in Nat /\ DOMAIN requests = 1 .. Len(requests)
          /\ DOMAIN requests' = 1 .. Len(requests) - 1
          /\ \A i \in 1 .. Len(requests) - 1 : requests'[i] = requests[i + 1]
      BY <2>2, <3>1, HeadTailProperties, LenProperties
    <3>3. \A i \in 1 .. Len(requests) - 1 : i + 1 \in DOMAIN requests
      BY <3>2
    <3>. QED
      BY <3>2, <3>3 DEF FollowInv, RequestsSound
  <2>. QED
    BY <2>1, <2>2 DEF Backend, ExecuteRequest, ExecuteOther, requestVars
<1>5. DrawnValid' /\ EachOnceOn(reservations')
  BY <1>1 DEF FollowInv, DrawnValid
<1>6. SceneShowsBoard' /\ ThrowsOnlyOnDoubleBooking'
  <2>1. UsedAddresses' = UsedAddresses
    BY <1>1 DEF UsedAddresses
  <2>. QED
    BY <1>1, <1>3, <2>1 DEF FollowInv, SceneShowsBoard, ThrowsOnlyOnDoubleBooking
<1>. QED
  BY <1>3, <1>4, <1>5, <1>6 DEF FollowInv

-----------------------------------------------------------------------------
(* A change reaches the board *)

\* A reservation is taken off the board and out of the scene, or neither is there.
LEMMA RemovalFollows ==
  ASSUME IsBoard(reservations, rooms), EachOnceOn(reservations), SceneShowsBoard, ~cleared,
         NEW id, RemoveItem(id), RemoveFromBoard(id)
  PROVE  /\ EachOnceOn(reservations')
         /\ Shown(reservations') = {e \in Shown(reservations) : e.id # id}
         /\ mistaken' \/ (scene' = UsedAddresses' /\ selected' \subseteq scene')
<1>1. \A e \in Shown(reservations) : \E i \in DOMAIN reservations :
        e = Entry(reservations[i].id, reservations[i].revision, reservations[i].atoms) /\ e.id = reservations[i].id
  BY DEF Shown, Entry
<1>2. \/ mistaken'
      \/ /\ mistaken' = mistaken
         /\ \/ UNCHANGED <<scene, selected>> /\ {reservations[i].address : i \in WithId(id)} \cap scene = {}
            \/ \E item \in {reservations[i].address : i \in WithId(id)} :
                 scene' = scene \ {item} /\ selected' = selected \ {item}
  BY DEF RemoveItem
<1>3. mistaken \/ (scene = UsedAddresses /\ selected \subseteq scene)
  BY DEF SceneShowsBoard
<1>4. CASE WithId(id) = {}
  <2>1. reservations' = reservations
    BY <1>4 DEF RemoveFromBoard, boardVars
  <2>2. \A e \in Shown(reservations) : e.id # id
    BY <1>1, <1>4 DEF WithId
  <2>3. Shown(reservations') = {e \in Shown(reservations) : e.id # id}
    BY <2>1, <2>2
  <2>4. mistaken' \/ (scene' = UsedAddresses' /\ selected' \subseteq scene')
    <3>1. UsedAddresses' = UsedAddresses
      BY <2>1 DEF UsedAddresses
    <3>2. \A item : item \notin {reservations[i].address : i \in WithId(id)}
      BY <1>4
    <3>. QED
      BY <1>2, <1>3, <3>1, <3>2
  <2>. QED
    BY <2>1, <2>3, <2>4
<1>5. CASE WithId(id) # {}
  <2>1. PICK i \in DOMAIN reservations : reservations[i].id = id /\ TakeOff(i)
    BY <1>5 DEF RemoveFromBoard, RemoveReservationById
  <2>2. reservations' = RemoveAt(reservations, i)
    BY <2>1 DEF TakeOff
  <2>3. /\ EachOnceOn(reservations')
        /\ Shown(reservations') = {e \in Shown(reservations) : e.id # id}
        /\ \A a : (\E j \in DOMAIN reservations' : a = reservations'[j].address)
                    <=> (\E k \in DOMAIN reservations : a = reservations[k].address) /\ a # reservations[i].address
    BY <2>1, <2>2, ShownWithout
  <2>4. \A a : a \in UsedAddresses' <=> a \in UsedAddresses /\ a # reservations[i].address
    <3>. SUFFICES ASSUME NEW a PROVE a \in UsedAddresses' <=> a \in UsedAddresses /\ a # reservations[i].address
      OBVIOUS
    <3>2. /\ a \in UsedAddresses' <=> \E j \in DOMAIN reservations' : a = reservations'[j].address
          /\ a \in UsedAddresses <=> \E k \in DOMAIN reservations : a = reservations[k].address
      BY DEF UsedAddresses
    <3>3. (\E j \in DOMAIN reservations' : a = reservations'[j].address)
            <=> (\E k \in DOMAIN reservations : a = reservations[k].address) /\ a # reservations[i].address
      BY <2>3
    <3>. QED
      BY <3>2, <3>3
  <2>5. \A k : k \in WithId(id) <=> k = i
    BY <2>1 DEF WithId, EachOnceOn
  <2>6. \A a : a \in {reservations[k].address : k \in WithId(id)} <=> a = reservations[i].address
    BY <2>5
  <2>7. reservations[i].address \in UsedAddresses
    BY <2>1 DEF UsedAddresses
  <2>8. mistaken' \/ (scene' = UsedAddresses' /\ selected' \subseteq scene')
    <3>1. CASE mistaken'
      BY <3>1
    <3>2. CASE mistaken' = mistaken /\ ~mistaken
      <4>1. scene = UsedAddresses /\ selected \subseteq scene
        BY <1>3, <3>2
      <4>2. scene' = scene \ {reservations[i].address} /\ selected' = selected \ {reservations[i].address}
        BY <1>2, <2>6, <2>7, <3>2, <4>1
      <4>. QED
        BY <2>4, <4>1, <4>2
    <3>. QED
      BY <1>2, <3>1, <3>2
  <2>. QED
    BY <2>3, <2>8
<1>. QED
  BY <1>4, <1>5

\* A reservation which is not yet there is put on the board and into the scene, or the board's
\* exception ends the GUI: then it is not valid, or in the way of another one.
LEMMA AdditionFollows ==
  ASSUME GhostInv, EachOnceOn(reservations), SceneShowsBoard, DrawnValid, ~cleared,
         NEW item, item.parts \in Seq(Atom), item.id \in Nat, item.revision \in Nat,
         \A i \in DOMAIN reservations : reservations[i].id # item.id,
         AddToBoard(item)
  PROVE  /\ EachOnceOn(reservations') /\ DrawnValid'
         /\ mistaken' \/ (scene' = UsedAddresses' /\ selected' \subseteq scene')
         /\ \/ app' = app /\ Shown(reservations') = Shown(reservations) \cup EntriesOf({item})
            \/ /\ app' = "ended"
               /\ ~(IsValid(item.parts) /\ \A j \in DOMAIN reservations : Apart(reservations[j].atoms, item.parts))
<1>1. IsBoard(reservations, rooms) /\ ghosts \in Seq(Seq(Atom)) /\ NightsFree
  BY DEF GhostInv, GhostTypes
<1>2. DrawnValid'
  <2>1. ghosts' = GhostsBeside(item.parts)
    BY DEF AddToBoard, ReservationAdded
  <2>2. AreLeft(ghosts', item.parts, Len(ghosts)) /\ DOMAIN ghosts = 1 .. Len(ghosts)
    BY <1>1, <2>1, GhostsLeft, LenProperties DEF NightsFree
  <2>. QED
    BY <2>2 DEF AreLeft, DrawnValid
<1>3. /\ mistaken' = mistaken /\ selected' = selected
      /\ mistaken \/ (scene = UsedAddresses /\ selected \subseteq scene)
  BY DEF AddToBoard, SceneShowsBoard
<1>4. CASE ~CanAddReservation(item.parts)
  <2>1. app' = "ended" /\ reservations' = reservations /\ scene' = scene
    BY <1>4 DEF AddToBoard
  <2>2. UsedAddresses' = UsedAddresses
    BY <2>1 DEF UsedAddresses
  <2>. QED
    BY <1>1, <1>2, <1>3, <1>4, <2>1, <2>2, ApartCanBeAdded
<1>5. CASE CanAddReservation(item.parts)
  <2>. DEFINE new == [address |-> NewAddress, id |-> item.id, revision |-> item.revision, atoms |-> item.parts]
  <2>1. /\ PutOn(NewAddress, item.id, item.revision, item.parts)
        /\ scene' = scene \cup {NewAddress} /\ app' = app
    BY <1>5 DEF AddToBoard
  <2>2. reservations' = Append(reservations, new) /\ new \in BoardReservation /\ reservations \in Seq(BoardReservation)
    BY <1>1, <2>1 DEF PutOn, IsBoard, BoardReservation
  <2>3. new.address = NewAddress /\ new.id = item.id /\ new.revision = item.revision /\ new.atoms = item.parts
    OBVIOUS
  <2>. HIDE DEF new
  <2>4. /\ EachOnceOn(reservations')
        /\ Shown(reservations') = Shown(reservations) \cup {Entry(new.id, new.revision, new.atoms)}
        /\ \A a : (\E i \in DOMAIN reservations' : a = reservations'[i].address)
                    <=> (\E i \in DOMAIN reservations : a = reservations[i].address) \/ a = new.address
    <3>1. EachOnceOn(reservations) /\ \A i \in DOMAIN reservations : reservations[i].id # new.id
      BY <2>3
    <3>. QED
      BY <2>2, <3>1, ShownWith, SMTT(30)
  <2>5. Shown(reservations') = Shown(reservations) \cup EntriesOf({item})
    <3>1. EntriesOf({item}) = {Entry(new.id, new.revision, new.atoms)}
      BY <2>3 DEF EntriesOf
    <3>. QED
      BY <2>4, <3>1
  <2>6. UsedAddresses' = UsedAddresses \cup {NewAddress}
    <3>1. ASSUME NEW a PROVE a \in UsedAddresses' <=> a \in UsedAddresses \/ a = NewAddress
      <4>1. (\E i \in DOMAIN reservations' : a = reservations'[i].address)
              <=> (\E i \in DOMAIN reservations : a = reservations[i].address) \/ a = NewAddress
        BY <2>3, <2>4
      <4>2. a \in UsedAddresses <=> \E i \in DOMAIN reservations : a = reservations[i].address
        BY DEF UsedAddresses
      <4>3. a \in UsedAddresses' <=> \E i \in DOMAIN reservations' : a = reservations'[i].address
        BY DEF UsedAddresses
      <4>. QED
        BY <4>1, <4>2, <4>3
    <3>. QED
      BY <3>1
  <2>. QED
    BY <1>2, <1>3, <2>1, <2>4, <2>5, <2>6
<1>. QED
  BY <1>4, <1>5

\* Some items are added, one at a time: after each the log leads from what the board shows then.
LEMMA AddedFollows ==
  ASSUME GhostInv, ServerTypes, FollowInv, Followed, ReservationsAdded
  PROVE  FollowInv'
<1>. DEFINE items == Head(changes).items
            E == Shown(reservations)
            S == StoredIn(storage)
            calm == ~overlapped
<1>1. /\ changes # << >> /\ changes \in Seq(Change)
      /\ Head(changes).kind = "added" /\ Head(changes) \in Change /\ Tail(changes) \in Seq(Change)
      /\ items \in SUBSET Item
      /\ \A item \in items : item.parts \in Seq(Atom) /\ item.id \in Nat /\ item.revision \in Nat
  BY ToldItems DEF ReservationsAdded, Told, ServerTypes
<1>2. /\ DrawnValid /\ RequestsSound /\ overlapped \in BOOLEAN /\ EachOnceOn(reservations)
      /\ SceneShowsBoard /\ ThrowsOnlyOnDoubleBooking /\ app = "running" /\ ~cleared
      /\ calm \in BOOLEAN
  BY DEF FollowInv, Followed
<1>3. Leads(E, changes, S, calm)
  BY <1>2 DEF FollowInv, BoardFollows
<1>4. UNCHANGED <<requests, storage, overlapped>>
  BY DEF ReservationsAdded, requestVars, backendVars
<1>. HIDE DEF S, calm, E
<1>5. PICK G : Follows(E, Head(changes), G) /\ Leads(G, Tail(changes), S, calm) /\ (calm => Fits(E) /\ Fits(G))
  BY <1>1, <1>2, <1>3, LeadsFirst
<1>6. /\ \A item \in items : \A e \in E : e.id # item.id
      /\ \A item, other \in items : item.id = other.id => item = other
      /\ G = E \cup EntriesOf(items)
  BY <1>1, <1>5, FollowsByKind
<1>7. RequestsSound' /\ overlapped' \in BOOLEAN
  BY <1>2, <1>4 DEF RequestsSound
<1>8. ASSUME NEW B, app' = "running" => Shown(reservations') = B /\ Leads(B, changes', S, calm)
      PROVE  BoardFollows'
  <2>. SUFFICES ASSUME app' = "running" PROVE Leads(Shown(reservations'), changes', StoredIn(storage'), ~overlapped')
    BY DEF BoardFollows
  <2>. QED
    BY <1>4, <1>8 DEF S, calm
<1>9. CASE items = {}
  <2>1. /\ changes' = Tail(changes)
        /\ UNCHANGED <<reservations, rooms, ghosts, scene, selected, mistaken, cleared, app>>
    BY <1>9 DEF ReservationsAdded, boardVars, ghostVars, toolVars, sceneVars
  <2>2. G = E
    BY <1>6, <1>9 DEF EntriesOf
  <2>3. Shown(reservations)' = E /\ UsedAddresses' = UsedAddresses
    BY <2>1 DEF E, UsedAddresses
  <2>4. BoardFollows'
    BY <1>5, <1>8, <2>1, <2>2, <2>3
  <2>5. DrawnValid' /\ EachOnceOn(reservations') /\ SceneShowsBoard' /\ ThrowsOnlyOnDoubleBooking'
    BY <1>2, <1>4, <2>1, <2>3 DEF DrawnValid, SceneShowsBoard, ThrowsOnlyOnDoubleBooking
  <2>. QED
    BY <1>7, <2>4, <2>5 DEF FollowInv
<1>10. CASE items # {}
  <2>1. PICK item \in items : AddToBoard(item) /\ Handled(item)
    BY <1>10 DEF ReservationsAdded
  <2>. DEFINE rest == items \ {item}
              B == E \cup EntriesOf({item})
  <2>2. \A i \in DOMAIN reservations : reservations[i].id # item.id
    <3>1. ASSUME NEW i \in DOMAIN reservations PROVE reservations[i].id # item.id
      <4>1. Entry(reservations[i].id, reservations[i].revision, reservations[i].atoms) \in E
        BY DEF E, Shown
      <4>2. Entry(reservations[i].id, reservations[i].revision, reservations[i].atoms).id = reservations[i].id
        BY DEF Entry
      <4>. QED
        BY <1>6, <4>1, <4>2
    <3>. QED
      BY <3>1
  <2>3. /\ EachOnceOn(reservations') /\ DrawnValid'
        /\ mistaken' \/ (scene' = UsedAddresses' /\ selected' \subseteq scene')
        /\ \/ app' = app /\ Shown(reservations') = B
           \/ /\ app' = "ended"
              /\ ~(IsValid(item.parts) /\ \A j \in DOMAIN reservations : Apart(reservations[j].atoms, item.parts))
    BY <1>1, <1>2, <2>1, <2>2, AdditionFollows DEF E
  <2>4. cleared' = cleared
    BY <2>1 DEF AddToBoard
  <2>5. SceneShowsBoard'
    BY <2>3 DEF SceneShowsBoard
  <2>6. ASSUME calm PROVE /\ IsValid(item.parts)
                          /\ \A j \in DOMAIN reservations : Apart(reservations[j].atoms, item.parts)
    <3>. DEFINE new == Entry(item.id, item.revision, item.parts)
    <3>1. Fits(G) /\ new \in G /\ new.parts = item.parts /\ new.id = item.id
      BY <1>5, <1>6, <2>6 DEF EntriesOf, Entry
    <3>2. ASSUME NEW j \in DOMAIN reservations PROVE Apart(reservations[j].atoms, item.parts)
      <4>. DEFINE old == Entry(reservations[j].id, reservations[j].revision, reservations[j].atoms)
      <4>1. old \in G /\ old.parts = reservations[j].atoms /\ old.id = reservations[j].id
        BY <1>6 DEF E, Shown, Entry
      <4>2. old # new
        BY <2>2, <3>1, <4>1
      <4>. HIDE DEF old, new
      <4>. QED
        BY <3>1, <4>1, <4>2 DEF Fits
    <3>. QED
      BY <3>1, <3>2 DEF Fits
  <2>7. ThrowsOnlyOnDoubleBooking'
    <3>1. CASE calm
      <4>1. app' = app
        BY <2>3, <2>6, <3>1
      <4>. QED
        BY <1>2, <4>1 DEF ThrowsOnlyOnDoubleBooking
    <3>2. CASE ~calm
      BY <1>2, <1>4, <3>2 DEF ThrowsOnlyOnDoubleBooking, calm
    <3>. QED
      BY <3>1, <3>2
  <2>8. ASSUME app' = "running" PROVE Leads(B, changes', S, calm) /\ Shown(reservations') = B
    <3>1. Shown(reservations') = B
      BY <2>3, <2>8
    <3>2. CASE rest = {}
      <4>1. changes' = Tail(changes) /\ G = B
        BY <1>6, <2>1, <3>2 DEF Handled, EntriesOf
      <4>. QED
        BY <1>5, <3>1, <4>1
    <3>3. CASE rest # {}
      <4>1. changes' = <<Added(rest)>> \o Tail(changes)
        BY <2>1, <3>3 DEF Handled
      <4>2. \A k : k \in EntriesOf(items) <=> k \in EntriesOf({item}) \/ k \in EntriesOf(rest)
        BY <2>1 DEF EntriesOf
      <4>3. G = B \cup EntriesOf(rest)
        BY <1>6, <4>2
      <4>4. \A new \in rest : \A e \in B : e.id # new.id
        BY <1>6 DEF EntriesOf, Entry
      <4>5. Follows(B, Added(rest), G)
        <5>1. Added(rest).kind = "added" /\ Added(rest).items = rest
          BY DEF Added
        <5>2. \A new, other \in rest : new.id = other.id => new = other
          BY <1>6
        <5>. HIDE DEF rest, B
        <5>. QED
          BY <4>3, <4>4, <5>1, <5>2 DEF Follows
      <4>6. calm => Fits(B) /\ Fits(G)
        <5>. HIDE DEF rest, B
        <5>1. B \subseteq G
          BY <4>3
        <5>. QED
          BY <1>5, <5>1, SomeFit
      <4>7. Leads(B, <<Added(rest)>>, G, calm)
        <5>. HIDE DEF rest, B
        <5>. QED
          BY <1>2, <4>5, <4>6, LeadsInOne
      <4>8. <<Added(rest)>> \in Seq(Change)
        <5>1. Added(rest) \in Change
          BY <1>1 DEF Added, Change
        <5>. QED
          BY <5>1
      <4>. HIDE DEF rest, B
      <4>9. Leads(B, <<Added(rest)>> \o Tail(changes), S, calm)
        BY <1>1, <1>2, <1>5, <4>7, <4>8, LeadsOn
      <4>. QED
        BY <3>1, <4>1, <4>9
    <3>. QED
      BY <3>2, <3>3
  <2>9. BoardFollows'
    <3>. HIDE DEF B
    <3>. QED
      BY <1>8, <2>8
  <2>. QED
    BY <1>7, <2>3, <2>5, <2>7, <2>9 DEF FollowInv
<1>. QED
  BY <1>9, <1>10

\* A reservation is removed, or its old version, which a new one follows.
LEMMA RemovedFollows ==
  ASSUME GhostInv, ServerTypes, FollowInv, Followed, ReservationsRemoved \/ ReservationsUpdated
  PROVE  FollowInv'
<1>. DEFINE E == Shown(reservations)
            S == StoredIn(storage)
            calm == ~overlapped
<1>1. /\ changes # << >> /\ changes \in Seq(Change)
      /\ Head(changes) \in Change /\ Tail(changes) \in Seq(Change)
  BY ToldItems DEF ReservationsRemoved, ReservationsUpdated, Told, ServerTypes
<1>2. /\ DrawnValid /\ RequestsSound /\ overlapped \in BOOLEAN /\ EachOnceOn(reservations)
      /\ SceneShowsBoard /\ ThrowsOnlyOnDoubleBooking /\ app = "running" /\ ~cleared
      /\ calm \in BOOLEAN /\ IsBoard(reservations, rooms)
  BY DEF FollowInv, Followed, GhostInv
<1>3. Leads(E, changes, S, calm)
  BY <1>2 DEF FollowInv, BoardFollows
<1>4. UNCHANGED <<requests, storage, overlapped, ghosts, cleared, app>>
  BY DEF ReservationsRemoved, ReservationsUpdated, requestVars, backendVars
<1>. HIDE DEF S, calm, E
<1>5. PICK G : Follows(E, Head(changes), G) /\ Leads(G, Tail(changes), S, calm) /\ (calm => Fits(E) /\ Fits(G))
  BY <1>1, <1>2, <1>3, LeadsFirst
<1>6. ASSUME NEW id, RemoveItem(id), RemoveFromBoard(id), Leads(Without(E, id), changes', S, calm)
      PROVE  FollowInv'
  <2>1. /\ EachOnceOn(reservations')
        /\ Shown(reservations') = Without(E, id)
        /\ mistaken' \/ (scene' = UsedAddresses' /\ selected' \subseteq scene')
    BY <1>2, <1>6, RemovalFollows DEF E, Without
  <2>3. BoardFollows'
    <3>1. Leads(Shown(reservations'), changes', StoredIn(storage'), ~overlapped')
      BY <1>4, <1>6, <2>1 DEF S, calm
    <3>. QED
      BY <3>1 DEF BoardFollows
  <2>4. DrawnValid' /\ RequestsSound' /\ overlapped' \in BOOLEAN /\ SceneShowsBoard' /\ ThrowsOnlyOnDoubleBooking'
    BY <1>2, <1>4, <2>1 DEF DrawnValid, RequestsSound, SceneShowsBoard, ThrowsOnlyOnDoubleBooking
  <2>. QED
    BY <2>1, <2>3, <2>4 DEF FollowInv
<1>7. CASE ReservationsRemoved
  <2>1. PICK id \in Head(changes).ids : RemoveItem(id) /\ RemoveFromBoard(id)
    BY <1>7 DEF ReservationsRemoved
  <2>2. Head(changes).kind = "removed" /\ changes' = Tail(changes)
    BY <1>7 DEF ReservationsRemoved, Told
  <2>3. PICK k : Head(changes) = Removed({k}) /\ G = Without(E, k)
    <3>. DEFINE change == Head(changes)
    <3>1. Follows(E, change, G) /\ change.kind = "removed"
      BY <1>5, <2>2
    <3>. HIDE DEF change
    <3>2. \E k : change = Removed({k}) /\ G = Without(E, k)
      BY <3>1, FollowsByKind
    <3>. QED
      BY <3>2 DEF change
  <2>4. k = id
    BY <2>1, <2>3 DEF Removed
  <2>. QED
    BY <1>5, <1>6, <2>1, <2>2, <2>3, <2>4
<1>8. CASE ReservationsUpdated
  <2>1. PICK item \in Head(changes).items : RemoveItem(item.id) /\ RemoveFromBoard(item.id)
    BY <1>8 DEF ReservationsUpdated
  <2>2. Head(changes).kind = "updated" /\ changes' = <<Added(Head(changes).items)>> \o Tail(changes)
    BY <1>8 DEF ReservationsUpdated, Told
  <2>3. PICK new : Head(changes) = Updated({new}) /\ G = Without(E, new.id) \cup EntriesOf({new})
    <3>. DEFINE change == Head(changes)
    <3>1. Follows(E, change, G) /\ change.kind = "updated"
      BY <1>5, <2>2
    <3>. HIDE DEF change
    <3>2. \E new : change = Updated({new}) /\ G = Without(E, new.id) \cup EntriesOf({new})
      BY <3>1, FollowsByKind, SMTT(30)
    <3>. QED
      BY <3>2 DEF change
  <2>4. Head(changes).items = {item} /\ new = item
    BY <2>1, <2>3 DEF Updated
  <2>. DEFINE B == Without(E, item.id)
  <2>5. G = B \cup EntriesOf({item}) /\ \A e \in B : e.id # item.id
    BY <2>3, <2>4 DEF Without
  <2>. HIDE DEF B
  <2>6. Follows(B, Added({item}), G)
    BY <2>5 DEF Follows, Added
  <2>7. calm => Fits(B) /\ Fits(G)
    BY <1>5, <2>5, SomeFit
  <2>8. Leads(B, <<Added({item})>>, G, calm)
    BY <1>2, <2>6, <2>7, LeadsInOne
  <2>9. <<Added({item})>> \in Seq(Change)
    <3>1. {item} \in SUBSET Item
      BY <1>1, <2>2, <2>4, ToldItems
    <3>2. Added({item}) \in Change
      BY <3>1 DEF Added, Change
    <3>. QED
      BY <3>2
  <2>10. Leads(B, <<Added({item})>> \o Tail(changes), S, calm)
    BY <1>1, <1>2, <1>5, <2>8, <2>9, LeadsOn
  <2>11. Leads(Without(E, item.id), changes', S, calm)
    BY <2>2, <2>4, <2>10 DEF B
  <2>. QED
    BY <1>6, <2>1, <2>11
<1>. QED
  BY <1>7, <1>8

\* At first the board is empty, and the widget is told what is stored.
LEMMA FollowStart == WidgetInit => FollowInv
<1>. SUFFICES ASSUME WidgetInit PROVE FollowInv
  OBVIOUS
<1>1. /\ reservations = << >> /\ ghosts = << >> /\ requests = << >> /\ storage = StoredFirst
      /\ changes = InitialChanges(storage, AllReservations)
      /\ scene = {} /\ selected = {} /\ app = "running" /\ overlapped = DoubleBooked(storage)
  BY DEF WidgetInit, Init, ToolsInit
<1>2. DOMAIN << >> = {}
  BY EmptySeq
<1>3. DrawnValid /\ RequestsSound /\ EachOnceOn(reservations) /\ overlapped \in BOOLEAN
  BY <1>1, <1>2 DEF DrawnValid, RequestsSound, EachOnceOn, DoubleBooked
<1>4. SceneShowsBoard /\ ThrowsOnlyOnDoubleBooking
  BY <1>1, <1>2 DEF SceneShowsBoard, ThrowsOnlyOnDoubleBooking, UsedAddresses
<1>5. BoardFollows
  <2>. DEFINE items == Loaded(storage, AllReservations)
              calm == ~overlapped
  <2>1. storage \in Database /\ \A i \in DOMAIN storage["Reservation"] : IsValid(storage["Reservation"][i].parts)
    BY <1>1, StoredFirstType
  <2>2. changes = <<Added(items)>>
    BY <1>1 DEF InitialChanges, AllReservations, HasHandler, Tables
  <2>3. Shown(reservations) = {}
    BY <1>1, <1>2 DEF Shown
  <2>4. StoredIn(storage) = EntriesOf(items)
    BY DEF StoredIn
  <2>5. \A item, other \in items : item.id = other.id => item = other
    BY <2>1, StoredMeans DEF ItemAt
  <2>6. calm => Fits(StoredIn(storage))
    <3>1. \A e \in StoredIn(storage) : IsValid(e.parts)
      BY <2>1, StoredMeans DEF Entry
    <3>. QED
      BY <1>1, <2>1, <3>1, CalmStorageFits
  <2>. HIDE DEF items
  <2>7. Follows({}, Added(items), StoredIn(storage))
    <3>1. Added(items).kind = "added" /\ Added(items).items = items
      BY DEF Added
    <3>. QED
      BY <2>4, <2>5, <3>1 DEF Follows
  <2>8. Fits({})
    BY DEF Fits
  <2>9. calm \in BOOLEAN
    OBVIOUS
  <2>10. Leads({}, <<Added(items)>>, StoredIn(storage), calm)
    <3>. HIDE DEF calm
    <3>. QED
      BY <2>6, <2>7, <2>8, <2>9, LeadsInOne
  <2>. QED
    BY <2>2, <2>3, <2>10 DEF BoardFollows
<1>. QED
  BY <1>3, <1>4, <1>5 DEF FollowInv

\* Every step keeps it.
LEMMA FollowStep == WidgetInv /\ FollowInv /\ [WidgetNext]_widgetVars => FollowInv'
<1>. SUFFICES ASSUME WidgetInv, FollowInv, [WidgetNext]_widgetVars PROVE FollowInv'
  OBVIOUS
<1>1. GhostInv /\ ServerTypes
  BY DEF WidgetInv
<1>2. ASSUME Followed, AllReservationsRemoved PROVE FollowInv'
  <2>1. /\ UNCHANGED <<reservations, ghosts, requests, overlapped, app>> /\ cleared' = TRUE
    BY <1>2 DEF AllReservationsRemoved, boardVars, requestVars, backendVars
  <2>2. DrawnValid' /\ RequestsSound' /\ EachOnceOn(reservations') /\ overlapped' \in BOOLEAN
    BY <2>1 DEF FollowInv, DrawnValid, RequestsSound
  <2>3. BoardFollows' /\ SceneShowsBoard' /\ ThrowsOnlyOnDoubleBooking'
    BY <2>1 DEF BoardFollows, SceneShowsBoard, ThrowsOnlyOnDoubleBooking
  <2>. QED
    BY <2>2, <2>3 DEF FollowInv
<1>3. CASE UNCHANGED widgetVars
  <2>1. UNCHANGED <<reservations, ghosts, requests, storage, changes, overlapped, scene, selected, mistaken, cleared, app>>
    BY <1>3 DEF widgetVars, boardVars, ghostVars, toolVars, requestVars, backendVars, changeVars, sceneVars
  <2>2. DrawnValid' /\ RequestsSound' /\ EachOnceOn(reservations') /\ overlapped' \in BOOLEAN
    BY <2>1 DEF FollowInv, DrawnValid, RequestsSound
  <2>3. BoardFollows'
    BY <2>1 DEF FollowInv, BoardFollows
  <2>4. SceneShowsBoard' /\ ThrowsOnlyOnDoubleBooking'
    BY <2>1 DEF FollowInv, SceneShowsBoard, ThrowsOnlyOnDoubleBooking, UsedAddresses
  <2>. QED
    BY <2>2, <2>3, <2>4 DEF FollowInv
<1>. QED
  BY <1>1, <1>2, <1>3, BackendFollows, AddedFollows, RemovedFollows, UserFollows
     DEF WidgetNext, Stopped, MainThread

\* The widget follows the storage: what it has yet to be told always leads from what its board
\* shows to what is stored, each reservation once, and nothing on the way is booked twice as long as
\* the storage was not.
THEOREM WidgetFollows == WidgetSpec => [](WidgetInv /\ FollowInv)
BY WidgetStart, WidgetStep, FollowStart, FollowStep, PTL DEF WidgetSpec

\* The scene shows what is on the board, and what is selected is shown.
THEOREM SceneFollowsBoard == WidgetSpec => []SceneShowsBoard
<1>1. FollowInv => SceneShowsBoard
  BY DEF FollowInv
<1>. QED
  BY <1>1, WidgetFollows, PTL

\* The GUI is ended by the board's exception only after the storage was booked twice, or the
\* board not cleared.
THEOREM BoardTakesEveryChange == WidgetSpec => []ThrowsOnlyOnDoubleBooking
<1>1. FollowInv => ThrowsOnlyOnDoubleBooking
  BY DEF FollowInv
<1>. QED
  BY <1>1, WidgetFollows, PTL

\* A widget which was told everything shows what is stored, each reservation once.
THEOREM BoardMirrorsStorage == WidgetSpec => []BoardShowsStorage
<1>1. WidgetInv /\ FollowInv => BoardShowsStorage
  <2>. SUFFICES ASSUME WidgetInv, FollowInv, app = "running", changes = << >>, ~cleared
                PROVE  /\ {[id |-> r.id, revision |-> r.revision, parts |-> r.atoms] : r \in ToSet(reservations)}
                            = {[id |-> r.id, revision |-> r.revision, parts |-> r.parts] :
                                 r \in Loaded(storage, AllReservations)}
                       /\ Len(reservations) = Cardinality(Loaded(storage, AllReservations))
    BY DEF BoardShowsStorage
  <2>. DEFINE items == Loaded(storage, AllReservations)
  <2>1. Shown(reservations) = StoredIn(storage)
    <3>1. Leads(Shown(reservations), << >>, StoredIn(storage), ~overlapped)
      BY DEF FollowInv, BoardFollows
    <3>2. (~overlapped) \in BOOLEAN
      OBVIOUS
    <3>. QED
      BY <3>1, <3>2, LeadsNowhere
  <2>2. /\ Len(reservations) \in Nat /\ DOMAIN reservations = 1 .. Len(reservations)
        /\ storage \in Database /\ EachOnceOn(reservations)
    BY OnBoard DEF WidgetInv, GhostInv, ServerTypes, FollowInv
  <2>3. {[id |-> r.id, revision |-> r.revision, parts |-> r.atoms] : r \in ToSet(reservations)} = Shown(reservations)
    BY DEF Shown, Entry, ToSet
  <2>4. {[id |-> r.id, revision |-> r.revision, parts |-> r.parts] : r \in items} = StoredIn(storage)
    BY DEF StoredIn, EntriesOf, Entry
  <2>5. \A item, other \in items : item.id = other.id => item = other
    BY <2>2, StoredMeans DEF ItemAt
  <2>6. \A i \in DOMAIN reservations : \E item \in items : item.id = reservations[i].id
    <3>. SUFFICES ASSUME NEW i \in DOMAIN reservations PROVE \E item \in items : item.id = reservations[i].id
      OBVIOUS
    <3>. DEFINE e == Entry(reservations[i].id, reservations[i].revision, reservations[i].atoms)
    <3>1. e \in StoredIn(storage) /\ e.id = reservations[i].id
      BY <2>1 DEF Shown, Entry
    <3>2. PICK item \in items : e = Entry(item.id, item.revision, item.parts)
      BY <3>1 DEF StoredIn, EntriesOf
    <3>3. e.id = item.id
      BY <3>2 DEF Entry
    <3>. QED
      BY <3>1, <3>3
  <2>7. \A item \in items : \E i \in DOMAIN reservations : item.id = reservations[i].id
    <3>. SUFFICES ASSUME NEW item \in items PROVE \E i \in DOMAIN reservations : item.id = reservations[i].id
      OBVIOUS
    <3>. DEFINE e == Entry(item.id, item.revision, item.parts)
    <3>1. e \in Shown(reservations) /\ e.id = item.id
      BY <2>1 DEF StoredIn, EntriesOf, Entry
    <3>2. PICK i \in DOMAIN reservations : e = Entry(reservations[i].id, reservations[i].revision, reservations[i].atoms)
      BY <3>1 DEF Shown
    <3>3. e.id = reservations[i].id
      BY <3>2 DEF Entry
    <3>. QED
      BY <3>1, <3>3
  <2>. HIDE DEF items
  <2>. DEFINE f == [i \in 1 .. Len(reservations) |-> CHOOSE item \in items : item.id = reservations[i].id]
  <2>8. \A i \in 1 .. Len(reservations) : f[i] \in items /\ f[i].id = reservations[i].id
    BY <2>2, <2>6
  <2>9. f \in [1 .. Len(reservations) -> items]
    BY <2>8
  <2>. HIDE DEF f
  <2>10. \A i, j \in 1 .. Len(reservations) : f[i] = f[j] => i = j
    BY <2>2, <2>8 DEF EachOnceOn
  <2>11. \A item \in items : \E i \in 1 .. Len(reservations) : f[i] = item
    BY <2>2, <2>5, <2>7, <2>8
  <2>12. f \in Bijection(1 .. Len(reservations), items)
    BY <2>9, <2>10, <2>11 DEF Bijection, Injection, Surjection, IsInjective
  <2>13. Len(reservations) = Cardinality(items)
    BY <2>2, <2>12, FS_CountingElements DEF ExistsBijection
  <2>. QED
    BY <2>1, <2>3, <2>4, <2>13 DEF items
<1>. QED
  BY <1>1, WidgetFollows, PTL

-----------------------------------------------------------------------------
(* What the tools commit *)

\* What the scene shows, over the board, is what is stored, once the widget was told everything.
THEOREM SceneMirrorsStorage == WidgetSpec => []SceneShowsStorage
BY SceneFollowsBoard, BoardMirrorsStorage, PTL DEF SceneShowsStorage

\* Batches are executed from one database to the next.
LEMMA ExecutedAllRun ==
  ASSUME NEW db \in Database, NEW batches \in Seq(Seq(Operation))
  PROVE  \E after \in [0 .. Len(batches) -> Database] :
           /\ after[0] = db
           /\ \A n \in 1 .. Len(batches) : after[n] = Executed(after[n - 1], batches[n]).db
           /\ ExecutedAll(db, batches) = after[Len(batches)]
<1>. DEFINE m == Len(batches)
            After(n, d) == Executed(d, batches[n]).db
            step == [n \in 1 .. m |-> [d \in Database |-> After(n, d)]]
            Loop(f) == f = [n \in 0 .. m |-> IF n = 0 THEN db ELSE After(n, f[n - 1])]
            g == CHOOSE h : Loop(h)
<1>1. m \in Nat
  BY LenProperties
<1>2. step \in [1 .. m -> [Database -> Database]]
  <2>1. ASSUME NEW n \in 1 .. m, NEW d \in Database PROVE After(n, d) \in Database
    <3>1. batches[n] \in Seq(Operation)
      BY ElementOfSeq
    <3>. QED
      BY <3>1, ExecutedType
  <2>. HIDE DEF After
  <2>. QED
    BY <2>1
<1>3. ASSUME NEW n \in 1 .. m, NEW d \in Database PROVE step[n][d] = After(n, d)
  <2>. HIDE DEF After
  <2>. QED
    OBVIOUS
<1>. HIDE DEF After, m, step
<1>4. PICK f : Stepwise(f, Database, m, db, step)
  BY <1>1, <1>2, StepwiseFunction
<1>5. Loop(f)
  <2>1. \A n \in 0 .. m : f[n] = IF n = 0 THEN db ELSE After(n, f[n - 1])
    <3>1. ASSUME NEW n \in 1 .. m PROVE f[n] = After(n, f[n - 1])
      <4>1. f[n - 1] \in Database /\ f[n] = step[n][f[n - 1]]
        BY <1>1, <1>4 DEF Stepwise
      <4>. QED
        BY <1>3, <4>1
    <3>. QED
      BY <1>1, <1>4, <3>1 DEF Stepwise
  <2>. QED
    BY <1>4, <2>1 DEF Stepwise
<1>6. ExecutedAll(db, batches) = g[m]
  BY DEF ExecutedAll, After, m
<1>7. Loop(g)
  <2>. HIDE DEF Loop
  <2>. QED
    BY <1>5
<1>. HIDE DEF g
<1>8. Stepwise(g, Database, m, db, step)
  <2>1. g = [n \in 0 .. m |-> g[n]] /\ \A n \in 0 .. m : g[n] = IF n = 0 THEN db ELSE After(n, g[n - 1])
    BY <1>7
  <2>2. g[0] = db
    <3>1. 0 \in 0 .. m
      BY <1>1
    <3>. QED
      BY <2>1, <3>1
  <2>3. ASSUME NEW n \in 1 .. m, g[n - 1] \in Database PROVE g[n] = step[n][g[n - 1]]
    <3>1. n \in 0 .. m /\ n # 0
      BY <1>1
    <3>2. g[n] = After(n, g[n - 1])
      BY <2>1, <3>1
    <3>. QED
      BY <1>3, <2>3, <3>2
  <2>. QED
    BY <1>1, <1>2, <2>1, <2>2, <2>3, StepwiseFrom
<1>9. /\ g \in [0 .. m -> Database] /\ g[0] = db
      /\ \A n \in 1 .. m : g[n] = After(n, g[n - 1])
  <2>1. g \in [0 .. m -> Database] /\ g[0] = db /\ \A n \in 1 .. m : g[n - 1] \in Database /\ g[n] = step[n][g[n - 1]]
    BY <1>1, <1>8 DEF Stepwise
  <2>. QED
    BY <1>3, <2>1
<1>. QED
  BY <1>6, <1>9 DEF m, After

\* One batch, of one operation
LEMMA ExecutedOne ==
  ASSUME NEW db \in Database, NEW op \in Operation
  PROVE  Executed(db, <<op>>).db = Effect(db, op)
<1>. DEFINE batch == <<op>>
<1>1. batch \in Seq(Operation) /\ Len(batch) = 1 /\ batch[1] = op
  OBVIOUS
<1>. HIDE DEF batch
<1>2. PICK run \in [0 .. Len(batch) -> [db : Database, changes : Seq(Change)]] :
        /\ run[0] = [db |-> db, changes |-> << >>]
        /\ \A n \in 1 .. Len(batch) :
             run[n] = [db |-> Effect(run[n - 1].db, batch[n]),
                       changes |-> run[n - 1].changes \o ChangesFor(run[n - 1].db, batch[n], AllReservations)]
        /\ Executed(db, batch) = run[Len(batch)]
  BY <1>1, ExecutedRun
<1>3. 1 \in 1 .. Len(batch) /\ 1 - 1 = 0
  BY <1>1
<1>4. run[0].db = db /\ run[1].db = Effect(run[0].db, batch[1]) /\ Executed(db, batch) = run[1]
  BY <1>1, <1>2, <1>3
<1>. QED
  BY <1>1, <1>4 DEF batch

\* One batch is all of them.
LEMMA ExecutedAllOne ==
  ASSUME NEW db \in Database, NEW batch \in Seq(Operation)
  PROVE  ExecutedAll(db, <<batch>>) = Executed(db, batch).db
<1>. DEFINE batches == <<batch>>
<1>1. batches \in Seq(Seq(Operation)) /\ Len(batches) = 1 /\ batches[1] = batch
  OBVIOUS
<1>. HIDE DEF batches
<1>2. PICK after \in [0 .. Len(batches) -> Database] :
        /\ after[0] = db
        /\ \A n \in 1 .. Len(batches) : after[n] = Executed(after[n - 1], batches[n]).db
        /\ ExecutedAll(db, batches) = after[Len(batches)]
  BY <1>1, ExecutedAllRun
<1>3. 1 \in 1 .. Len(batches) /\ 1 - 1 = 0
  BY <1>1
<1>. QED
  BY <1>1, <1>2, <1>3 DEF batches

\* Where what is stored fits, no night is booked twice.
LEMMA FitsIsCalm ==
  ASSUME NEW db \in Database, Fits(StoredIn(db))
  PROVE  ~DoubleBooked(db)
<1>. DEFINE rows == db["Reservation"]
<1>1. SUFFICES ASSUME NEW i \in DOMAIN rows, NEW j \in DOMAIN rows, i # j
               PROVE  Nights(rows[i].parts) \cap Nights(rows[j].parts) = {}
  BY DEF DoubleBooked
<1>2. \A parts : parts = << >> => Nights(parts) = {}
  BY DEF Nights
<1>3. CASE rows[i].parts = << >> \/ rows[j].parts = << >>
  BY <1>2, <1>3
<1>4. CASE rows[i].parts # << >> /\ rows[j].parts # << >>
  <2>. DEFINE e == Entry(i, rows[i].revision, rows[i].parts)
              g == Entry(j, rows[j].revision, rows[j].parts)
  <2>1. e \in StoredIn(db) /\ g \in StoredIn(db)
    BY <1>4, StoredMeans
  <2>2. e # g /\ e.parts = rows[i].parts /\ g.parts = rows[j].parts
    BY <1>1 DEF Entry
  <2>. HIDE DEF e, g
  <2>3. Apart(e.parts, g.parts)
    BY <2>1, <2>2 DEF Fits
  <2>. QED
    BY <2>2, <2>3, ApartMeans
<1>. QED
  BY <1>3, <1>4

\* A valid reservation which has no night of those that fit fits in.
LEMMA OneMoreFits ==
  ASSUME NEW E, Fits(E), NEW e, IsValid(e.parts), \A g \in E : Apart(e.parts, g.parts)
  PROVE  Fits(E \cup {e})
<1>1. ASSUME NEW g \in E \cup {e} PROVE IsValid(g.parts)
  BY DEF Fits
<1>2. ASSUME NEW g \in E \cup {e}, NEW h \in E \cup {e} PROVE g = h \/ Apart(g.parts, h.parts)
  BY ApartSymmetric DEF Fits
<1>. QED
  BY <1>1, <1>2 DEF Fits

\* Storing a drawn reservation
LEMMA DrawnIsStored ==
  ASSUME NEW db \in Database, Fits(StoredIn(db)),
         NEW atoms \in Seq(Atom), IsValid(atoms), \A e \in StoredIn(db) : Apart(atoms, e.parts),
         NEW after, after = Executed(db, <<[op |-> "StoreNew", item |-> NewItem(atoms)]>>).db
  PROVE  /\ Fits(StoredIn(after))
         /\ \A e \in StoredIn(after) : e \in StoredIn(db) \/ e.parts = atoms
<1>. DEFINE op == [op |-> "StoreNew", item |-> NewItem(atoms)]
<1>1. op \in Operation
  BY NewItemType
<1>2. op.op = "StoreNew" /\ op.item.type = "Reservation" /\ op.item.parts = atoms
  BY DEF NewItem
<1>. HIDE DEF op
<1>3. after = Effect(db, op)
  BY <1>1, ExecutedOne DEF op
<1>4. PICK item : /\ item.parts = atoms
                  /\ StoredIn(after) = StoredIn(db) \cup EntriesOf({item})
  BY <1>1, <1>2, <1>3, StoringReservation DEF IsSound
<1>. DEFINE new == Entry(item.id, item.revision, item.parts)
<1>5. EntriesOf({item}) = {new} /\ new.parts = atoms
  BY <1>4 DEF EntriesOf, Entry
<1>6. StoredIn(after) = StoredIn(db) \cup {new}
  BY <1>4, <1>5
<1>. HIDE DEF new
<1>7. Fits(StoredIn(db) \cup {new})
  BY <1>5, OneMoreFits
<1>. QED
  BY <1>5, <1>6, <1>7

\* Drawn reservations which fit together and into what is stored fit when they are stored.
LEMMA DrawnFit ==
  ASSUME NEW db \in Database, Fits(StoredIn(db)), NEW drawn \in Seq(Seq(Atom)),
         \A i \in DOMAIN drawn : IsValid(drawn[i]) /\ \A e \in StoredIn(db) : Apart(drawn[i], e.parts),
         \A i, j \in DOMAIN drawn : j < i => Apart(drawn[i], drawn[j]),
         NEW batches \in Seq(Seq(Operation)),
         batches = [i \in DOMAIN drawn |-> <<[op |-> "StoreNew", item |-> NewItem(drawn[i])]>>]
  PROVE  ~DoubleBooked(ExecutedAll(db, batches))
<1>. DEFINE batch(i) == <<[op |-> "StoreNew", item |-> NewItem(drawn[i])]>>
            m == Len(batches)
<1>1. /\ m \in Nat /\ DOMAIN drawn = 1 .. m
      /\ \A n \in 1 .. m : drawn[n] \in Seq(Atom) /\ batches[n] = batch(n)
  <2>1. DOMAIN batches = DOMAIN drawn /\ \A n \in DOMAIN drawn : batches[n] = batch(n)
    <3>. HIDE DEF batch
    <3>1. batches = [i \in DOMAIN drawn |-> batch(i)]
      BY DEF batch
    <3>. QED
      BY <3>1
  <2>2. DOMAIN batches = 1 .. m /\ m \in Nat /\ DOMAIN drawn = 1 .. Len(drawn)
    BY LenProperties
  <2>3. \A n \in 1 .. Len(drawn) : drawn[n] \in Seq(Atom)
    BY ElementOfSeq
  <2>. HIDE DEF m, batch
  <2>. QED
    BY <2>1, <2>2, <2>3
<1>2. PICK after \in [0 .. m -> Database] :
        /\ after[0] = db
        /\ \A n \in 1 .. m : after[n] = Executed(after[n - 1], batches[n]).db
        /\ ExecutedAll(db, batches) = after[m]
  BY ExecutedAllRun
<1>. HIDE DEF m
<1>. DEFINE FitAfter(n) == /\ Fits(StoredIn(after[n]))
                           /\ \A e \in StoredIn(after[n]) : \A i \in 1 .. m : i > n => Apart(drawn[i], e.parts)
            N == {n \in Nat : n <= m => FitAfter(n)}
<1>3. FitAfter(0)
  BY <1>1, <1>2
<1>4. ASSUME NEW n \in 1 .. m, FitAfter(n - 1) PROVE FitAfter(n)
  <2>1. n - 1 \in 0 .. m /\ n > n - 1 /\ after[n - 1] \in Database
    BY <1>1
  <2>2. /\ drawn[n] \in Seq(Atom) /\ IsValid(drawn[n])
        /\ \A e \in StoredIn(after[n - 1]) : Apart(drawn[n], e.parts)
        /\ Fits(StoredIn(after[n - 1]))
    BY <1>1, <1>4, <2>1
  <2>3. after[n] = Executed(after[n - 1], batch(n)).db
    BY <1>1, <1>2
  <2>4. /\ Fits(StoredIn(after[n]))
        /\ \A e \in StoredIn(after[n]) : e \in StoredIn(after[n - 1]) \/ e.parts = drawn[n]
    BY <2>1, <2>2, <2>3, DrawnIsStored
  <2>5. ASSUME NEW e \in StoredIn(after[n]), NEW i \in 1 .. m, i > n PROVE Apart(drawn[i], e.parts)
    <3>1. CASE e \in StoredIn(after[n - 1])
      <4>1. i > n - 1
        BY <1>1, <2>5
      <4>. QED
        BY <1>4, <3>1, <4>1
    <3>2. CASE e.parts = drawn[n]
      BY <1>1, <2>5, <3>2
    <3>. QED
      BY <2>4, <3>1, <3>2
  <2>. QED
    BY <2>4, <2>5
<1>. HIDE DEF FitAfter
<1>5. \A n \in Nat : n \in N
  <2>1. 0 \in N
    BY <1>3
  <2>2. ASSUME NEW n \in Nat, n \in N PROVE n + 1 \in N
    <3>. SUFFICES ASSUME n + 1 <= m PROVE FitAfter(n + 1)
      OBVIOUS
    <3>1. n + 1 \in 1 .. m /\ (n + 1) - 1 = n /\ FitAfter(n)
      BY <1>1, <2>2
    <3>. QED
      BY <1>4, <3>1
  <2>. HIDE DEF N
  <2>. QED
    BY <2>1, <2>2, SetInduction
<1>6. FitAfter(m) /\ after[m] \in Database
  BY <1>1, <1>5
<1>. QED
  BY <1>2, <1>6, FitsIsCalm DEF FitAfter

\* Deletions take nights back only.
LEMMA DeletionsFit ==
  ASSUME NEW db \in Database, Fits(StoredIn(db)),
         NEW batch \in Seq(Operation), \A n \in DOMAIN batch : batch[n].op = "Delete"
  PROVE  ~DoubleBooked(Executed(db, batch).db)
<1>. DEFINE m == Len(batch)
<1>1. PICK run \in [0 .. m -> [db : Database, changes : Seq(Change)]] :
        /\ run[0] = [db |-> db, changes |-> << >>]
        /\ \A n \in 1 .. m : run[n] = [db |-> Effect(run[n - 1].db, batch[n]),
                                       changes |-> run[n - 1].changes \o ChangesFor(run[n - 1].db, batch[n], AllReservations)]
        /\ Executed(db, batch) = run[m]
  BY ExecutedRun
<1>2. m \in Nat /\ DOMAIN batch = 1 .. m /\ \A n \in 1 .. m : batch[n] \in Operation
  BY LenProperties, ElementOfSeq
<1>. HIDE DEF m
<1>3. run[0].db = db /\ \A n \in 1 .. m : run[n].db = Effect(run[n - 1].db, batch[n])
  <2>1. run[0].db = db
    BY <1>1
  <2>2. ASSUME NEW n \in 1 .. m PROVE run[n].db = Effect(run[n - 1].db, batch[n])
    <3>. DEFINE before == run[n - 1]
    <3>1. run[n] = [db |-> Effect(before.db, batch[n]),
                    changes |-> before.changes \o ChangesFor(before.db, batch[n], AllReservations)]
      BY <1>1
    <3>. HIDE DEF before
    <3>2. run[n].db = Effect(before.db, batch[n])
      BY <3>1
    <3>. QED
      BY <3>2 DEF before
  <2>. QED
    BY <2>1, <2>2
<1>4. \A n \in 0 .. m : run[n].db \in Database
  OBVIOUS
<1>. DEFINE Fit(n) == Fits(StoredIn(run[n].db))
            N == {n \in Nat : n <= m => Fit(n)}
<1>5. Fit(0)
  BY <1>3
<1>6. ASSUME NEW n \in 1 .. m, Fit(n - 1) PROVE Fit(n)
  <2>1. n - 1 \in 0 .. m /\ run[n - 1].db \in Database /\ batch[n] \in Operation /\ batch[n].op = "Delete"
    <3>1. n - 1 \in 0 .. m /\ n \in DOMAIN batch
      BY <1>2
    <3>. QED
      BY <1>2, <1>4, <3>1
  <2>2. StoredIn(run[n].db) \subseteq StoredIn(run[n - 1].db)
    <3>. DEFINE before == run[n - 1].db
                op == batch[n]
    <3>1. run[n].db = Effect(before, op) /\ before \in Database /\ op \in Operation /\ op.op = "Delete"
      BY <1>3, <2>1
    <3>. HIDE DEF before, op
    <3>2. StoredIn(Effect(before, op)) \subseteq StoredIn(before)
      BY <3>1, DeletingReservation
    <3>. QED
      BY <3>1, <3>2 DEF before
  <2>. QED
    BY <1>6, <2>2, SomeFit
<1>. HIDE DEF Fit
<1>7. \A n \in Nat : n \in N
  <2>1. 0 \in N
    BY <1>5
  <2>2. ASSUME NEW n \in Nat, n \in N PROVE n + 1 \in N
    <3>. SUFFICES ASSUME n + 1 <= m PROVE Fit(n + 1)
      OBVIOUS
    <3>1. n + 1 \in 1 .. m /\ (n + 1) - 1 = n /\ Fit(n)
      BY <1>2, <2>2
    <3>. QED
      BY <1>6, <3>1
  <2>. HIDE DEF N
  <2>. QED
    BY <2>1, <2>2, SetInduction
<1>8. Fit(m) /\ run[m].db \in Database
  BY <1>2, <1>4, <1>7
<1>. QED
  BY <1>1, <1>8, FitsIsCalm DEF Fit

\* An update fits if it is apart from all others, or fails.
LEMMA UpdateFits ==
  ASSUME NEW db \in Database, Fits(StoredIn(db)), NEW op \in Operation, op.op = "Update", IsSound(op),
         \A e \in StoredIn(db) : e.id = op.item.id \/ Apart(op.item.parts, e.parts)
  PROVE  ~DoubleBooked(Executed(db, <<op>>).db)
<1>1. Executed(db, <<op>>).db = Effect(db, op) /\ Effect(db, op) \in Database
  BY ExecutedOne, EffectType
<1>2. CASE ~Succeeds(db, op)
  <2>1. Effect(db, op) = db
    BY <1>2 DEF Effect
  <2>. QED
    BY <1>1, <2>1, FitsIsCalm
<1>3. CASE Succeeds(db, op)
  <2>1. PICK item : /\ item.id = op.item.id /\ item.parts = op.item.parts /\ IsValid(item.parts)
                    /\ StoredIn(Effect(db, op)) = {e \in StoredIn(db) : e.id # item.id} \cup EntriesOf({item})
    BY <1>3, UpdatingReservation
  <2>. DEFINE new == Entry(item.id, item.revision, item.parts)
              rest == {e \in StoredIn(db) : e.id # item.id}
  <2>2. EntriesOf({item}) = {new} /\ new.parts = op.item.parts
    BY <2>1 DEF EntriesOf, Entry
  <2>3. Fits(rest) /\ \A g \in rest : Apart(new.parts, g.parts)
    BY <2>1, <2>2, SomeFit
  <2>4. StoredIn(Effect(db, op)) = rest \cup {new} /\ IsValid(new.parts)
    BY <2>1, <2>2
  <2>. HIDE DEF new, rest
  <2>5. Fits(StoredIn(Effect(db, op)))
    BY <2>3, <2>4, OneMoreFits
  <2>. QED
    BY <1>1, <2>5, FitsIsCalm
<1>. QED
  BY <1>2, <1>3

\* What a board shows fits.
LEMMA ShownFits ==
  ASSUME NEW board, NEW rows, IsBoard(board, rows)
  PROVE  Fits(Shown(board))
<1>1. ASSUME NEW e \in Shown(board)
      PROVE  \E i \in DOMAIN board : e = Entry(board[i].id, board[i].revision, board[i].atoms) /\ e.parts = board[i].atoms
  BY DEF Shown, Entry
<1>2. \A e \in Shown(board) : IsValid(e.parts)
  BY <1>1 DEF IsBoard
<1>3. ASSUME NEW e \in Shown(board), NEW g \in Shown(board) PROVE e = g \/ Apart(e.parts, g.parts)
  <2>1. PICK i \in DOMAIN board : e = Entry(board[i].id, board[i].revision, board[i].atoms) /\ e.parts = board[i].atoms
    BY <1>1
  <2>2. PICK j \in DOMAIN board : g = Entry(board[j].id, board[j].revision, board[j].atoms) /\ g.parts = board[j].atoms
    BY <1>1
  <2>3. CASE i = j
    BY <2>1, <2>2, <2>3
  <2>4. CASE i # j
    <3>1. Nights(board[i].atoms) \cap Nights(board[j].atoms) = {}
      BY <2>4, NightsApart
    <3>. QED
      BY <2>1, <2>2, <3>1, ApartMeans
  <2>. QED
    BY <2>3, <2>4
<1>. QED
  BY <1>2, <1>3 DEF Fits

\* Where the widget was told everything the board shows what is stored.
LEMMA BoardIsStorage ==
  ASSUME GhostInv, FollowInv, app = "running", changes = << >>, ~cleared
  PROVE  /\ StoredIn(storage) = Shown(reservations) /\ Fits(StoredIn(storage))
         /\ \A e \in StoredIn(storage) : \E j \in DOMAIN reservations :
              /\ e.id = reservations[j].id /\ e.revision = reservations[j].revision
              /\ e.parts = reservations[j].atoms
<1>1. Leads(Shown(reservations), << >>, StoredIn(storage), ~overlapped)
  BY DEF FollowInv, BoardFollows
<1>2. (~overlapped) \in BOOLEAN
  OBVIOUS
<1>3. StoredIn(storage) = Shown(reservations)
  BY <1>1, <1>2, LeadsNowhere
<1>4. Fits(Shown(reservations))
  BY ShownFits DEF GhostInv
<1>. QED
  BY <1>3, <1>4 DEF Shown, Entry

\* All that the tools commit at one time, while the widget is up to date, fits into what is stored.
LEMMA CommitsStep ==
  ASSUME WidgetInv, FollowInv, WidgetNext, Followed,
         requests = << >>, changes = << >>, Len(requests') > Len(requests)
  PROVE  /\ ~DoubleBooked(ExecutedAll(storage, requests'))
         /\ \A i \in DOMAIN requests' : \A n \in DOMAIN requests'[i] :
              requests'[i][n].op = "Update" =>
                LET item == requests'[i][n].item
                IN  /\ IsValid(item.parts)
                    /\ DateRange(item.parts) = DateRange(storage["Reservation"][item.id].parts)
<1>1. /\ GhostInv /\ ServerTypes /\ storage \in Database /\ Len(requests) = 0
      /\ draft \in Seq(Atom) /\ ghosts \in Seq(Seq(Atom)) /\ NightsFree /\ DrawnValid
  BY EmptySeq DEF WidgetInv, GhostInv, GhostTypes, ServerTypes, FollowInv
<1>2. /\ StoredIn(storage) = Shown(reservations) /\ Fits(StoredIn(storage))
      /\ \A e \in StoredIn(storage) : \E j \in DOMAIN reservations :
           /\ e.id = reservations[j].id /\ e.revision = reservations[j].revision
           /\ e.parts = reservations[j].atoms
  BY <1>1, BoardIsStorage DEF Followed
<1>3. requests' # requests /\ requests' # << >>
  BY <1>1
<1>4. UserEvents
  <2>1. ~Backend
    BY <1>3 DEF Backend, ExecuteRequest, ExecuteOther, requestVars
  <2>2. ~MainThread
    BY DEF MainThread, ReservationsAdded, ReservationsUpdated, ReservationsRemoved, AllReservationsRemoved, Told
  <2>3. ~Stopped
    BY DEF Stopped
  <2>. QED
    BY <2>1, <2>2, <2>3 DEF WidgetNext
<1>5. requests' \in Seq(Seq(Operation))
  BY <1>1, <1>4, RequestTypes
<1>6. ASSUME NEW S, NEW queued \in Seq(S), QueueOperations(queued) PROVE requests' = queued
  <2>1. requests' = << >> \o queued
    BY <1>6 DEF QueueOperations
  <2>. QED
    BY <2>1, ConcatEmptySeq
<1>7. EnterDescription \/ ReleaseAtom \/ PressDelete
  BY <1>3, <1>4
     DEF UserEvents, PressItem, PressAtom, PressElsewhere, PressRoom, UseTool, User, ActivateTool, PressMouse,
         ShiftDragMouse, DragMouse, ReleaseMouse, PressEscape, PressBackspace, PressReturn, CancelDescription,
         DragAtom, ghostVars, requestVars
<1>8. CASE EnterDescription
  <2>. DEFINE batch(i) == <<[op |-> "StoreNew", item |-> NewItem(ghosts[i])]>>
              queued == [i \in DOMAIN ghosts |-> batch(i)]
              S == {batch(i) : i \in DOMAIN ghosts}
  <2>1. queued \in Seq(S)
    <3>1. Len(ghosts) \in Nat /\ DOMAIN ghosts = 1 .. Len(ghosts)
      BY <1>1, LenProperties
    <3>2. queued \in [1 .. Len(ghosts) -> S]
      <4>. HIDE DEF batch
      <4>. QED
        BY <3>1
    <3>. HIDE DEF queued, S
    <3>. QED
      BY <3>1, <3>2, SeqDef
  <2>2. requests' = queued
    <3>1. QueueOperations(queued)
      BY <1>8 DEF EnterDescription
    <3>. HIDE DEF queued, S
    <3>. QED
      BY <1>6, <2>1, <3>1
  <2>3. \A i \in DOMAIN ghosts : IsValid(ghosts[i]) /\ \A e \in StoredIn(storage) : Apart(ghosts[i], e.parts)
    BY <1>1, <1>2 DEF DrawnValid, NightsFree
  <2>4. \A i, j \in DOMAIN ghosts : j < i => Apart(ghosts[i], ghosts[j])
    BY <1>1 DEF NightsFree
  <2>5. ~DoubleBooked(ExecutedAll(storage, requests'))
    BY <1>1, <1>2, <1>5, <2>2, <2>3, <2>4, DrawnFit
  <2>6. \A i \in DOMAIN requests' : \A n \in DOMAIN requests'[i] : requests'[i][n].op # "Update"
    <3>1. ASSUME NEW i \in DOMAIN ghosts PROVE \A n \in DOMAIN batch(i) : batch(i)[n].op # "Update"
      OBVIOUS
    <3>2. DOMAIN requests' = DOMAIN ghosts /\ \A i \in DOMAIN ghosts : requests'[i] = batch(i)
      <4>. HIDE DEF batch
      <4>. QED
        BY <2>2
    <3>. HIDE DEF batch
    <3>. QED
      BY <3>1, <3>2
  <2>. QED
    BY <2>5, <2>6
<1>9. CASE ReleaseAtom
  <2>. DEFINE item == [type |-> "Reservation", id |-> moving.id, revision |-> moving.revision,
                       fields |-> Columns, parts |-> Joined(draft)]
              op == [op |-> "Update", item |-> item]
              batch == <<op>>
  <2>1. moving # NotMoving
    BY <1>9 DEF ReleaseAtom, ReservationInHand
  <2>2. PICK j \in DOMAIN reservations :
          IsHeld(reservations[j]) /\ DateRange(reservations[j].atoms) = DateRange(Joined(draft))
    BY <1>1, <2>1, MovedValid
  <2>3. IsValid(draft) /\ IsValid(Joined(draft)) /\ Nights(Joined(draft)) = Nights(draft)
    BY <1>1, <2>1, MovedValid, JoinedNights
  <2>4. requests' = <<batch>>
    <3>1. QueueOperations(<<batch>>)
      BY <1>9 DEF ReleaseAtom
    <3>. HIDE DEF batch
    <3>2. <<batch>> \in Seq({batch})
      OBVIOUS
    <3>. QED
      BY <1>6, <3>1, <3>2
  <2>5. op.op = "Update" /\ op.item.type = "Reservation" /\ op.item.id = moving.id /\ op.item.parts = Joined(draft)
    OBVIOUS
  <2>. HIDE DEF item, op
  <2>6. /\ op \in Operation /\ batch \in Seq(Operation)
        /\ DOMAIN requests' = {1} /\ requests'[1] = batch
        /\ DOMAIN batch = {1} /\ batch[1] = op
    <3>1. DOMAIN batch = {1} /\ batch[1] = op /\ 1 \in DOMAIN batch /\ Len(batch) = 1
      OBVIOUS
    <3>2. DOMAIN requests' = {1} /\ requests'[1] = batch /\ Len(requests') = 1 /\ 1 \in 1 .. Len(requests')
      BY <2>4
    <3>3. requests'[1] \in Seq(Operation)
      BY <1>5, <3>2, ElementOfSeq
    <3>4. batch \in Seq(Operation)
      BY <3>2, <3>3
    <3>5. batch[1] \in Operation
      <4>1. 1 \in 1 .. Len(batch)
        BY <3>1
      <4>. HIDE DEF batch
      <4>. QED
        BY <3>4, <4>1, ElementOfSeq
    <3>. QED
      BY <3>1, <3>2, <3>4, <3>5
  <2>7. ASSUME NEW e \in StoredIn(storage) PROVE e.id = op.item.id \/ Apart(op.item.parts, e.parts)
    <3>1. PICK k \in DOMAIN reservations : e.id = reservations[k].id /\ e.parts = reservations[k].atoms
      BY <1>2
    <3>2. CASE IsHeld(reservations[k])
      BY <2>5, <3>1, <3>2 DEF IsHeld
    <3>3. CASE Apart(draft, reservations[k].atoms)
      BY <2>3, <2>5, <3>1, <3>3, ApartMeans
    <3>. QED
      BY <1>1, <3>2, <3>3 DEF NightsFree
  <2>8. ~DoubleBooked(ExecutedAll(storage, requests'))
    <3>1. IsSound(op)
      BY <2>3, <2>5 DEF IsSound
    <3>2. ~DoubleBooked(Executed(storage, batch).db)
      BY <1>1, <1>2, <2>5, <2>6, <2>7, <3>1, UpdateFits
    <3>. HIDE DEF batch
    <3>. QED
      BY <1>1, <2>4, <2>6, <3>2, ExecutedAllOne
  <2>9. storage["Reservation"][op.item.id].parts = reservations[j].atoms
    <3>1. Entry(reservations[j].id, reservations[j].revision, reservations[j].atoms) \in StoredIn(storage)
      BY <1>2 DEF Shown
    <3>2. PICK i \in DOMAIN storage["Reservation"] :
            Entry(reservations[j].id, reservations[j].revision, reservations[j].atoms)
              = Entry(i, storage["Reservation"][i].revision, storage["Reservation"][i].parts)
      BY <1>1, <3>1, StoredMeans
    <3>3. reservations[j].id = i /\ reservations[j].atoms = storage["Reservation"][i].parts
      BY <3>2 DEF Entry
    <3>. QED
      BY <2>2, <2>5, <3>3 DEF IsHeld
  <2>10. ASSUME NEW i \in DOMAIN requests', NEW n \in DOMAIN requests'[i]
         PROVE  LET of == requests'[i][n].item
                IN  /\ IsValid(of.parts)
                    /\ DateRange(of.parts) = DateRange(storage["Reservation"][of.id].parts)
    <3>1. requests'[i][n] = op
      BY <2>6
    <3>. QED
      BY <2>2, <2>3, <2>5, <2>9, <3>1
  <2>. QED
    BY <2>8, <2>10
<1>10. CASE PressDelete
  <2>. DEFINE batch == [i \in 1 .. Cardinality(SelectedIds) |->
                          [op |-> "Delete", type |-> "Reservation", id |-> SetToSeq(SelectedIds)[i]]]
  <2>1. \A n \in DOMAIN batch : batch[n].op = "Delete"
    OBVIOUS
  <2>2. QueueOperations(<<batch>>)
    BY <1>10 DEF PressDelete
  <2>. HIDE DEF batch
  <2>3. requests' = <<batch>>
    <3>1. <<batch>> \in Seq({batch})
      OBVIOUS
    <3>. QED
      BY <1>6, <2>2, <3>1
  <2>4. DOMAIN requests' = {1} /\ requests'[1] = batch /\ batch \in Seq(Operation)
    <3>1. DOMAIN requests' = {1} /\ requests'[1] = batch /\ Len(requests') = 1 /\ 1 \in 1 .. Len(requests')
      BY <2>3
    <3>2. requests'[1] \in Seq(Operation)
      BY <1>5, <3>1, ElementOfSeq
    <3>. QED
      BY <3>1, <3>2
  <2>5. ~DoubleBooked(ExecutedAll(storage, requests'))
    <3>1. ~DoubleBooked(Executed(storage, batch).db)
      BY <1>1, <1>2, <2>1, <2>4, DeletionsFit
    <3>. QED
      BY <1>1, <2>3, <2>4, <3>1, ExecutedAllOne
  <2>6. \A i \in DOMAIN requests' : \A n \in DOMAIN requests'[i] : requests'[i][n].op # "Update"
    BY <2>1, <2>4
  <2>. QED
    BY <2>5, <2>6
<1>. QED
  BY <1>7, <1>8, <1>9, <1>10

\* What the tools commit while the widget is up to date, several drawn reservations or a moved one,
\* books no night twice once it is executed, and a move keeps the dates of the stay.
THEOREM CommitsAlwaysFit == WidgetSpec => CommitsFit
<1>. DEFINE Commits == /\ requests = << >> /\ changes = << >> /\ ~cleared /\ ~DoubleBooked(storage)
                       /\ Len(requests') > Len(requests)
            Fit == /\ ~DoubleBooked(ExecutedAll(storage, requests'))
                   /\ \A i \in DOMAIN requests' : \A n \in DOMAIN requests'[i] :
                        requests'[i][n].op = "Update" =>
                          LET item == requests'[i][n].item
                          IN  /\ IsValid(item.parts)
                              /\ DateRange(item.parts) = DateRange(storage["Reservation"][item.id].parts)
<1>1. WidgetInv /\ FollowInv /\ [WidgetNext]_widgetVars => [Commits => Fit]_widgetVars
  <2>. SUFFICES ASSUME WidgetInv, FollowInv, WidgetNext, widgetVars' # widgetVars, Commits PROVE Fit
    OBVIOUS
  <2>1. Followed
    BY DEF WidgetNext, Stopped
  <2>. QED
    BY <2>1, CommitsStep
<1>2. CommitsFit <=> [][Commits => Fit]_widgetVars
  BY DEF CommitsFit
<1>. QED
  BY <1>1, <1>2, WidgetFollows, PTL DEF WidgetSpec
=============================================================================
