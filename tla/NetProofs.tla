------------------------------- MODULE NetProofs -------------------------------
(***************************************************************************)
(* Theorems about Net: every variable has its type, no message waits       *)
(* without a write pending, and the results a client has of a batch are    *)
(* those of its one execution.                                             *)
(*                                                                         *)
(* The last follows a batch from the client's queues to the storage:       *)
(* the messages on the way from a client form one list, of which a step    *)
(* moves the joints and takes off an end, but in which it changes no       *)
(* places.                                                                 *)
(***************************************************************************)
EXTENDS Net, BackendOperationsProofs

-----------------------------------------------------------------------------
(* Sequences *)

\* An element put at the end of a sequence.
LEMMA Appended ==
  ASSUME NEW S, NEW seq \in Seq(S), NEW e \in S
  PROVE  /\ Append(seq, e) \in Seq(S)
         /\ Len(Append(seq, e)) = Len(seq) + 1
         /\ DOMAIN Append(seq, e) = DOMAIN seq \cup {Len(seq) + 1}
         /\ \A i \in 1 .. Len(seq) : Append(seq, e)[i] = seq[i]
         /\ Append(seq, e)[Len(seq) + 1] = e
         /\ Append(seq, e) # << >>
<1>1. Len(seq) \in Nat /\ DOMAIN seq = 1 .. Len(seq)
  BY LenProperties
<1>2. /\ Append(seq, e) \in Seq(S)
      /\ Len(Append(seq, e)) = Len(seq) + 1
      /\ \A i \in 1 .. Len(seq) : Append(seq, e)[i] = seq[i]
      /\ Append(seq, e)[Len(seq) + 1] = e
  BY AppendProperties
<1>3. DOMAIN Append(seq, e) = 1 .. Len(seq) + 1
  BY <1>2, LenProperties
<1>4. Append(seq, e) # << >>
  BY <1>1, <1>2, EmptySeq
<1>. QED
  BY <1>1, <1>2, <1>3, <1>4

-----------------------------------------------------------------------------
(* The elements of a sequence which belong to a set *)

\* Those elements of the first n of a sequence.
IsKept(seq, T, S, kept) ==
  /\ kept \in [0 .. Len(seq) -> Seq(T \cap S)]
  /\ kept[0] = << >>
  /\ \A n \in 1 .. Len(seq) :
       kept[n] = IF seq[n] \in S THEN Append(kept[n - 1], seq[n]) ELSE kept[n - 1]
  /\ Those(seq, S) = kept[Len(seq)]

Kept(seq, S, kept) ==
  kept = [n \in 0 .. Len(seq) |->
            IF n = 0 THEN << >> ELSE IF seq[n] \in S THEN Append(kept[n - 1], seq[n]) ELSE kept[n - 1]]

\* The recursive definition of Those defines a function.
LEMMA ThoseDefined ==
  ASSUME NEW T, NEW seq \in Seq(T), NEW S
  PROVE  \E kept : IsKept(seq, T, S, kept)
<1>. DEFINE D == Seq(T \cap S)
            step == [n \in 1 .. Len(seq) |-> [k \in D |-> IF seq[n] \in S THEN Append(k, seq[n]) ELSE k]]
<1>1. Len(seq) \in Nat /\ DOMAIN seq = 1 .. Len(seq) /\ \A n \in 1 .. Len(seq) : seq[n] \in T
  BY LenProperties, ElementOfSeq
<1>2. << >> \in D
  BY EmptySeq
<1>3. step \in [1 .. Len(seq) -> [D -> D]]
  <2>1. ASSUME NEW n \in 1 .. Len(seq), NEW k \in D
        PROVE  (IF seq[n] \in S THEN Append(k, seq[n]) ELSE k) \in D
    <3>1. CASE seq[n] \in S
      <4>1. seq[n] \in T \cap S
        BY <1>1, <3>1
      <4>. QED
        BY <3>1, <4>1, AppendProperties
    <3>2. CASE seq[n] \notin S
      BY <3>2
    <3>. QED
      BY <3>1, <3>2
  <2>. HIDE DEF D
  <2>. QED
    BY <2>1
<1>4. PICK f \in [0 .. Len(seq) -> D] :
         /\ f[0] = << >>
         /\ \A n \in 1 .. Len(seq) : f[n] = step[n][f[n - 1]]
  <2>. HIDE DEF step, D
  <2>1. \E f : Stepwise(f, D, Len(seq), << >>, step)
    BY <1>1, <1>2, <1>3, StepwiseFunction
  <2>. QED
    BY <2>1 DEF Stepwise
<1>5. ASSUME NEW n \in 1 .. Len(seq)
      PROVE  f[n] = IF seq[n] \in S THEN Append(f[n - 1], seq[n]) ELSE f[n - 1]
  <2>1. f[n - 1] \in D
    <3>. HIDE DEF D
    <3>. QED
      BY <1>1
  <2>2. f[n] = step[n][f[n - 1]]
    BY <1>4
  <2>. HIDE DEF D
  <2>. QED
    BY <2>1, <2>2
<1>6. Kept(seq, S, f)
  <2>. HIDE DEF D, step
  <2>1. f = [n \in 0 .. Len(seq) |-> f[n]]
    OBVIOUS
  <2>2. ASSUME NEW n \in 0 .. Len(seq)
        PROVE  f[n] = IF n = 0 THEN << >> ELSE IF seq[n] \in S THEN Append(f[n - 1], seq[n]) ELSE f[n - 1]
    <3>1. CASE n = 0
      BY <1>4, <3>1
    <3>2. CASE n # 0
      <4>1. n \in 1 .. Len(seq)
        BY <1>1, <3>2
      <4>. QED
        BY <1>5, <3>2, <4>1
    <3>. QED
      BY <3>1, <3>2
  <2>. QED
    BY <2>1, <2>2 DEF Kept
<1>. DEFINE kept == CHOOSE k : Kept(seq, S, k)
<1>7. Those(seq, S) = kept[Len(seq)]
  BY DEF Those, Kept
<1>8. Kept(seq, S, kept)
  BY <1>6
<1>. HIDE DEF kept
<1>9. /\ kept = [n \in 0 .. Len(seq) |-> kept[n]]
      /\ kept[0] = << >>
      /\ \A n \in 1 .. Len(seq) :
           kept[n] = IF seq[n] \in S THEN Append(kept[n - 1], seq[n]) ELSE kept[n - 1]
  <2>1. kept = [n \in 0 .. Len(seq) |->
                  IF n = 0 THEN << >>
                  ELSE IF seq[n] \in S THEN Append(kept[n - 1], seq[n]) ELSE kept[n - 1]]
    BY <1>8 DEF Kept
  <2>2. ASSUME NEW n \in 0 .. Len(seq)
        PROVE  kept[n] = IF n = 0 THEN << >>
                         ELSE IF seq[n] \in S THEN Append(kept[n - 1], seq[n]) ELSE kept[n - 1]
    BY <2>1
  <2>3. kept = [n \in 0 .. Len(seq) |-> kept[n]]
    BY <2>1
  <2>4. ASSUME NEW n \in 1 .. Len(seq)
        PROVE  kept[n] = IF seq[n] \in S THEN Append(kept[n - 1], seq[n]) ELSE kept[n - 1]
    <3>1. n \in 0 .. Len(seq) /\ n # 0
      BY <1>1
    <3>. QED
      BY <2>2, <3>1
  <2>5. kept[0] = << >>
    <3>1. 0 \in 0 .. Len(seq)
      BY <1>1
    <3>. QED
      BY <2>2, <3>1
  <2>. QED
    BY <2>3, <2>4, <2>5
<1>10. kept = f
  <2>. DEFINE N == {n \in Nat : n <= Len(seq) => kept[n] = f[n]}
  <2>1. 0 \in N
    BY <1>4, <1>9
  <2>2. ASSUME NEW n \in Nat, n \in N PROVE n + 1 \in N
    <3>. SUFFICES ASSUME n + 1 <= Len(seq) PROVE kept[n + 1] = f[n + 1]
      OBVIOUS
    <3>1. n + 1 \in 1 .. Len(seq) /\ (n + 1) - 1 = n /\ kept[n] = f[n]
      BY <1>1, <2>2
    <3>. QED
      BY <1>5, <1>9, <3>1
  <2>3. \A n \in Nat : n \in N
    <3>. HIDE DEF N
    <3>. QED
      BY <2>1, <2>2, SetInduction
  <2>4. \A n \in 0 .. Len(seq) : kept[n] = f[n]
    BY <1>1, <2>3
  <2>. HIDE DEF D, step
  <2>. QED
    BY <1>9, <2>4
<1>. QED
  BY <1>4, <1>5, <1>7, <1>10 DEF IsKept

\* What is kept of a sequence is in the set.
LEMMA ThoseType ==
  ASSUME NEW T, NEW seq \in Seq(T), NEW S
  PROVE  Those(seq, S) \in Seq(T \cap S) /\ Those(seq, S) \in Seq(T)
<1>1. PICK kept : IsKept(seq, T, S, kept)
  BY ThoseDefined
<1>2. Those(seq, S) \in Seq(T \cap S)
  BY <1>1, LenProperties DEF IsKept
<1>. QED
  BY <1>2, SeqMonotonic

\* The lists in a list of lists, one after the other.
LEMMA FlattenType ==
  ASSUME NEW S, NEW seqs \in Seq(Seq(S))
  PROVE  FlattenSeq(seqs) \in Seq(S)
<1>1. Len(seqs) \in Nat /\ DOMAIN seqs = 1 .. Len(seqs) /\ \A n \in 1 .. Len(seqs) : seqs[n] \in Seq(S)
  BY LenProperties, ElementOfSeq
<1>2. CASE Len(seqs) = 0
  <2>1. seqs = << >>
    BY <1>2, EmptySeq
  <2>. QED
    BY <1>2, <2>1, EmptySeq DEF FlattenSeq
<1>3. CASE Len(seqs) # 0
  <2>. DEFINE D == Seq(S)
              step == [n \in 1 .. Len(seqs) |-> [k \in D |-> k \o seqs[n]]]
              IsFlat(f) == f = [n \in 1 .. Len(seqs) |-> IF n = 1 THEN seqs[n] ELSE f[n - 1] \o seqs[n]]
              flat == CHOOSE f : IsFlat(f)
  <2>1. << >> \in D
    BY EmptySeq
  <2>2. step \in [1 .. Len(seqs) -> [D -> D]]
    <3>1. ASSUME NEW n \in 1 .. Len(seqs), NEW k \in D PROVE k \o seqs[n] \in D
      BY <1>1, ConcatProperties
    <3>. HIDE DEF D
    <3>. QED
      BY <3>1
  <2>3. PICK f : Stepwise(f, D, Len(seqs), << >>, step)
    <3>. HIDE DEF step, D
    <3>. QED
      BY <1>1, <2>1, <2>2, StepwiseFunction
  <2>4. \A n \in 0 .. Len(seqs) : f[n] \in D
    BY <2>3 DEF Stepwise
  <2>5. ASSUME NEW n \in 1 .. Len(seqs) PROVE f[n] = f[n - 1] \o seqs[n]
    <3>1. f[n - 1] \in D
      <4>1. n - 1 \in 0 .. Len(seqs)
        BY <1>1
      <4>. QED
        BY <2>4, <4>1
    <3>2. f[n] = step[n][f[n - 1]]
      <4>. HIDE DEF D, step
      <4>. QED
        BY <2>3 DEF Stepwise
    <3>. HIDE DEF D
    <3>. QED
      BY <3>1, <3>2
  <2>6. f[1] = seqs[1]
    <3>1. 1 \in 1 .. Len(seqs) /\ f[0] = << >>
      BY <1>1, <1>3, <2>3 DEF Stepwise
    <3>2. f[1] = f[1 - 1] \o seqs[1] /\ seqs[1] \in Seq(S) /\ 1 - 1 = 0
      <4>. HIDE DEF D, step
      <4>. QED
        BY <1>1, <2>5, <3>1
    <3>. QED
      BY <3>1, <3>2, ConcatEmptySeq
  <2>7. IsFlat([n \in 1 .. Len(seqs) |-> f[n]])
    <3>. DEFINE g == [n \in 1 .. Len(seqs) |-> f[n]]
    <3>1. ASSUME NEW n \in 1 .. Len(seqs) PROVE g[n] = IF n = 1 THEN seqs[n] ELSE g[n - 1] \o seqs[n]
      <4>1. CASE n = 1
        BY <2>6, <4>1
      <4>2. CASE n # 1
        <5>1. n - 1 \in 1 .. Len(seqs) /\ g[n] = f[n] /\ g[n - 1] = f[n - 1]
          BY <1>1, <4>2
        <5>. QED
          BY <2>5, <4>2, <5>1
      <4>. QED
        BY <4>1, <4>2
    <3>2. g = [n \in 1 .. Len(seqs) |-> g[n]]
      OBVIOUS
    <3>. HIDE DEF g
    <3>3. IsFlat(g)
      BY <3>1, <3>2
    <3>. QED
      BY <3>3 DEF g
  <2>8. IsFlat(flat)
    <3>. HIDE DEF IsFlat
    <3>. QED
      BY <2>7
  <2>9. FlattenSeq(seqs) = flat[Len(seqs)]
    BY <1>3 DEF FlattenSeq
  <2>. HIDE DEF flat
  <2>10. ASSUME NEW n \in 1 .. Len(seqs)
         PROVE  flat[n] = IF n = 1 THEN seqs[n] ELSE flat[n - 1] \o seqs[n]
    BY <2>8
  <2>. DEFINE N == {n \in Nat : n < Len(seqs) => flat[n + 1] \in Seq(S)}
  <2>11. 0 \in N
    BY <1>1, <1>3, <2>10
  <2>12. ASSUME NEW n \in Nat, n \in N PROVE n + 1 \in N
    <3>. SUFFICES ASSUME n + 1 < Len(seqs) PROVE flat[(n + 1) + 1] \in Seq(S)
      OBVIOUS
    <3>1. (n + 1) + 1 \in 1 .. Len(seqs) /\ ((n + 1) + 1) - 1 = n + 1 /\ (n + 1) + 1 # 1
      BY <1>1
    <3>2. flat[(n + 1) + 1] = flat[n + 1] \o seqs[(n + 1) + 1]
      BY <2>10, <3>1
    <3>3. flat[n + 1] \in Seq(S) /\ seqs[(n + 1) + 1] \in Seq(S)
      BY <1>1, <2>12, <3>1
    <3>. QED
      BY <3>2, <3>3, ConcatProperties
  <2>13. Len(seqs) - 1 \in N
    <3>. HIDE DEF N
    <3>1. Len(seqs) - 1 \in Nat
      BY <1>1, <1>3
    <3>. QED
      BY <2>11, <2>12, <3>1, SetInduction
  <2>14. flat[Len(seqs)] \in Seq(S)
    <3>1. (Len(seqs) - 1) + 1 = Len(seqs) /\ Len(seqs) - 1 < Len(seqs)
      BY <1>1
    <3>. QED
      BY <2>13, <3>1
  <2>. QED
    BY <2>9, <2>14
<1>. QED
  BY <1>2, <1>3

-----------------------------------------------------------------------------
(* The execution of a batch *)

\* A change in the server's change queue.
QueuedChange == [stream : ServerStreams, change : Change]

\* A change put on a stream that follows the storage.
StartedChange == [stream : started, change : Change]

\* A batch that is executed: the storage, the results and the changes so far.
Execution == [db : Database, results : Seq(Status), changes : Seq(StartedChange)]

\* The changes of a stream, as they are queued.
LEMMA OfStreamType ==
  ASSUME NEW S, NEW s \in S, NEW changes \in Seq(Change)
  PROVE  /\ OfStream(s, changes) \in Seq([stream : S, change : Change])
         /\ Len(OfStream(s, changes)) = Len(changes)
<1>1. Len(changes) \in Nat /\ DOMAIN changes = 1 .. Len(changes)
      /\ \A i \in 1 .. Len(changes) : changes[i] \in Change
  BY LenProperties, ElementOfSeq
<1>2. OfStream(s, changes) = [i \in 1 .. Len(changes) |-> [stream |-> s, change |-> changes[i]]]
  BY <1>1 DEF OfStream
<1>3. \A i \in 1 .. Len(changes) : [stream |-> s, change |-> changes[i]] \in [stream : S, change : Change]
  BY <1>1
<1>. QED
  BY <1>1, <1>2, <1>3

\* The changes an operation makes to the streams are queued changes.
LEMMA ChangesType ==
  ASSUME NEW db \in Database, NEW op \in Operation,
         NEW E, E = [client : Clients, id : Nat, endpoint : Endpoint],
         opened \in Seq(E)
  PROVE  Changes(db, op) \in Seq(StartedChange)
<1>. DEFINE each == [s \in DOMAIN opened |->
                       IF s \in started THEN OfStream(s, ChangesFor(db, op, opened[s].endpoint)) ELSE << >>]
<1>1. Len(opened) \in Nat /\ DOMAIN opened = 1 .. Len(opened)
  BY LenProperties
<1>2. ASSUME NEW s \in DOMAIN opened
      PROVE  (IF s \in started THEN OfStream(s, ChangesFor(db, op, opened[s].endpoint)) ELSE << >>)
               \in Seq(StartedChange)
  <2>1. CASE s \in started
    <3>1. opened[s] \in E
      BY <1>1, <2>1, ElementOfSeq
    <3>2. opened[s].endpoint \in Endpoint
      BY <3>1
    <3>3. ChangesFor(db, op, opened[s].endpoint) \in Seq(Change)
      BY <3>2, ChangesForType
    <3>4. OfStream(s, ChangesFor(db, op, opened[s].endpoint)) \in Seq([stream : started, change : Change])
      BY <2>1, <3>3, OfStreamType
    <3>. QED
      BY <2>1, <3>4 DEF StartedChange
  <2>2. CASE s \notin started
    BY <2>2, EmptySeq
  <2>. QED
    BY <2>1, <2>2
<1>3. each \in Seq(Seq(StartedChange))
  <2>1. each \in [1 .. Len(opened) -> Seq(StartedChange)]
    BY <1>1, <1>2
  <2>. QED
    BY <1>1, <2>1, SeqDef
<1>4. Changes(db, op) = FlattenSeq(each)
  BY DEF Changes
<1>. HIDE DEF each
<1>. QED
  BY <1>3, <1>4, FlattenType

\* What one more operation makes of an execution.
Executed(r, op) ==
  IF Failed(r.results) THEN r
  ELSE [db      |-> Effect(r.db, op),
        results |-> Append(r.results, IF Succeeds(r.db, op) THEN "Successful" ELSE "Error"),
        changes |-> r.changes \o Changes(r.db, op)]

\* An operation of a batch executes to a database, statuses and changes of the streams.
LEMMA ExecutedType ==
  ASSUME NEW r \in Execution, NEW op \in Operation,
         NEW E, E = [client : Clients, id : Nat, endpoint : Endpoint],
         opened \in Seq(E)
  PROVE  Executed(r, op) \in Execution
<1>1. r.db \in Database /\ r.results \in Seq(Status) /\ r.changes \in Seq(StartedChange)
  BY DEF Execution
<1>2. Effect(r.db, op) \in Database
  BY <1>1, EffectType
<1>3. Append(r.results, IF Succeeds(r.db, op) THEN "Successful" ELSE "Error") \in Seq(Status)
  <2>1. (IF Succeeds(r.db, op) THEN "Successful" ELSE "Error") \in Status
    BY DEF Status
  <2>. QED
    BY <1>1, <2>1, AppendProperties
<1>4. r.changes \o Changes(r.db, op) \in Seq(StartedChange)
  BY <1>1, ChangesType, ConcatProperties
<1>5. CASE Failed(r.results)
  BY <1>5 DEF Executed
<1>6. CASE ~Failed(r.results)
  BY <1>2, <1>3, <1>4, <1>6 DEF Executed, Execution
<1>. QED
  BY <1>5, <1>6

\* Whatever batch is executed, it leaves a database, and results and changes are lists of such.
LEMMA RunType ==
  ASSUME NEW operations \in Seq(Operation), storage \in Database,
         NEW E, E = [client : Clients, id : Nat, endpoint : Endpoint],
         opened \in Seq(E)
  PROVE  Run(operations) \in Execution
<1>. DEFINE first == [db |-> storage, results |-> << >>, changes |-> << >>]
            step == [n \in 1 .. Len(operations) |-> [r \in Execution |-> Executed(r, operations[n])]]
            IsRun(f) == f = [n \in 0 .. Len(operations) |->
                               IF n = 0 THEN first ELSE Executed(f[n - 1], operations[n])]
            run == CHOOSE f : IsRun(f)
<1>1. Len(operations) \in Nat /\ \A n \in 1 .. Len(operations) : operations[n] \in Operation
  BY LenProperties, ElementOfSeq
<1>2. first \in Execution
  BY EmptySeq DEF Execution
<1>3. step \in [1 .. Len(operations) -> [Execution -> Execution]]
  <2>1. \A n \in 1 .. Len(operations), r \in Execution : Executed(r, operations[n]) \in Execution
    BY <1>1, ExecutedType
  <2>. QED
    BY <2>1
<1>. HIDE DEF first
<1>4. PICK f : Stepwise(f, Execution, Len(operations), first, step)
  <2>. HIDE DEF step
  <2>. QED
    BY <1>1, <1>2, <1>3, StepwiseFunction
<1>5. IsRun(f)
  <2>1. /\ f = [n \in 0 .. Len(operations) |-> f[n]] /\ f[0] = first
        /\ \A n \in 0 .. Len(operations) : f[n] \in Execution
        /\ \A n \in 1 .. Len(operations) : f[n] = step[n][f[n - 1]]
    <3>. HIDE DEF step
    <3>. QED
      BY <1>4 DEF Stepwise
  <2>2. ASSUME NEW n \in 0 .. Len(operations)
        PROVE  f[n] = IF n = 0 THEN first ELSE Executed(f[n - 1], operations[n])
    <3>1. CASE n = 0
      BY <2>1, <3>1
    <3>2. CASE n # 0
      <4>1. n \in 1 .. Len(operations) /\ n - 1 \in 0 .. Len(operations)
        BY <1>1, <3>2
      <4>2. f[n - 1] \in Execution /\ f[n] = step[n][f[n - 1]]
        <5>. HIDE DEF step
        <5>. QED
          BY <2>1, <4>1
      <4>. QED
        BY <3>2, <4>1, <4>2
    <3>. QED
      BY <3>1, <3>2
  <2>. HIDE DEF step
  <2>. QED
    BY <2>1, <2>2
<1>6. IsRun(run)
  <2>. HIDE DEF IsRun
  <2>. QED
    BY <1>5
<1>7. Runs(operations) = run
  BY DEF Runs, Executed, first
<1>. HIDE DEF run
<1>8. ASSUME NEW n \in 0 .. Len(operations)
      PROVE  run[n] = IF n = 0 THEN first ELSE Executed(run[n - 1], operations[n])
  BY <1>6
<1>. DEFINE N == {n \in Nat : n <= Len(operations) => run[n] \in Execution}
<1>9. 0 \in N
  BY <1>1, <1>2, <1>8
<1>10. ASSUME NEW n \in Nat, n \in N PROVE n + 1 \in N
  <2>. SUFFICES ASSUME n + 1 <= Len(operations) PROVE run[n + 1] \in Execution
    OBVIOUS
  <2>1. n + 1 \in 0 .. Len(operations) /\ n + 1 \in 1 .. Len(operations) /\ n + 1 # 0 /\ (n + 1) - 1 = n
    BY <1>1
  <2>2. run[n + 1] = Executed(run[n], operations[n + 1])
    BY <1>8, <2>1
  <2>3. run[n] \in Execution /\ operations[n + 1] \in Operation
    BY <1>1, <1>10, <2>1
  <2>. QED
    BY <2>2, <2>3, ExecutedType
<1>11. run[Len(operations)] \in Execution
  <2>1. Len(operations) \in N
    <3>. HIDE DEF N
    <3>. QED
      BY <1>1, <1>9, <1>10, SetInduction
  <2>. QED
    BY <1>1, <2>1
<1>. DEFINE end == run[Len(operations)]
<1>12. Run(operations) = IF Failed(end.results)
                           THEN [db |-> storage, results |-> end.results, changes |-> << >>] ELSE end
  BY <1>7 DEF Run
<1>13. end.results \in Seq(Status) /\ << >> \in Seq(StartedChange)
  BY <1>11, EmptySeq DEF Execution
<1>. HIDE DEF end
<1>. QED
  BY <1>11, <1>12, <1>13 DEF Execution, end

-----------------------------------------------------------------------------
(* Every variable has its type *)

\* The queues of the clients, when one of them gets or loses an element.
LEMMA AppendedFor ==
  ASSUME NEW S, NEW queues \in [Clients -> Seq(S)], NEW c \in Clients, NEW e \in S
  PROVE  [queues EXCEPT ![c] = Append(@, e)] \in [Clients -> Seq(S)]
<1>1. Append(queues[c], e) \in Seq(S)
  BY AppendProperties
<1>. QED
  BY <1>1

\* One client's queue loses its first element.
LEMMA RestFor ==
  ASSUME NEW S, NEW queues \in [Clients -> Seq(S)], NEW c \in Clients, queues[c] # << >>
  PROVE  [queues EXCEPT ![c] = Tail(@)] \in [Clients -> Seq(S)]
<1>1. Tail(queues[c]) \in Seq(S)
  BY HeadTailProperties
<1>. QED
  BY <1>1

\* A client that may make one more call has made fewer than all clients may.
LEMMA CallsBound ==
  ASSUME NEW S, NEW f \in [Clients -> Seq(S)], NEW c \in Clients, NEW max \in Nat, Calls(f) < max
  PROVE  Len(f[c]) + 1 \in 1 .. max
<1>. DEFINE all == UNION {{d} \X DOMAIN f[d] : d \in Clients}
            mine == {c} \X DOMAIN f[c]
<1>1. \A d \in Clients : Len(f[d]) \in Nat /\ DOMAIN f[d] = 1 .. Len(f[d])
  BY LenProperties
<1>2. IsFiniteSet({{d} \X DOMAIN f[d] : d \in Clients})
  <2>. DEFINE T == {{d} \X DOMAIN f[d] : d \in Clients}
              g == [d \in Clients |-> {d} \X DOMAIN f[d]]
  <2>1. g \in Surjection(Clients, T)
    BY DEF Surjection
  <2>. HIDE DEF g, T
  <2>2. IsFiniteSet(T)
    BY <2>1, NetAssumption, FS_Surjection
  <2>. QED
    BY <2>2 DEF T
<1>3. ASSUME NEW d \in Clients PROVE IsFiniteSet({d} \X DOMAIN f[d])
  <2>1. IsFiniteSet({d})
    BY FS_Singleton
  <2>2. IsFiniteSet(1 .. Len(f[d]))
    BY <1>1, FS_Interval
  <2>. QED
    BY <1>1, <2>1, <2>2, FS_Product
<1>4. IsFiniteSet(all)
  BY <1>2, <1>3, FS_UNION
<1>5. IsFiniteSet(mine) /\ Cardinality(mine) = Len(f[c])
  <2>1. IsFiniteSet({c}) /\ Cardinality({c}) = 1
    BY FS_Singleton
  <2>2. IsFiniteSet(1 .. Len(f[c])) /\ Cardinality(1 .. Len(f[c])) = Len(f[c])
    <3>1. Len(f[c]) \in Nat /\ 1 \in Int /\ Len(f[c]) \in Int
      BY <1>1
    <3>2. IsFiniteSet(1 .. Len(f[c]))
          /\ Cardinality(1 .. Len(f[c])) = IF 1 > Len(f[c]) THEN 0 ELSE Len(f[c]) - 1 + 1
      BY <3>1, FS_Interval
    <3>. QED
      BY <3>1, <3>2
  <2>3. Cardinality(mine) = 1 * Len(f[c]) /\ IsFiniteSet(mine)
    <3>. HIDE DEF all
    <3>1. DOMAIN f[c] = 1 .. Len(f[c])
      BY <1>1
    <3>. QED
      BY <2>1, <2>2, <3>1, FS_Product
  <2>. QED
    BY <1>1, <2>3
<1>6. Cardinality(mine) <= Cardinality(all) /\ Cardinality(all) \in Nat
  <2>1. mine \in SUBSET all
    OBVIOUS
  <2>. HIDE DEF mine, all
  <2>. QED
    BY <1>4, <2>1, FS_Subset, FS_CardinalityType
<1>7. Calls(f) = Cardinality(all)
  BY DEF Calls
<1>. HIDE DEF mine, all
<1>. QED
  BY <1>1, <1>5, <1>6, <1>7

\* A stream on the server.
OpenedStream == [client : Clients, id : Nat, endpoint : Endpoint]

ChangeReply == [op : {"stream_change"}, id : Nat, change : Change]

\* The messages made of queued changes go to clients which have a stream.
LEMMA StreamMessagesType ==
  ASSUME NEW c \in Clients, NEW changes \in Seq(QueuedChange),
         opened \in Seq(OpenedStream), held \subseteq DOMAIN opened
  PROVE  /\ StreamMessages(c, changes) \in Seq(Reply) /\ StreamMessages(c, changes) \in Seq(ChangeReply)
         /\ StreamMessages(c, changes) # << >> => StreamsOf(c) # {}
<1>. DEFINE S == [stream : StreamsOf(c), change : Change]
            mine == Those(changes, S)
<1>1. mine \in Seq(QueuedChange \cap S)
  BY ThoseType
<1>2. ASSUME NEW q \in QueuedChange \cap S
      PROVE  /\ q.stream \in StreamsOf(c)
             /\ StreamMessage(opened[q.stream].id, q.change) \in ChangeReply
  <2>1. q.stream \in StreamsOf(c) /\ q.change \in Change
    OBVIOUS
  <2>2. q.stream \in DOMAIN opened /\ opened[q.stream] \in OpenedStream
    BY <2>1, ElementOfSeq, LenProperties DEF StreamsOf
  <2>3. opened[q.stream].id \in Nat
    BY <2>2 DEF OpenedStream
  <2>. QED
    BY <2>1, <2>3 DEF StreamMessage, ChangeReply
<1>. HIDE DEF S, mine
<1>3. /\ Len(mine) \in Nat /\ DOMAIN mine = 1 .. Len(mine)
      /\ \A i \in 1 .. Len(mine) : mine[i] \in QueuedChange \cap S
  BY <1>1, LenProperties, ElementOfSeq
<1>4. StreamMessages(c, changes) = [i \in 1 .. Len(mine) |-> StreamMessage(opened[mine[i].stream].id, mine[i].change)]
  BY <1>3 DEF StreamMessages, S, mine
<1>5. \A i \in 1 .. Len(mine) : StreamMessage(opened[mine[i].stream].id, mine[i].change) \in ChangeReply
  BY <1>2, <1>3
<1>6. StreamMessages(c, changes) \in Seq(Reply) /\ StreamMessages(c, changes) \in Seq(ChangeReply)
  <2>1. StreamMessages(c, changes) \in Seq(ChangeReply)
    BY <1>3, <1>4, <1>5
  <2>2. ChangeReply \subseteq Reply
    BY DEF ChangeReply, Reply
  <2>. QED
    BY <2>1, <2>2, SeqMonotonic
<1>7. ASSUME StreamMessages(c, changes) # << >> PROVE StreamsOf(c) # {}
  <2>1. Len(mine) # 0
    <3>1. CASE Len(mine) = 0
      <4>1. StreamMessages(c, changes) = << >>
        <5>1. Len(StreamMessages(c, changes)) = 0
          BY <1>3, <1>4, <1>6, <3>1, LenProperties
        <5>. QED
          BY <1>6, <5>1, EmptySeq
      <4>. QED
        BY <1>7, <4>1
    <3>. QED
      BY <3>1
  <2>2. mine[1] \in QueuedChange \cap S
    BY <1>3, <2>1
  <2>. QED
    BY <1>2, <2>2
<1>. QED
  BY <1>6, <1>7

\* The changes of a stream are changes.
LEMMA ChangesOfType ==
  ASSUME NEW s, NEW changes \in Seq(QueuedChange)
  PROVE  ChangesOf(s, changes) \in Seq(Change)
<1>. DEFINE S == [stream : {s}, change : Change]
            mine == Those(changes, S)
<1>1. mine \in Seq(QueuedChange)
  BY ThoseType
<1>. HIDE DEF mine
<1>2. Len(mine) \in Nat /\ DOMAIN mine = 1 .. Len(mine) /\ \A i \in 1 .. Len(mine) : mine[i] \in QueuedChange
  BY <1>1, LenProperties, ElementOfSeq
<1>3. ChangesOf(s, changes) = [i \in 1 .. Len(mine) |-> mine[i].change]
  BY <1>2 DEF ChangesOf, mine
<1>4. \A i \in 1 .. Len(mine) : mine[i].change \in Change
  BY <1>2 DEF QueuedChange
<1>. QED
  BY <1>2, <1>3, <1>4

\* A write is pending of a first message only, and of one if the connection stands: what is put
\* on the wire, and what is taken from a queue when it has arrived, is there.
WritesInv ==
  \A c \in Clients :
    /\ link[c] = "connecting" => status[c] = "Connecting" /\ toServer[c] = << >> /\ toClient[c] = << >>
    /\ link[c] = "open" => status[c] = "Connected"
    /\ status[c] = "Connecting" => link[c] \in {"connecting", "refused"} /\ ~writing[c]
    /\ writing[c] => unsubmitted[c] # << >>
    /\ link[c] = "open" /\ unsubmitted[c] # << >> => writing[c]
    /\ c \in sending => outgoing[c] # << >>
    /\ link[c] \in {"connecting", "open"} /\ outgoing[c] # << >> => c \in sending

\* The server's streams are those of accepted clients, and those which follow the storage are
\* among the numbers streams may have.
StreamOwners ==
  /\ started \subseteq ServerStreams
  /\ \A s \in DOMAIN opened : opened[s].client \in accepted

\* Inside queueOperations there is a last future.
Emplacing == \A c \in Clients : mainPc[c] = "emplacing" => futures[c] # << >>

ClientTypes == WireTypeOK /\ ClientTypeOK /\ Emplacing

\* What is written is put on the wire.
LEMMA WrittenType ==
  ASSUME NEW S, NEW wire \in [Clients -> Seq(S)], NEW c \in Clients, NEW message \in S
  PROVE  Written(wire, c, message) \in [Clients -> Seq(S)]
BY AppendedFor DEF Written

\* A write of one client leaves the wires of the others alone.
LEMMA WrittenElsewhere ==
  ASSUME NEW wire, DOMAIN wire = Clients, NEW c \in Clients, NEW message
  PROVE  \A d \in Clients : d # c => Written(wire, c, message)[d] = wire[d]
BY DEF Written

\* What the main thread does keeps the types.
LEMMA MainThreadTypes ==
  ASSUME ClientTypes, NEW c \in Clients, MainThread(c)
  PROVE  ClientTypes'
<1>. DEFINE Posted == Request \cup [op : {"close"}]
            F == [batch : Seq(Operation), ready : BOOLEAN, value : Seq(Status)]
<1>. USE DEF ClientTypes, Emplacing, WireTypeOK, ClientTypeOK, commVars, taskVars, streamVars, wireVars, Goes
<1>0. /\ DOMAIN futures[c] = 1 .. Len(futures[c]) /\ Len(futures[c]) \in Nat
      /\ DOMAIN streams[c] = 1 .. Len(streams[c]) /\ Len(streams[c]) \in Nat
      /\ \A id \in DOMAIN futures[c] : futures[c][id] \in F
  <2>1. futures[c] \in Seq(F) /\ streams[c] \in Seq(Endpoint)
    OBVIOUS
  <2>. HIDE DEF F
  <2>. QED
    BY <2>1, LenProperties, ElementOfSeq
<1>a. ASSUME NEW message \in Posted, Post(c, message)
      PROVE  posted' \in [Clients -> Seq(Posted)]
  <2>1. posted \in [Clients -> Seq(Posted)]
    OBVIOUS
  <2>. HIDE DEF Posted
  <2>. QED
    BY <1>a, <2>1, AppendedFor DEF Post
<1>1. ASSUME NEW batch \in Batches, QueueOperations(c, batch) PROVE ClientTypes'
  <2>. DEFINE new == [batch |-> batch, ready |-> FALSE, value |-> << >>]
  <2>1. new \in F /\ futures \in [Clients -> Seq(F)]
    BY <1>1, NetAssumption, EmptySeq
  <2>. HIDE DEF F, new
  <2>2. futures' \in [Clients -> Seq(F)]
    BY <1>1, <2>1, AppendedFor DEF QueueOperations, new
  <2>3. /\ futures'[c] # << >>
        /\ \A d \in Clients : DOMAIN futures[d] \subseteq DOMAIN futures'[d] /\ (d # c => futures'[d] = futures[d])
    <3>1. futures[c] \in Seq(F) /\ futures' = [futures EXCEPT ![c] = Append(@, new)]
      BY <1>1, <2>1 DEF QueueOperations, new
    <3>2. DOMAIN futures[c] \subseteq DOMAIN Append(futures[c], new) /\ Append(futures[c], new) # << >>
      BY <2>1, <3>1, Appended
    <3>. QED
      BY <3>1, <3>2
  <2>. QED
    BY <1>1, <2>2, <2>3 DEF QueueOperations, F
<1>2. CASE SubmitOperations(c)
  <2>. DEFINE id == Len(futures[c])
              message == ScheduleOperations(id, futures[c][id].batch)
  <2>1. id \in DOMAIN futures[c] /\ id \in Nat
    <3>1. futures[c] \in Seq(F) /\ futures[c] # << >>
      BY <1>2 DEF SubmitOperations
    <3>2. Len(futures[c]) # 0
      <4>. HIDE DEF F
      <4>. QED
        BY <1>0, <3>1, EmptySeq
    <3>. QED
      BY <1>0, <3>2
  <2>2. message \in Posted
    <3>1. futures[c][id].batch \in Seq(Operation)
      BY <1>0, <2>1
    <3>. QED
      BY <2>1, <3>1 DEF ScheduleOperations, Request
  <2>3. posted' \in [Clients -> Seq(Posted)]
    BY <1>2, <1>a, <2>2 DEF SubmitOperations
  <2>. HIDE DEF id
  <2>4. tasks' = [tasks EXCEPT ![c] = @ \cup ({id} \ lost[c])]
    BY <1>2 DEF SubmitOperations, id
  <2>5. tasks' \in [Clients -> SUBSET Nat] /\ \A d \in Clients : tasks'[d] \subseteq DOMAIN futures[d]
    BY <2>1, <2>4
  <2>. QED
    BY <1>2, <2>3, <2>5 DEF SubmitOperations
<1>3. ASSUME NEW e \in Endpoints, CreateStream(c, e) PROVE ClientTypes'
  <2>. DEFINE id == Len(streams[c]) + 1
  <2>1. e \in Endpoint /\ id \in StreamIds
    BY <1>3, NetAssumption, CallsBound DEF CreateStream, StreamIds
  <2>2. CreateStreamMessage(id, e) \in Posted
    BY <1>0, <2>1 DEF CreateStreamMessage, Request
  <2>3. posted' \in [Clients -> Seq(Posted)]
    BY <1>3, <1>a, <2>2 DEF CreateStream
  <2>4. streams' \in [Clients -> Seq(Endpoint)]
    BY <1>3, <2>1, AppendedFor DEF CreateStream
  <2>5. \A d \in Clients : DOMAIN streams'[d] = IF d = c THEN DOMAIN streams[c] \cup {id} ELSE DOMAIN streams[d]
    <3>1. streams[c] \in Seq(Endpoint) /\ streams' = [streams EXCEPT ![c] = Append(@, e)]
      BY <1>3 DEF CreateStream
    <3>2. DOMAIN Append(streams[c], e) = DOMAIN streams[c] \cup {id}
      BY <2>1, <3>1, Appended
    <3>. QED
      BY <3>1, <3>2
  <2>. HIDE DEF id
  <2>6. /\ connected' = [connected EXCEPT ![c] = @ \cup {id}]
        /\ tracked' = [tracked EXCEPT ![c] = @ \cup {id}]
    BY <1>3 DEF CreateStream, id
  <2>7. /\ connected' \in [Clients -> SUBSET StreamIds] /\ tracked' \in [Clients -> SUBSET StreamIds]
        /\ \A d \in Clients : connected'[d] \subseteq DOMAIN streams'[d] /\ tracked'[d] \subseteq DOMAIN streams'[d]
    <3>1. /\ connected \in [Clients -> SUBSET StreamIds] /\ tracked \in [Clients -> SUBSET StreamIds]
          /\ id \in StreamIds
      BY <2>1
    <3>2. /\ connected' \in [Clients -> SUBSET StreamIds] /\ tracked' \in [Clients -> SUBSET StreamIds]
      BY <2>6, <3>1
    <3>3. ASSUME NEW d \in Clients
          PROVE  connected'[d] \subseteq DOMAIN streams'[d] /\ tracked'[d] \subseteq DOMAIN streams'[d]
      <4>1. CASE d = c
        BY <2>5, <2>6, <3>1, <4>1
      <4>2. CASE d # c
        BY <2>5, <2>6, <3>1, <4>2
      <4>. QED
        BY <4>1, <4>2
    <3>. QED
      BY <3>2, <3>3
  <2>. QED
    BY <1>3, <2>3, <2>4, <2>7 DEF CreateStream
<1>4. ASSUME NEW s \in StreamIds, ResetHandle(c, s) PROVE ClientTypes'
  <2>1. RemoveStreamMessage(s) \in Posted
    BY DEF RemoveStreamMessage, Request, StreamIds
  <2>2. posted' \in [Clients -> Seq(Posted)]
    BY <1>4, <1>a, <2>1 DEF ResetHandle
  <2>. QED
    BY <1>4, <2>2 DEF ResetHandle
<1>5. CASE ApplyStreamChanges(c)
  <2>1. << >> \in Seq(Change)
    BY EmptySeq
  <2>2. \A s \in StreamIds : observed[c][s] \o changeList[c][s] \in Seq(Change)
    BY ConcatProperties
  <2>3. changeList' \in [Clients -> [StreamIds -> Seq(Change)]]
    BY <1>5, <2>1 DEF ApplyStreamChanges
  <2>4. observed' \in [Clients -> [StreamIds -> Seq(Change)]]
    BY <1>5, <2>2 DEF ApplyStreamChanges
  <2>. QED
    BY <1>5, <2>3, <2>4 DEF ApplyStreamChanges
<1>6. CASE Stop(c)
  <2>1. posted' \in [Clients -> Seq(Posted)]
    BY <1>6, <1>a DEF Stop
  <2>. QED
    BY <1>6, <2>1 DEF Stop
<1>7. CASE Join(c)
  BY <1>7 DEF Join
<1>. QED
  BY <1>1, <1>2, <1>3, <1>4, <1>5, <1>6, <1>7 DEF MainThread

\* The results under way are of batches that were queued.
KnownResults ==
  \A c \in Clients : \A i \in DOMAIN toClient[c] :
    toClient[c][i].op = "task_results" => toClient[c][i].id \in DOMAIN futures[c]

\* What the communication thread does keeps the types.
LEMMA CommunicationTypes ==
  ASSUME ClientTypes, WritesInv, KnownResults, NEW c \in Clients, CommunicationThread(c) \/ ConnectFails(c)
  PROVE  ClientTypes'
<1>. DEFINE Posted == Request \cup [op : {"close"}]
            F == [batch : Seq(Operation), ready : BOOLEAN, value : Seq(Status)]
<1>. USE DEF ClientTypes, Emplacing, WireTypeOK, ClientTypeOK, commVars, taskVars, streamVars, wireVars
<1>a. /\ posted \in [Clients -> Seq(Posted)] /\ unsubmitted \in [Clients -> Seq(Request)]
      /\ toServer \in [Clients -> Seq(Request)] /\ toClient \in [Clients -> Seq(Reply)]
      /\ futures \in [Clients -> Seq(F)]
  OBVIOUS
<1>b. ASSUME NEW message \in Request, StartWrite(c, message)
      PROVE  /\ writing' \in [Clients -> BOOLEAN] /\ toServer' \in [Clients -> Seq(Request)]
             /\ link' = link /\ toClient' = toClient
  BY <1>b, WrittenType DEF StartWrite
<1>c. ASSUME posted[c] # << >>, posted' = [posted EXCEPT ![c] = Tail(@)]
      PROVE  posted' \in [Clients -> Seq(Posted)] /\ Head(posted[c]) \in Posted
  <2>. HIDE DEF Posted
  <2>. QED
    BY <1>a, <1>c, RestFor, HeadTailProperties
<1>d. ASSUME toClient[c] # << >>, toClient' = [toClient EXCEPT ![c] = Tail(@)]
      PROVE  toClient' \in [Clients -> Seq(Reply)] /\ Head(toClient[c]) \in Reply
  BY <1>a, <1>d, RestFor, HeadTailProperties
<1>1. CASE RunSubmit(c)
  <2>1. posted' \in [Clients -> Seq(Posted)] /\ Head(posted[c]) \in Request
    BY <1>1, <1>c DEF RunSubmit
  <2>2. unsubmitted' \in [Clients -> Seq(Request)]
    BY <1>1, <1>a, <2>1, AppendedFor DEF RunSubmit
  <2>3. /\ writing' \in [Clients -> BOOLEAN] /\ toServer' \in [Clients -> Seq(Request)]
        /\ link' = link /\ toClient' = toClient
    BY <1>1, <1>b, <2>1 DEF RunSubmit
  <2>. QED
    BY <1>1, <2>1, <2>2, <2>3 DEF RunSubmit
<1>2. CASE RunClose(c)
  <2>1. posted' \in [Clients -> Seq(Posted)]
    BY <1>2, <1>c DEF RunClose
  <2>2. << >> \in Seq(Reply)
    BY EmptySeq
  <2>. QED
    BY <1>2, <2>1, <2>2 DEF RunClose, Breaks
<1>3. CASE SocketConnected(c)
  <2>1. toServer' \in [Clients -> Seq(Request)]
    <3>1. CASE unsubmitted[c] # << >>
      <4>1. Head(unsubmitted[c]) \in Request
        BY <3>1, HeadTailProperties
      <4>2. <<Head(unsubmitted[c])>> \in Seq(Request)
        BY <4>1
      <4>. QED
        BY <1>3, <3>1, <4>2 DEF SocketConnected
    <3>2. CASE unsubmitted[c] = << >>
      BY <1>3, <3>2 DEF SocketConnected
    <3>. QED
      BY <3>1, <3>2
  <2>. QED
    BY <1>3, <2>1 DEF SocketConnected
<1>4. CASE ConnectFails(c)
  BY <1>4 DEF ConnectFails
<1>5. CASE WriteDone(c)
  <2>1. unsubmitted[c] # << >>
    BY <1>5 DEF WriteDone, WritesInv
  <2>2. unsubmitted' \in [Clients -> Seq(Request)]
    BY <1>5, <1>a, <2>1, RestFor DEF WriteDone
  <2>3. /\ writing' \in [Clients -> BOOLEAN] /\ toServer' \in [Clients -> Seq(Request)]
        /\ link' = link /\ toClient' = toClient
    <3>1. CASE Len(unsubmitted[c]) > 1
      <4>1. unsubmitted[c][2] \in Request
        BY <1>a, <3>1, ElementOfSeq, LenProperties
      <4>. QED
        BY <1>5, <1>b, <3>1, <4>1 DEF WriteDone
    <3>2. CASE ~(Len(unsubmitted[c]) > 1)
      BY <1>5, <3>2 DEF WriteDone
    <3>. QED
      BY <3>1, <3>2
  <2>. QED
    BY <1>5, <2>2, <2>3 DEF WriteDone
<1>6. CASE WriteFails(c)
  BY <1>6 DEF WriteFails
<1>7. CASE ReceiveMessage(c)
  <2>. DEFINE message == Head(toClient[c])
  <2>1. toClient' \in [Clients -> Seq(Reply)] /\ message \in Reply /\ message.op = "stream_change"
    BY <1>7, <1>d DEF ReceiveMessage
  <2>2. message.change \in Change
    BY <2>1 DEF Reply
  <2>3. changeList' \in [Clients -> [StreamIds -> Seq(Change)]]
    <3>1. CASE Knows(message.change) /\ message.id \in StreamIds
      <4>1. Append(changeList[c][message.id], message.change) \in Seq(Change)
        BY <2>2, <3>1, AppendProperties
      <4>. QED
        BY <1>7, <3>1, <4>1 DEF ReceiveMessage
    <3>2. CASE ~Knows(message.change) \/ message.id \notin StreamIds
      BY <1>7, <3>2 DEF ReceiveMessage
    <3>. QED
      BY <3>1, <3>2
  <2>. QED
    BY <1>7, <2>1, <2>3 DEF ReceiveMessage
<1>8. CASE ReceiveResults(c)
  <2>. DEFINE message == Head(toClient[c])
              id == message.id
  <2>1. toClient' \in [Clients -> Seq(Reply)] /\ message \in Reply /\ message.op = "task_results"
    BY <1>8, <1>d DEF ReceiveResults
  <2>2. message.results \in Seq(Status)
    BY <2>1 DEF Reply
  <2>3. PICK gone \in Races(c, id) :
           /\ lost' = [lost EXCEPT ![c] = @ \cup gone]
           /\ tasks' = [tasks EXCEPT ![c] = @ \ ({id} \cup gone)]
           /\ futures' = IF id \in tasks[c] \ gone
                           THEN [futures EXCEPT ![c][id].ready = TRUE, ![c][id].value = message.results]
                           ELSE futures
    BY <1>8 DEF ReceiveResults
  <2>a. id \in DOMAIN futures[c]
    <3>1. toClient[c] \in Seq(Reply) /\ toClient[c] # << >>
      BY <1>8 DEF ReceiveResults
    <3>2. 1 \in DOMAIN toClient[c] /\ message = toClient[c][1]
      BY <3>1, HeadAndRest, LenProperties
    <3>. QED
      BY <2>1, <3>2 DEF KnownResults
  <2>b. /\ DOMAIN futures[c] = 1 .. Len(futures[c]) /\ Len(futures[c]) \in Nat
        /\ \A n \in DOMAIN futures[c] : futures[c][n] \in F
    <3>. HIDE DEF F
    <3>. QED
      BY <1>a, LenProperties, ElementOfSeq
  <2>c. gone \subseteq DOMAIN futures[c]
    <3>1. CASE mainPc[c] = "emplacing"
      <4>1. futures[c] # << >> /\ futures[c] \in Seq(F)
        BY <3>1
      <4>2. Len(futures[c]) \in DOMAIN futures[c]
        <5>. HIDE DEF F
        <5>. QED
          BY <2>b, <4>1, EmptySeq
      <4>. QED
        BY <2>3, <2>a, <3>1, <4>2 DEF Races
    <3>2. CASE mainPc[c] # "emplacing"
      BY <2>3, <3>2 DEF Races
    <3>. QED
      BY <3>1, <3>2
  <2>. HIDE DEF message, id
  <2>4. /\ futures' \in [Clients -> Seq(F)]
        /\ \A d \in Clients : DOMAIN futures'[d] = DOMAIN futures[d] /\ Len(futures'[d]) = Len(futures[d])
    <3>1. CASE id \in tasks[c] \ gone
      <4>. DEFINE new == [futures[c][id] EXCEPT !.ready = TRUE, !.value = message.results]
                  mine == [futures[c] EXCEPT ![id] = new]
      <4>1. new \in F
        <5>1. \A f \in F, v \in Seq(Status) : [f EXCEPT !.ready = TRUE, !.value = v] \in F
          OBVIOUS
        <5>. QED
          BY <2>2, <2>a, <2>b, <5>1
      <4>2. futures' = [futures EXCEPT ![c] = mine]
        BY <2>3, <3>1
      <4>. HIDE DEF F, new
      <4>3. mine \in Seq(F) /\ Len(mine) = Len(futures[c])
        BY <1>a, <2>a, <2>b, <4>1, ExceptSeq
      <4>4. DOMAIN mine = DOMAIN futures[c]
        OBVIOUS
      <4>. HIDE DEF mine
      <4>. QED
        BY <1>a, <4>2, <4>3, <4>4
    <3>2. CASE id \notin tasks[c] \ gone
      BY <2>3, <3>2
    <3>. QED
      BY <3>1, <3>2
  <2>5. \A d \in Clients : futures[d] # << >> => futures'[d] # << >>
    <3>. HIDE DEF F
    <3>1. \A d \in Clients : futures[d] \in Seq(F) /\ futures'[d] \in Seq(F)
      BY <1>a, <2>4
    <3>2. \A d \in Clients : futures[d] # << >> => Len(futures[d]) # 0
      BY <3>1, EmptySeq
    <3>3. Len(<< >>) = 0
      OBVIOUS
    <3>. QED
      BY <2>4, <3>2, <3>3
  <2>6. /\ tasks' \in [Clients -> SUBSET Nat] /\ lost' \in [Clients -> SUBSET Nat]
        /\ \A d \in Clients : tasks'[d] \subseteq DOMAIN futures'[d] /\ lost'[d] \subseteq DOMAIN futures'[d]
    <3>1. gone \subseteq Nat
      BY <2>b, <2>c
    <3>2. /\ tasks \in [Clients -> SUBSET Nat] /\ lost \in [Clients -> SUBSET Nat]
          /\ \A d \in Clients : tasks[d] \subseteq DOMAIN futures[d] /\ lost[d] \subseteq DOMAIN futures[d]
      OBVIOUS
    <3>3. tasks' \in [Clients -> SUBSET Nat] /\ \A d \in Clients : tasks'[d] \subseteq tasks[d]
      BY <2>3, <3>2
    <3>4. /\ lost' \in [Clients -> SUBSET Nat]
          /\ \A d \in Clients : lost'[d] \subseteq lost[d] \cup (IF d = c THEN gone ELSE {})
      BY <2>3, <3>1, <3>2
    <3>. QED
      BY <2>4, <2>c, <3>2, <3>3, <3>4
  <2>. QED
    BY <1>8, <2>1, <2>4, <2>5, <2>6 DEF ReceiveResults
<1>9. CASE ReadFails(c)
  <2>1. << >> \in Seq(Reply)
    BY EmptySeq
  <2>. QED
    BY <1>9, <2>1 DEF ReadFails, RestIsLost
<1>10. CASE IoServiceRunsOut(c)
  BY <1>10 DEF IoServiceRunsOut
<1>. QED
  BY <1>1, <1>2, <1>3, <1>4, <1>5, <1>6, <1>7, <1>8, <1>9, <1>10 DEF CommunicationThread

\* What the server's thread posts and what the owner posts.
Posting ==
  [op : {"apply", "close"}] \cup [op : {"answer"}, client : Clients, id : Nat, results : Seq(Status)]

QueuedRequest == [client : Clients, id : Nat, operations : Seq(Operation)]

ExecutedBatch ==
  [client : Clients, id : Nat, operations : Seq(Operation), results : Seq(Status),
   after : [ServerStreams -> Nat]]

ServerTypes == WireTypeOK /\ ServerTypeOK /\ StreamOwners

\* The steps by which the server comes to an end, or stops accepting.
ServiceEnds == AcceptFails \/ Throws \/ ServiceRunsOut \/ JoinServer

\* They change nothing of what was said and done: at most they break the connections.
LEMMA EndsKeep ==
  ASSUME ServiceEnds
  PROVE  /\ UNCHANGED <<toServer, toClient, accepted, receiving, sending, outgoing, serverPosts>>
         /\ UNCHANGED <<storage, requests, opened, held, started, pending, emitted, executed>>
         /\ UNCHANGED link \/ AllBreak
  BY DEF ServiceEnds, AcceptFails, Throws, AcceptThrows, SessionThrows, Aborts, ServiceRunsOut, JoinServer,
         sessionVars, backendVars, wireVars

\* What the handlers of the connections do keeps the types.
LEMMA SessionTypes ==
  ASSUME ServerTypes, WritesInv, NEW c \in Clients, UNCHANGED ownerVars,
         \/ Accept(c)
         \/ RunCreateStream(c) \/ RunRemoveStream(c) \/ RunScheduleOperations(c)
         \/ SessionReadFails(c)
         \/ SessionWriteDone(c) \/ SessionWriteFails(c)
  PROVE  ServerTypes'
<1>. USE DEF ServerTypes, StreamOwners, WireTypeOK, ServerTypeOK, ownerVars, sessionVars, backendVars, wireVars
<1>a. /\ opened \in Seq(OpenedStream) /\ Len(opened) \in Nat /\ DOMAIN opened = 1 .. Len(opened)
      /\ requests \in Seq(QueuedRequest)
      /\ toServer \in [Clients -> Seq(Request)] /\ toClient \in [Clients -> Seq(Reply)]
      /\ outgoing \in [Clients -> Seq(Reply)]
  <2>1. opened \in Seq(OpenedStream) /\ requests \in Seq(QueuedRequest)
    BY DEF OpenedStream, QueuedRequest
  <2>. QED
    BY <2>1, LenProperties
<1>b. ASSUME NEW op, Reads(c, op)
      PROVE  /\ c \in receiving
             /\ toServer' \in [Clients -> Seq(Request)]
             /\ Head(toServer[c]) \in Request /\ Head(toServer[c]).op = op
             /\ link' = link /\ toClient' = toClient
             /\ UNCHANGED <<sessionVars, serverPosts>>
  BY <1>a, <1>b, RestFor, HeadTailProperties DEF Reads
<1>c. ASSUME SessionGoesOn(c)
      PROVE  held' \subseteq held /\ started' \subseteq started
             /\ (started \subseteq held => started' \subseteq held')
  BY <1>c DEF SessionGoesOn
<1>1. CASE Accept(c)
  BY <1>1 DEF Accept, Accepting
<1>2. CASE RunCreateStream(c)
  <2>. DEFINE new == [client |-> c, id |-> Head(toServer[c]).id, endpoint |-> Head(toServer[c]).endpoint]
  <2>1. /\ c \in receiving
        /\ toServer' \in [Clients -> Seq(Request)]
        /\ Head(toServer[c]) \in Request /\ Head(toServer[c]).op = "create_stream"
        /\ link' = link /\ toClient' = toClient
        /\ UNCHANGED <<sessionVars, serverPosts>>
    BY <1>2, <1>b DEF RunCreateStream
  <2>2. new \in OpenedStream /\ new.client = c
    BY <2>1 DEF Request, OpenedStream
  <2>3. opened' = Append(opened, new) /\ held' = held \cup {Len(opened) + 1}
    BY <1>2 DEF RunCreateStream
  <2>. HIDE DEF new
  <2>4. /\ opened' \in Seq(OpenedStream)
        /\ DOMAIN opened' = DOMAIN opened \cup {Len(opened) + 1}
        /\ \A s \in DOMAIN opened : opened'[s] = opened[s]
        /\ opened'[Len(opened) + 1] = new
    BY <1>a, <2>2, <2>3, Appended
  <2>5. \A s \in DOMAIN opened' : opened'[s].client \in accepted'
    BY <2>1, <2>2, <2>4
  <2>. QED
    BY <1>2, <2>1, <2>3, <2>4, <2>5 DEF RunCreateStream, OpenedStream
<1>3. CASE RunRemoveStream(c)
  <2>1. /\ toServer' \in [Clients -> Seq(Request)]
        /\ link' = link /\ toClient' = toClient
        /\ UNCHANGED <<sessionVars, serverPosts>>
    BY <1>3, <1>b DEF RunRemoveStream
  <2>. QED
    BY <1>3, <2>1 DEF RunRemoveStream
<1>4. CASE RunScheduleOperations(c)
  <2>. DEFINE new == [client |-> c, id |-> Head(toServer[c]).id,
                      operations |-> Deserialized(Head(toServer[c]).operations)]
  <2>1. /\ toServer' \in [Clients -> Seq(Request)]
        /\ Head(toServer[c]) \in Request /\ Head(toServer[c]).op = "schedule_operations"
        /\ link' = link /\ toClient' = toClient
        /\ UNCHANGED <<sessionVars, serverPosts>>
    BY <1>4, <1>b DEF RunScheduleOperations
  <2>2. Head(toServer[c]).operations \in Seq(Operation) /\ Head(toServer[c]).id \in Nat
    BY <2>1 DEF Request
  <2>3. new \in QueuedRequest
    BY <2>2, ThoseType DEF QueuedRequest, Deserialized
  <2>4. requests' = Append(requests, new)
    BY <1>4 DEF RunScheduleOperations
  <2>5. requests' \in Seq(QueuedRequest)
    <3>. HIDE DEF new
    <3>. QED
      BY <1>a, <2>3, <2>4, AppendProperties
  <2>. QED
    BY <1>4, <2>1, <2>5 DEF RunScheduleOperations, QueuedRequest
<1>5. CASE SessionReadFails(c)
  <2>1. << >> \in Seq(Request)
    BY EmptySeq
  <2>2. toServer' \in [Clients -> Seq(Request)]
    BY <1>5, <2>1 DEF SessionReadFails, RestIsLost
  <2>3. held' \subseteq held /\ started' \subseteq started /\ started' \subseteq held'
    BY <1>5, <1>c DEF SessionReadFails
  <2>. QED
    BY <1>5, <2>2, <2>3 DEF SessionReadFails
<1>6. CASE SessionWriteDone(c)
  <2>1. outgoing' \in [Clients -> Seq(Reply)]
    BY <1>6, <1>a, RestFor DEF SessionWriteDone, WritesInv
  <2>2. CASE Len(outgoing[c]) > 1
    <3>1. outgoing[c][2] \in Reply
      BY <1>a, <2>2, ElementOfSeq, LenProperties
    <3>2. toClient' \in [Clients -> Seq(Reply)]
      <4>1. toClient' = Written(toClient, c, outgoing[c][2])
        BY <1>6, <2>2 DEF SessionWriteDone
      <4>. QED
        BY <1>a, <3>1, <4>1, WrittenType
    <3>. QED
      BY <1>6, <2>1, <2>2, <3>2 DEF SessionWriteDone
  <2>3. CASE ~(Len(outgoing[c]) > 1)
    <3>1. held' \subseteq held /\ started' \subseteq started /\ started' \subseteq held'
      BY <1>6, <1>c, <2>3 DEF SessionWriteDone
    <3>. QED
      BY <1>6, <2>1, <2>3, <3>1 DEF SessionWriteDone
  <2>. QED
    BY <2>2, <2>3
<1>7. CASE SessionWriteFails(c)
  <2>1. held' \subseteq held /\ started' \subseteq started /\ started' \subseteq held'
    BY <1>7, <1>c DEF SessionWriteFails
  <2>. QED
    BY <1>7, <2>1 DEF SessionWriteFails
<1>. QED
  BY <1>1, <1>2, <1>3, <1>4, <1>5, <1>6, <1>7

\* Messages for clients that were accepted are sent.
LEMMA SentTypes ==
  ASSUME NEW messages \in [Clients -> Seq(Reply)],
         outgoing \in [Clients -> Seq(Reply)], toClient \in [Clients -> Seq(Reply)], sending \subseteq accepted,
         \A c \in Clients : messages[c] # << >> => c \in accepted,
         SendMessages(messages)
  PROVE  /\ outgoing' \in [Clients -> Seq(Reply)] /\ toClient' \in [Clients -> Seq(Reply)]
         /\ sending' \subseteq accepted
<1>. DEFINE starts == {c \in Clients : outgoing[c] = << >> /\ messages[c] # << >>}
<1>1. \A c \in Clients : outgoing[c] \o messages[c] \in Seq(Reply)
  BY ConcatProperties
<1>2. ASSUME NEW c \in starts PROVE Written(toClient, c, Head(messages[c]))[c] \in Seq(Reply)
  <2>1. Head(messages[c]) \in Reply
    BY HeadTailProperties
  <2>2. Written(toClient, c, Head(messages[c])) \in [Clients -> Seq(Reply)]
    BY <2>1, WrittenType
  <2>. QED
    BY <2>2
<1>3. toClient' = [c \in Clients |-> IF c \in starts THEN Written(toClient, c, Head(messages[c]))[c]
                                                    ELSE toClient[c]]
  BY DEF SendMessages
<1>4. toClient' \in [Clients -> Seq(Reply)]
  BY <1>2, <1>3
<1>5. outgoing' \in [Clients -> Seq(Reply)] /\ sending' \subseteq accepted
  BY <1>1 DEF SendMessages
<1>. QED
  BY <1>4, <1>5

\* Handlers posted by the backend's thread.
LEMMA PostedType ==
  ASSUME NEW posts \in Seq(Posting)
  PROVE  PostedApply(posts) \in Seq(Posting)
<1>1. [op |-> "apply"] \in Posting
  BY DEF Posting
<1>2. Append(posts, [op |-> "apply"]) \in Seq(Posting)
  BY <1>1, AppendProperties
<1>. QED
  BY <1>2 DEF PostedApply

\* Changes put on the streams are queued with the stream they are for.
LEMMA EmitsType ==
  ASSUME NEW changes \in Seq(QueuedChange), Emits(changes),
         pending \in Seq(QueuedChange), emitted \in [ServerStreams -> Seq(Change)]
  PROVE  pending' \in Seq(QueuedChange) /\ emitted' \in [ServerStreams -> Seq(Change)]
<1>1. pending \o changes \in Seq(QueuedChange)
  BY ConcatProperties
<1>2. \A s \in ServerStreams : emitted[s] \o ChangesOf(s, changes) \in Seq(Change)
  BY ChangesOfType, ConcatProperties
<1>. QED
  BY <1>1, <1>2 DEF Emits

\* What the posted handlers and the backend's thread do keeps the types.
LEMMA BackendTypes ==
  ASSUME ServerTypes, UNCHANGED ownerVars,
         RunApply \/ RunAnswer \/ ExecuteBatch \/ \E s \in ServerStreams : StartStream(s)
  PROVE  ServerTypes'
<1>. USE DEF ServerTypes, StreamOwners, WireTypeOK, ServerTypeOK, ownerVars, sessionVars, backendVars, wireVars
<1>a. /\ opened \in Seq(OpenedStream) /\ DOMAIN opened = 1 .. Len(opened)
      /\ \A s \in DOMAIN opened : opened[s] \in OpenedStream
      /\ requests \in Seq(QueuedRequest) /\ serverPosts \in Seq(Posting)
      /\ pending \in Seq(QueuedChange) /\ executed \subseteq ExecutedBatch
  <2>1. opened \in Seq(OpenedStream) /\ requests \in Seq(QueuedRequest) /\ serverPosts \in Seq(Posting)
        /\ pending \in Seq(QueuedChange) /\ executed \subseteq ExecutedBatch
    BY DEF OpenedStream, QueuedRequest, Posting, QueuedChange, ExecutedBatch
  <2>. QED
    BY <2>1, LenProperties, ElementOfSeq
<1>b. ASSUME NEW op, Posts(op)
      PROVE  serverPosts' \in Seq(Posting) /\ Head(serverPosts) \in Posting /\ Head(serverPosts).op = op
  BY <1>a, <1>b, HeadTailProperties DEF Posts
<1>1. CASE RunApply
  <2>. DEFINE messages == [c \in Clients |-> StreamMessages(c, pending)]
  <2>1. ASSUME NEW c \in Clients
        PROVE  StreamMessages(c, pending) \in Seq(Reply)
               /\ (StreamMessages(c, pending) # << >> => c \in accepted)
    <3>1. StreamMessages(c, pending) \in Seq(Reply)
          /\ (StreamMessages(c, pending) # << >> => StreamsOf(c) # {})
      BY <1>a, StreamMessagesType
    <3>. QED
      BY <3>1 DEF StreamsOf
  <2>2. messages \in [Clients -> Seq(Reply)] /\ \A c \in Clients : messages[c] # << >> => c \in accepted
    BY <2>1
  <2>3. SendMessages(messages)
    BY <1>1 DEF RunApply
  <2>4. /\ outgoing' \in [Clients -> Seq(Reply)] /\ toClient' \in [Clients -> Seq(Reply)]
        /\ sending' \subseteq accepted
    <3>. HIDE DEF messages
    <3>. QED
      BY <2>2, <2>3, SentTypes
  <2>5. serverPosts' \in Seq(Posting)
    BY <1>1, <1>b DEF RunApply
  <2>6. pending' \in Seq(QueuedChange)
    BY <1>1, EmptySeq DEF RunApply
  <2>. QED
    BY <1>1, <2>4, <2>5, <2>6 DEF RunApply, Posting, QueuedChange
<1>2. CASE RunAnswer
  <2>. DEFINE answer == Head(serverPosts)
              messages == [c \in Clients |-> IF c = answer.client /\ c \in receiving \cup sending
                             THEN <<TaskResults(answer.id, answer.results)>> ELSE << >>]
  <2>1. serverPosts' \in Seq(Posting) /\ answer \in Posting /\ answer.op = "answer"
    BY <1>2, <1>b DEF RunAnswer
  <2>2. TaskResults(answer.id, answer.results) \in Reply
    <3>1. answer.id \in Nat /\ answer.results \in Seq(Status)
      BY <2>1 DEF Posting
    <3>. QED
      BY <3>1 DEF TaskResults, Reply
  <2>3. <<TaskResults(answer.id, answer.results)>> \in Seq(Reply) /\ << >> \in Seq(Reply)
    BY <2>2, EmptySeq
  <2>4. messages \in [Clients -> Seq(Reply)] /\ \A c \in Clients : messages[c] # << >> => c \in accepted
    BY <2>3
  <2>5. SendMessages(messages)
    BY <1>2 DEF RunAnswer
  <2>6. /\ outgoing' \in [Clients -> Seq(Reply)] /\ toClient' \in [Clients -> Seq(Reply)]
        /\ sending' \subseteq accepted
    <3>. HIDE DEF messages
    <3>. QED
      BY <2>4, <2>5, SentTypes
  <2>. QED
    BY <1>2, <2>1, <2>6 DEF RunAnswer, Posting
<1>3. CASE ExecuteBatch
  <2>. DEFINE r == Head(requests)
              run == Run(r.operations)
              answer == [op |-> "answer", client |-> r.client, id |-> r.id, results |-> run.results]
              new == [client |-> r.client, id |-> r.id, operations |-> r.operations, results |-> run.results,
                      after |-> [s \in ServerStreams |-> Len(emitted'[s])]]
  <2>1. r \in QueuedRequest /\ requests' \in Seq(QueuedRequest)
    BY <1>3, <1>a, HeadTailProperties DEF ExecuteBatch
  <2>2. run \in Execution
    <3>1. r.operations \in Seq(Operation)
      BY <2>1 DEF QueuedRequest
    <3>. QED
      BY <1>a, <3>1, RunType DEF OpenedStream
  <2>. HIDE DEF run
  <2>3. run.db \in Database /\ run.results \in Seq(Status) /\ run.changes \in Seq(QueuedChange)
    <3>1. run.db \in Database /\ run.results \in Seq(Status) /\ run.changes \in Seq(StartedChange)
      BY <2>2 DEF Execution
    <3>2. StartedChange \subseteq QueuedChange
      BY DEF StartedChange, QueuedChange
    <3>. QED
      BY <3>1, <3>2, SeqMonotonic
  <2>4. /\ storage' = run.db /\ Emits(run.changes) /\ serverPosts' = PostedBatch(run.changes, answer)
        /\ executed' = executed \cup {new}
    BY <1>3 DEF ExecuteBatch, run
  <2>5. pending' \in Seq(QueuedChange) /\ emitted' \in [ServerStreams -> Seq(Change)]
    BY <1>a, <2>3, <2>4, EmitsType
  <2>6. serverPosts' \in Seq(Posting)
    <3>1. answer \in Posting
      BY <2>1, <2>3 DEF Posting, QueuedRequest
    <3>2. (IF run.changes = << >> THEN serverPosts ELSE PostedApply(serverPosts)) \in Seq(Posting)
      BY <1>a, PostedType
    <3>. HIDE DEF answer
    <3>. QED
      BY <2>4, <3>1, <3>2, AppendProperties DEF PostedBatch
  <2>7. new \in ExecutedBatch
    <3>1. \A s \in ServerStreams : Len(emitted'[s]) \in Nat
      BY <2>5, LenProperties
    <3>. QED
      BY <2>1, <2>3, <3>1 DEF ExecutedBatch, QueuedRequest
  <2>. HIDE DEF new
  <2>8. executed' \subseteq ExecutedBatch
    BY <1>a, <2>4, <2>7
  <2>. QED
    BY <1>3, <2>1, <2>3, <2>4, <2>5, <2>6, <2>8
    DEF ExecuteBatch, OpenedStream, QueuedRequest, Posting, QueuedChange, ExecutedBatch
<1>4. ASSUME NEW s \in ServerStreams, StartStream(s) PROVE ServerTypes'
  <2>1. s \in held /\ opened[s].endpoint \in Endpoint
    <3>1. s \in held /\ s \in DOMAIN opened
      BY <1>4 DEF StartStream
    <3>. QED
      BY <1>a, <3>1 DEF OpenedStream
  <2>. DEFINE list == Append(InitialChanges(storage, opened[s].endpoint), Initialized)
  <2>2. list \in Seq(Change)
    <3>1. Initialized \in Change
      BY DEF Change
    <3>. QED
      BY <2>1, <3>1, InitialChangesType, AppendProperties
  <2>3. OfStream(s, list) \in Seq(QueuedChange)
    BY <2>2, OfStreamType DEF QueuedChange
  <2>4. pending' \in Seq(QueuedChange) /\ emitted' \in [ServerStreams -> Seq(Change)]
    <3>1. Emits(OfStream(s, list))
      BY <1>4 DEF StartStream
    <3>. QED
      BY <1>a, <2>3, <3>1, EmitsType
  <2>5. serverPosts' \in Seq(Posting)
    BY <1>4, <1>a, PostedType DEF StartStream
  <2>. HIDE DEF list
  <2>. QED
    BY <1>4, <2>1, <2>4, <2>5 DEF StartStream, Posting, QueuedChange
<1>. QED
  BY <1>1, <1>2, <1>3, <1>4

\* Stopping the server keeps the types, and so does its end.
LEMMA StoppingTypes ==
  ASSUME ServerTypes, RunCloseServer \/ StopServer \/ ServiceEnds
  PROVE  ServerTypes'
<1>. USE DEF ServerTypes, StreamOwners, WireTypeOK, ServerTypeOK, ownerVars, sessionVars, backendVars, wireVars
<1>a. serverPosts \in Seq(Posting)
  BY DEF Posting
<1>1. CASE RunCloseServer
  <2>1. serverPosts' \in Seq(Posting)
    BY <1>1, <1>a, HeadTailProperties DEF RunCloseServer, Posts
  <2>2. late' \subseteq Clients
    BY <1>1 DEF RunCloseServer, Accepting
  <2>3. link' \in [Clients -> {"connecting", "refused", "open", "broken"}]
    <3>1. link' = [c \in Clients |-> CASE link[c] = "connecting"                -> "refused"
                                      [] link[c] = "open" /\ c \notin late'     -> "broken"
                                      [] link[c] = "open" /\ c \in late'        -> "open"
                                      [] link[c] \in {"refused", "broken"}      -> link[c]]
      BY <1>1 DEF RunCloseServer
    <3>2. ASSUME NEW c \in Clients
          PROVE  (CASE link[c] = "connecting"                -> "refused"
                    [] link[c] = "open" /\ c \notin late'     -> "broken"
                    [] link[c] = "open" /\ c \in late'        -> "open"
                    [] link[c] \in {"refused", "broken"}      -> link[c])
                   \in {"connecting", "refused", "open", "broken"}
      <4>1. link[c] \in {"connecting", "refused", "open", "broken"}
        OBVIOUS
      <4>. QED
        BY <4>1
    <3>. QED
      BY <3>1, <3>2
  <2>4. toServer' \in [Clients -> Seq(Request)]
    <3>1. PICK read \in SUBSET {c \in receiving : toServer[c] # << >>} :
            toServer' = [c \in Clients |-> IF c \in late' THEN toServer[c]
                                           ELSE SubSeq(toServer[c], 1, IF c \in read THEN 1 ELSE 0)]
      BY <1>1 DEF RunCloseServer
    <3>2. ASSUME NEW c \in Clients
          PROVE  SubSeq(toServer[c], 1, IF c \in read THEN 1 ELSE 0) \in Seq(Request)
      <4>1. CASE c \in read
        <5>1. toServer[c] \in Seq(Request) /\ toServer[c] # << >>
          BY <4>1
        <5>2. toServer[c][1] \in Request
          BY <5>1, HeadAndRest, ElementOfSeq, HeadTailProperties
        <5>3. \A i \in 1 .. 1 : toServer[c][i] \in Request
          BY <5>2
        <5>. QED
          BY <4>1, <5>3, SubSeqProperties
      <4>2. CASE c \notin read
        BY <4>2, SubSeqEmpty, EmptySeq
      <4>. QED
        BY <4>1, <4>2
    <3>. QED
      BY <3>1, <3>2
  <2>. QED
    BY <1>1, <2>1, <2>2, <2>3, <2>4 DEF RunCloseServer, Posting
<1>2. CASE StopServer
  <2>1. [op |-> "close"] \in Posting
    BY DEF Posting
  <2>2. serverPosts' \in Seq(Posting)
    BY <1>2, <1>a, <2>1, AppendProperties DEF StopServer
  <2>. QED
    BY <1>2, <2>2 DEF StopServer, Posting
<1>3. CASE ServiceEnds
  <2>1. /\ UNCHANGED <<toServer, toClient, accepted, receiving, sending, outgoing, serverPosts>>
        /\ UNCHANGED <<storage, requests, opened, held, started, pending, emitted, executed>>
        /\ link' \in [Clients -> {"connecting", "refused", "open", "broken"}]
    BY <1>3, EndsKeep DEF AllBreak
  <2>2. /\ serverPc' \in {"running", "joining", "stopped"} /\ service' \in {"running", "returned", "aborted"}
        /\ acceptor' \in {"accepting", "idle", "closed"} /\ late' \subseteq Clients
    BY <1>3
    DEF ServiceEnds, AcceptFails, Throws, AcceptThrows, SessionThrows, Aborts, ServiceRunsOut, JoinServer
  <2>. QED
    BY <2>1, <2>2
<1>. QED
  BY <1>1, <1>2, <1>3

\* Every variable keeps its type.
LEMMA NextTypes ==
  ASSUME ClientTypes, ServerTypes, WritesInv, KnownResults, [Next]_vars
  PROVE  ClientTypes' /\ ServerTypes'
<1>1. ASSUME NEW c \in Clients, MainThread(c), UNCHANGED serverVars
      PROVE  ClientTypes' /\ ServerTypes'
  <2>1. ClientTypes'
    BY <1>1, MainThreadTypes
  <2>. QED
    BY <1>1, <2>1 DEF ClientTypes, ServerTypes, StreamOwners, ServerTypeOK, serverVars, ownerVars, sessionVars, backendVars
<1>2. ASSUME NEW c \in Clients, CommunicationThread(c) \/ ConnectFails(c), UNCHANGED serverVars
      PROVE  ClientTypes' /\ ServerTypes'
  <2>1. ClientTypes'
    BY <1>2, CommunicationTypes
  <2>. QED
    BY <1>2, <2>1 DEF ClientTypes, ServerTypes, StreamOwners, ServerTypeOK, serverVars, ownerVars, sessionVars, backendVars
<1>3. ASSUME ServerTypes', UNCHANGED clientVars
      PROVE  ClientTypes' /\ ServerTypes'
  BY <1>3 DEF ClientTypes, Emplacing, ServerTypes, ClientTypeOK, clientVars, commVars, taskVars, streamVars
<1>4. CASE Server
  <2>1. ServerTypes'
    BY <1>4, SessionTypes, BackendTypes, StoppingTypes
    DEF Server, ServerThread, BackendThread, Handlers, ServiceEnds
  <2>. QED
    BY <1>3, <1>4, <2>1 DEF Server
<1>5. ASSUME NEW c \in Clients, Disconnect(c) PROVE ClientTypes' /\ ServerTypes'
  <2>1. WireTypeOK'
    BY <1>5 DEF ClientTypes, WireTypeOK, Disconnect, Breaks
  <2>2. ServerTypes'
    BY <1>5, <2>1 DEF ServerTypes, StreamOwners, ServerTypeOK, serverVars, ownerVars, sessionVars, backendVars, Disconnect
  <2>. QED
    BY <1>3, <1>5, <2>2 DEF Disconnect
<1>6. CASE UNCHANGED vars
  <2>1. ServerTypes'
    BY <1>6 DEF ServerTypes, StreamOwners, WireTypeOK, ServerTypeOK, serverVars, ownerVars, sessionVars, backendVars, vars, wireVars
  <2>. QED
    BY <1>3, <1>6, <2>1 DEF vars
<1>. QED
  BY <1>1, <1>2, <1>4, <1>5, <1>6 DEF Next, Client, Network, Terminated

\* The initial state.
LEMMA InitTypes == Init => ClientTypes /\ ServerTypes /\ WritesInv
<1>. SUFFICES ASSUME Init PROVE ClientTypes /\ ServerTypes /\ WritesInv
  OBVIOUS
<1>. USE DEF Init, WireInit, ClientInit, ServerInit
<1>1. WireTypeOK
  BY EmptySeq DEF WireTypeOK
<1>2. ClientTypes
  <2>1. << >> \in Seq(Change)
    BY EmptySeq
  <2>2. changeList \in [Clients -> [StreamIds -> Seq(Change)]] /\ observed \in [Clients -> [StreamIds -> Seq(Change)]]
    BY <2>1
  <2>3. /\ posted \in [Clients -> Seq(Request \cup [op : {"close"}])]
        /\ unsubmitted \in [Clients -> Seq(Request)]
        /\ futures \in [Clients -> Seq([batch : Seq(Operation), ready : BOOLEAN, value : Seq(Status)])]
        /\ streams \in [Clients -> Seq(Endpoint)]
    BY EmptySeq
  <2>. QED
    BY <1>1, <2>2, <2>3 DEF ClientTypes, ClientTypeOK, Emplacing
<1>3. ServerTypes
  <2>1. storage \in Database
    BY EmptySeq DEF EmptyDatabase, Database
  <2>2. << >> \in Seq(Change) /\ outgoing \in [Clients -> Seq(Reply)]
    BY EmptySeq
  <2>3. /\ serverPosts \in Seq(Posting) /\ requests \in Seq(QueuedRequest)
        /\ opened \in Seq(OpenedStream) /\ pending \in Seq(QueuedChange)
    BY EmptySeq
  <2>4. DOMAIN opened = {}
    OBVIOUS
  <2>. QED
    BY <1>1, <2>1, <2>2, <2>3, <2>4
    DEF ServerTypes, ServerTypeOK, StreamOwners, Posting, QueuedRequest, OpenedStream, QueuedChange
<1>4. WritesInv
  BY DEF WritesInv
<1>. QED
  BY <1>2, <1>3, <1>4

-----------------------------------------------------------------------------
(* No message waits without a write pending *)

\* Something is left of a queue that loses its first element if it was longer than that.
LEMMA RestOfQueue ==
  ASSUME NEW S, NEW queue \in Seq(S), queue # << >>
  PROVE  Tail(queue) # << >> <=> Len(queue) > 1
<1>1. Tail(queue) \in Seq(S) /\ Len(Tail(queue)) = Len(queue) - 1 /\ Len(queue) \in Nat
  BY HeadTailProperties, LenProperties
<1>2. Tail(queue) # << >> <=> Len(Tail(queue)) # 0
  BY <1>1, EmptySeq
<1>3. Len(queue) # 0
  BY EmptySeq
<1>. QED
  BY <1>1, <1>2, <1>3

\* Sending messages leaves a write pending wherever one was, and where a message now waits.
LEMMA SentWrites ==
  ASSUME ServerTypes, WritesInv, NEW messages \in [Clients -> Seq(Reply)], SendMessages(messages), NEW c \in Clients
  PROVE  /\ c \in sending' => outgoing'[c] # << >>
         /\ link[c] \in {"connecting", "open"} /\ outgoing'[c] # << >> => c \in sending'
         /\ link[c] = "connecting" => toClient'[c] = toClient[c]
<1>1. outgoing[c] \in Seq(Reply) /\ messages[c] \in Seq(Reply)
  BY DEF ServerTypes, ServerTypeOK
<1>2. /\ outgoing'[c] = outgoing[c] \o messages[c]
      /\ sending' = sending \cup {d \in Clients : outgoing[d] = << >> /\ messages[d] # << >>}
  BY DEF SendMessages
<1>3. outgoing'[c] = << >> <=> outgoing[c] = << >> /\ messages[c] = << >>
  BY <1>1, <1>2, ConcatEqualIffEmpty
<1>4. link[c] = "connecting" => toClient'[c] = toClient[c]
  BY DEF SendMessages, Written
<1>. QED
  BY <1>2, <1>3, <1>4 DEF WritesInv

\* No step leaves a message behind, on either side.
LEMMA NextWrites ==
  ASSUME ClientTypes, ServerTypes, WritesInv, [Next]_vars
  PROVE  WritesInv'
<1>. USE DEF WritesInv, vars, clientVars, serverVars, commVars, taskVars, streamVars, wireVars, ownerVars, sessionVars, backendVars
<1>a. /\ link \in [Clients -> {"connecting", "refused", "open", "broken"}]
      /\ status \in [Clients -> {"NotConnected", "Connecting", "Connected"}]
      /\ toServer \in [Clients -> Seq(Request)] /\ toClient \in [Clients -> Seq(Reply)]
      /\ writing \in [Clients -> BOOLEAN] /\ unsubmitted \in [Clients -> Seq(Request)]
      /\ outgoing \in [Clients -> Seq(Reply)]
  BY DEF ClientTypes, ServerTypes, WireTypeOK, ClientTypeOK, ServerTypeOK
<1>1. ASSUME NEW c \in Clients, MainThread(c), UNCHANGED serverVars PROVE WritesInv'
  <2>1. UNCHANGED <<wireVars, status, writing, unsubmitted>>
    BY <1>1 DEF MainThread, QueueOperations, SubmitOperations, CreateStream, ResetHandle, ApplyStreamChanges, Stop, Join
  <2>. QED
    BY <1>1, <2>1
<1>2. ASSUME NEW c \in Clients, CommunicationThread(c) \/ ConnectFails(c), UNCHANGED serverVars
      PROVE  WritesInv'
  <2>1. CASE RunSubmit(c)
    <3>1. posted[c] \in Seq(Request \cup [op : {"close"}]) /\ posted[c] # << >>
      BY <2>1 DEF ClientTypes, ClientTypeOK, RunSubmit
    <3>2. Head(posted[c]) \in Request
      <4>1. Head(posted[c]) \in Request \cup [op : {"close"}]
        BY <3>1, HeadTailProperties
      <4>. QED
        BY <2>1, <4>1 DEF RunSubmit
    <3>3. unsubmitted'[c] # << >> /\ \A d \in Clients \ {c} : unsubmitted'[d] = unsubmitted[d]
      <4>1. Append(unsubmitted[c], Head(posted[c])) # << >>
        <5>1. unsubmitted[c] \in Seq(Request)
          BY <1>a
        <5>. QED
          BY <3>2, <5>1, Appended
      <4>. QED
        BY <1>a, <2>1, <4>1 DEF RunSubmit
    <3>4. CASE unsubmitted[c] = << >> /\ status[c] = "Connected"
      <4>1. StartWrite(c, Head(posted[c]))
        BY <2>1, <3>4 DEF RunSubmit
      <4>2. writing'[c] /\ \A d \in Clients \ {c} : writing'[d] = writing[d]
        BY <1>a, <4>1 DEF StartWrite
      <4>3. \A d \in Clients : link[d] = "connecting" => toServer'[d] = toServer[d]
        BY <4>1 DEF StartWrite, Written
      <4>4. link' = link /\ toClient' = toClient /\ status' = status
        BY <2>1, <4>1 DEF StartWrite, RunSubmit
      <4>. QED
        BY <1>2, <3>3, <3>4, <4>2, <4>3, <4>4
    <3>5. CASE ~(unsubmitted[c] = << >> /\ status[c] = "Connected")
      <4>1. UNCHANGED <<writing, wireVars, status>>
        BY <2>1, <3>5 DEF RunSubmit
      <4>. QED
        BY <1>2, <3>3, <3>5, <4>1
    <3>. QED
      BY <3>4, <3>5
  <2>2. CASE RunClose(c)
    BY <1>a, <1>2, <2>2 DEF RunClose, Breaks
  <2>3. CASE SocketConnected(c)
    BY <1>a, <1>2, <2>3 DEF SocketConnected
  <2>4. CASE ConnectFails(c)
    BY <1>a, <1>2, <2>4 DEF ConnectFails
  <2>5. CASE WriteDone(c)
    <3>1. unsubmitted[c] # << >> /\ unsubmitted[c] \in Seq(Request)
      BY <1>a, <2>5 DEF WriteDone
    <3>2. unsubmitted'[c] # << >> <=> Len(unsubmitted[c]) > 1
      BY <1>a, <2>5, <3>1, RestOfQueue DEF WriteDone
    <3>3. link' = link /\ toClient' = toClient /\ status' = status /\ link[c] = "open"
      BY <2>5 DEF WriteDone, StartWrite
    <3>4. (writing'[c] <=> Len(unsubmitted[c]) > 1) /\ \A d \in Clients \ {c} : writing'[d] = writing[d]
      <4>1. CASE Len(unsubmitted[c]) > 1
        <5>1. writing' = [writing EXCEPT ![c] = TRUE]
          BY <2>5, <4>1 DEF WriteDone, StartWrite
        <5>. QED
          BY <1>a, <4>1, <5>1
      <4>2. CASE ~(Len(unsubmitted[c]) > 1)
        <5>1. writing' = [writing EXCEPT ![c] = FALSE]
          BY <2>5, <4>2 DEF WriteDone
        <5>. QED
          BY <1>a, <4>2, <5>1
      <4>. QED
        BY <4>1, <4>2
    <3>5. \A d \in Clients : link[d] = "connecting" => toServer'[d] = toServer[d]
      <4>1. CASE Len(unsubmitted[c]) > 1
        <5>1. toServer' = Written(toServer, c, unsubmitted[c][2])
          BY <2>5, <4>1 DEF WriteDone, StartWrite
        <5>2. DOMAIN toServer = Clients
          BY <1>a
        <5>. QED
          BY <3>3, <5>1, <5>2, WrittenElsewhere
      <4>2. CASE ~(Len(unsubmitted[c]) > 1)
        BY <2>5, <4>2 DEF WriteDone
      <4>. QED
        BY <4>1, <4>2
    <3>6. \A d \in Clients \ {c} : unsubmitted'[d] = unsubmitted[d]
      BY <1>a, <2>5 DEF WriteDone
    <3>. QED
      BY <1>2, <3>2, <3>3, <3>4, <3>5, <3>6
  <2>6. CASE WriteFails(c)
    BY <1>a, <1>2, <2>6 DEF WriteFails
  <2>7. CASE ReceiveMessage(c) \/ ReceiveResults(c)
    <3>1. UNCHANGED <<commVars, link, toServer>> /\ toClient' = [toClient EXCEPT ![c] = Tail(@)]
          /\ toClient[c] # << >>
      <4>1. CASE ReceiveMessage(c)
        BY <4>1 DEF ReceiveMessage
      <4>2. CASE ReceiveResults(c)
        BY <4>2 DEF ReceiveResults
      <4>. QED
        BY <2>7, <4>1, <4>2
    <3>2. \A d \in Clients : toClient[d] = << >> => toClient'[d] = << >>
      BY <1>a, <3>1
    <3>. QED
      BY <1>a, <1>2, <3>1, <3>2
  <2>8. CASE ReadFails(c)
    BY <1>a, <1>2, <2>8 DEF ReadFails, RestIsLost
  <2>9. CASE IoServiceRunsOut(c)
    BY <1>2, <2>9 DEF IoServiceRunsOut
  <2>. QED
    BY <1>2, <2>1, <2>2, <2>3, <2>4, <2>5, <2>6, <2>7, <2>8, <2>9 DEF CommunicationThread
<1>3. ASSUME Server PROVE WritesInv'
  <2>1. ASSUME NEW c \in Clients, Accept(c) PROVE WritesInv'
    BY <1>3, <2>1 DEF Accept, Server
  <2>2. ASSUME NEW c \in Clients, RunCreateStream(c) \/ RunRemoveStream(c) \/ RunScheduleOperations(c)
        PROVE  WritesInv'
    BY <1>a, <1>3, <2>2 DEF RunCreateStream, RunRemoveStream, RunScheduleOperations, Reads, Server
  <2>3. ASSUME NEW c \in Clients, SessionReadFails(c) PROVE WritesInv'
    BY <1>a, <1>3, <2>3 DEF SessionReadFails, RestIsLost, Server
  <2>4. ASSUME NEW c \in Clients, SessionWriteDone(c) PROVE WritesInv'
    <3>1. outgoing[c] # << >> /\ outgoing[c] \in Seq(Reply)
      BY <1>a, <2>4 DEF SessionWriteDone
    <3>2. outgoing'[c] # << >> <=> Len(outgoing[c]) > 1
      BY <1>a, <2>4, <3>1, RestOfQueue DEF SessionWriteDone
    <3>3. link' = link /\ toServer' = toServer /\ link[c] = "open"
      BY <2>4 DEF SessionWriteDone
    <3>4. sending' = IF Len(outgoing[c]) > 1 THEN sending ELSE sending \ {c}
      BY <2>4 DEF SessionWriteDone
    <3>5. c \in sending
      BY <2>4 DEF SessionWriteDone
    <3>6. \A d \in Clients : link[d] = "connecting" => toClient'[d] = toClient[d]
      <4>1. CASE Len(outgoing[c]) > 1
        <5>1. toClient' = Written(toClient, c, outgoing[c][2])
          BY <2>4, <4>1 DEF SessionWriteDone
        <5>2. DOMAIN toClient = Clients
          BY <1>a
        <5>. QED
          BY <3>3, <5>1, <5>2, WrittenElsewhere
      <4>2. CASE ~(Len(outgoing[c]) > 1)
        BY <2>4, <4>2 DEF SessionWriteDone
      <4>. QED
        BY <4>1, <4>2
    <3>7. \A d \in Clients \ {c} : outgoing'[d] = outgoing[d]
      BY <1>a, <2>4 DEF SessionWriteDone
    <3>8. UNCHANGED <<status, writing, unsubmitted>>
      BY <1>3 DEF Server
    <3>. QED
      BY <3>2, <3>3, <3>4, <3>5, <3>6, <3>7, <3>8
  <2>5. ASSUME NEW c \in Clients, SessionWriteFails(c) PROVE WritesInv'
    BY <1>a, <1>3, <2>5 DEF SessionWriteFails, Server
  <2>6. ASSUME NEW messages \in [Clients -> Seq(Reply)], SendMessages(messages), UNCHANGED <<link, toServer>>
        PROVE  WritesInv'
    <3>1. UNCHANGED <<status, writing, unsubmitted>>
      BY <1>3 DEF Server
    <3>2. ASSUME NEW c \in Clients
          PROVE  /\ c \in sending' => outgoing'[c] # << >>
                 /\ link[c] \in {"connecting", "open"} /\ outgoing'[c] # << >> => c \in sending'
                 /\ link[c] = "connecting" => toClient'[c] = toClient[c]
      BY <2>6, SentWrites
    <3>. QED
      BY <2>6, <3>1, <3>2
  <2>7. CASE RunApply
    <3>. DEFINE messages == [c \in Clients |-> StreamMessages(c, pending)]
    <3>1. opened \in Seq(OpenedStream) /\ pending \in Seq(QueuedChange) /\ held \subseteq DOMAIN opened
      BY DEF ServerTypes, ServerTypeOK, OpenedStream, QueuedChange
    <3>2. messages \in [Clients -> Seq(Reply)]
      BY <3>1, StreamMessagesType
    <3>3. SendMessages(messages) /\ UNCHANGED <<link, toServer>>
      BY <2>7 DEF RunApply
    <3>. HIDE DEF messages
    <3>. QED
      BY <2>6, <3>2, <3>3
  <2>8. CASE RunAnswer
    <3>. DEFINE answer == Head(serverPosts)
                messages == [c \in Clients |-> IF c = answer.client /\ c \in receiving \cup sending
                               THEN <<TaskResults(answer.id, answer.results)>> ELSE << >>]
    <3>1. serverPosts \in Seq(Posting) /\ serverPosts # << >> /\ answer.op = "answer"
      BY <2>8 DEF RunAnswer, Posts, ServerTypes, ServerTypeOK, Posting
    <3>2. answer \in Posting
      BY <3>1, HeadTailProperties
    <3>3. answer.id \in Nat /\ answer.results \in Seq(Status)
      BY <3>1, <3>2 DEF Posting
    <3>4. TaskResults(answer.id, answer.results) \in Reply
      BY <3>3 DEF TaskResults, Reply
    <3>5. messages \in [Clients -> Seq(Reply)]
      <4>1. <<TaskResults(answer.id, answer.results)>> \in Seq(Reply) /\ << >> \in Seq(Reply)
        BY <3>4, EmptySeq
      <4>. QED
        BY <4>1
    <3>6. SendMessages(messages) /\ UNCHANGED <<link, toServer>>
      BY <2>8 DEF RunAnswer
    <3>. HIDE DEF messages
    <3>. QED
      BY <2>6, <3>5, <3>6
  <2>9. CASE ExecuteBatch \/ \E s \in ServerStreams : StartStream(s)
    BY <1>3, <2>9 DEF ExecuteBatch, StartStream, Server
  <2>10. CASE StopServer
    BY <1>3, <2>10 DEF StopServer, Server
  <2>11. CASE RunCloseServer
    <3>1. UNCHANGED <<status, writing, unsubmitted, toClient, outgoing, sending>>
      BY <1>3, <2>11 DEF Server, RunCloseServer
    <3>2. link' = [c \in Clients |-> CASE link[c] = "connecting"                -> "refused"
                                      [] link[c] = "open" /\ c \notin late'     -> "broken"
                                      [] link[c] = "open" /\ c \in late'        -> "open"
                                      [] link[c] \in {"refused", "broken"}      -> link[c]]
      BY <2>11 DEF RunCloseServer
    <3>3. ASSUME NEW c \in Clients
          PROVE  link'[c] \in {"refused", "broken", "open"} /\ (link'[c] = "open" => link[c] = "open")
                 /\ (link[c] \in {"connecting", "refused"} => link'[c] = "refused")
      <4>1. link[c] \in {"connecting", "refused", "open", "broken"}
        BY <1>a
      <4>. QED
        BY <3>2, <4>1
    <3>. QED
      BY <3>1, <3>3
  <2>12. CASE ServiceEnds
    BY <1>a, <1>3, <2>12, EndsKeep DEF Server, AllBreak
  <2>. QED
    BY <1>3, <2>1, <2>2, <2>3, <2>4, <2>5, <2>7, <2>8, <2>9, <2>10, <2>11, <2>12
    DEF Server, ServerThread, BackendThread, Handlers, ServiceEnds
<1>4. ASSUME NEW c \in Clients, Disconnect(c) PROVE WritesInv'
  BY <1>a, <1>4 DEF Disconnect, Breaks
<1>5. CASE UNCHANGED vars
  BY <1>5
<1>. QED
  BY <1>1, <1>2, <1>3, <1>4, <1>5 DEF Next, Client, Network, Terminated

-----------------------------------------------------------------------------
(* What a client asks for is on its way in order *)

\* What a client asks for which has not reached the server's session: on the wire, and, unless the
\* connection is gone, what waits to be written and what is posted.
Waiting(c) == IF writing[c] THEN Tail(unsubmitted[c]) ELSE unsubmitted[c]

OnTheWay(c) ==
  toServer[c] \o (IF link[c] \in {"connecting", "open"} THEN Waiting(c) \o posted[c] ELSE << >>)

\* The messages of a kind are numbered in order.
Numbered(messages, op) ==
  \A i, j \in DOMAIN messages :
    i < j /\ messages[i].op = op /\ messages[j].op = op => messages[i].id < messages[j].id

\* What is left of a list which loses elements at its ends.
Shrinks(old, new) ==
  \E k \in Nat : \A i \in DOMAIN new : i \in Nat /\ i + k \in DOMAIN old /\ new[i] = old[i + k]

Posted == Request \cup [op : {"close"}]

\* A list that stays as it is.
LEMMA SameShrinks == \A S : \A seq \in Seq(S) : Shrinks(seq, seq)
<1>. SUFFICES ASSUME NEW S, NEW seq \in Seq(S) PROVE Shrinks(seq, seq)
  OBVIOUS
<1>1. DOMAIN seq = 1 .. Len(seq) /\ Len(seq) \in Nat
  BY LenProperties
<1>2. \A i \in DOMAIN seq : i \in Nat /\ i + 0 \in DOMAIN seq /\ seq[i] = seq[i + 0]
  BY <1>1
<1>. QED
  BY <1>2 DEF Shrinks

\* A list whose first part and whose rest may have lost their ends.
LEMMA FirstPartShrinks ==
  ASSUME NEW S, NEW s \in Seq(S), NEW t \in Seq(S)
  PROVE  Shrinks(s \o t, s)
<1>1. /\ Len(s) \in Nat /\ Len(t) \in Nat /\ DOMAIN s = 1 .. Len(s)
      /\ s \o t \in Seq(S) /\ Len(s \o t) = Len(s) + Len(t)
      /\ \A i \in 1 .. Len(s) + Len(t) : (s \o t)[i] = IF i <= Len(s) THEN s[i] ELSE t[i - Len(s)]
  BY ConcatProperties, LenProperties
<1>2. DOMAIN (s \o t) = 1 .. Len(s) + Len(t)
  BY <1>1, LenProperties
<1>3. \A i \in DOMAIN s : i \in Nat /\ i + 0 \in DOMAIN (s \o t) /\ s[i] = (s \o t)[i + 0]
  BY <1>1, <1>2
<1>. QED
  BY <1>3 DEF Shrinks

\* A list whose first part loses its first element.
LEMMA RestShrinks ==
  ASSUME NEW S, NEW s \in Seq(S), s # << >>, NEW t \in Seq(S)
  PROVE  /\ Shrinks(s \o t, Tail(s) \o t)
         /\ (s \o t)[1] = Head(s) /\ DOMAIN (s \o t) = 1 .. Len(s \o t) /\ Len(s \o t) \in Nat \ {0}
         /\ \A i \in DOMAIN (Tail(s) \o t) : i + 1 \in DOMAIN (s \o t) /\ (Tail(s) \o t)[i] = (s \o t)[i + 1]
                                             /\ i \in Nat \ {0}
<1>1. /\ Len(s) \in Nat /\ Len(s) # 0 /\ Len(t) \in Nat
      /\ s \o t \in Seq(S) /\ Len(s \o t) = Len(s) + Len(t)
      /\ \A i \in 1 .. Len(s) + Len(t) : (s \o t)[i] = IF i <= Len(s) THEN s[i] ELSE t[i - Len(s)]
  BY ConcatProperties, LenProperties, EmptySeq
<1>2. DOMAIN (s \o t) = 1 .. Len(s) + Len(t)
  BY <1>1, LenProperties
<1>3. Tail(s) \in Seq(S) /\ Len(Tail(s)) = Len(s) - 1 /\ \A i \in 1 .. Len(s) - 1 : Tail(s)[i] = s[i + 1]
  BY HeadTailProperties
<1>. DEFINE r == Tail(s)
<1>4. /\ r \o t \in Seq(S) /\ Len(r \o t) = Len(r) + Len(t)
      /\ \A i \in 1 .. Len(r) + Len(t) : (r \o t)[i] = IF i <= Len(r) THEN r[i] ELSE t[i - Len(r)]
  <2>. HIDE DEF r
  <2>1. r \in Seq(S)
    BY <1>3 DEF r
  <2>. QED
    BY <2>1, ConcatProperties
<1>5. DOMAIN (r \o t) = 1 .. Len(r) + Len(t)
  <2>. HIDE DEF r
  <2>. QED
    BY <1>4, LenProperties
<1>6. ASSUME NEW i \in 1 .. Len(r) + Len(t)
      PROVE  i + 1 \in DOMAIN (s \o t) /\ (r \o t)[i] = (s \o t)[i + 1] /\ i \in Nat \ {0}
  <2>1. i + 1 \in 1 .. Len(s) + Len(t) /\ i \in Nat \ {0}
    BY <1>1, <1>3
  <2>2. CASE i <= Len(r)
    <3>1. (r \o t)[i] = s[i + 1] /\ i + 1 <= Len(s)
      BY <1>1, <1>3, <1>4, <2>2
    <3>2. (s \o t)[i + 1] = s[i + 1]
      BY <1>1, <2>1, <3>1
    <3>. QED
      BY <1>2, <2>1, <3>1, <3>2
  <2>3. CASE ~(i <= Len(r))
    <3>1. (r \o t)[i] = t[i - Len(r)] /\ ~(i + 1 <= Len(s)) /\ i - Len(r) = (i + 1) - Len(s)
      BY <1>1, <1>3, <1>4, <2>3
    <3>2. (s \o t)[i + 1] = t[(i + 1) - Len(s)]
      BY <1>1, <2>1, <3>1
    <3>. QED
      BY <1>2, <2>1, <3>1, <3>2
  <2>. QED
    BY <2>2, <2>3
<1>7. Shrinks(s \o t, r \o t)
  <2>. HIDE DEF r
  <2>. QED
    BY <1>5, <1>6 DEF Shrinks
<1>8. (s \o t)[1] = Head(s)
  BY <1>1, HeadAndRest
<1>. QED
  BY <1>1, <1>2, <1>5, <1>6, <1>7, <1>8

\* A list that shrinks keeps its order and what is true of each of its elements.
LEMMA ShrinksNumbered ==
  ASSUME NEW old, NEW new, Shrinks(old, new), NEW op, Numbered(old, op)
  PROVE  Numbered(new, op)
<1>1. PICK k \in Nat : \A i \in DOMAIN new : i \in Nat /\ i + k \in DOMAIN old /\ new[i] = old[i + k]
  BY DEF Shrinks
<1>. SUFFICES ASSUME NEW i \in DOMAIN new, NEW j \in DOMAIN new, i < j, new[i].op = op, new[j].op = op
              PROVE  new[i].id < new[j].id
  BY DEF Numbered
<1>3. i + k \in DOMAIN old /\ j + k \in DOMAIN old /\ i + k < j + k
  BY <1>1
<1>. QED
  BY <1>1, <1>3 DEF Numbered

\* What is appended with a greater number keeps the order.
LEMMA AppendedNumbered ==
  ASSUME NEW S, NEW old \in Seq(S), NEW message \in S, NEW op, Numbered(old, op),
         message.op = op => \A i \in DOMAIN old : old[i].op = op => old[i].id < message.id
  PROVE  Numbered(Append(old, message), op)
<1>. DEFINE new == Append(old, message)
<1>1. /\ new \in Seq(S) /\ Len(old) \in Nat /\ DOMAIN old = 1 .. Len(old)
      /\ DOMAIN new = DOMAIN old \cup {Len(old) + 1}
      /\ \A i \in 1 .. Len(old) : new[i] = old[i]
      /\ new[Len(old) + 1] = message
  BY Appended, LenProperties
<1>. HIDE DEF new
<1>2. ASSUME NEW i \in DOMAIN new, NEW j \in DOMAIN new, i < j, new[i].op = op, new[j].op = op
      PROVE  new[i].id < new[j].id
  <2>1. CASE j = Len(old) + 1
    <3>1. i \in DOMAIN old /\ new[i] = old[i] /\ new[j] = message
      BY <1>1, <1>2, <2>1
    <3>. QED
      BY <1>2, <3>1
  <2>2. CASE j # Len(old) + 1
    <3>1. i \in DOMAIN old /\ j \in DOMAIN old /\ new[i] = old[i] /\ new[j] = old[j]
      BY <1>1, <1>2, <2>2
    <3>. QED
      BY <1>2, <3>1 DEF Numbered
  <2>. QED
    BY <2>1, <2>2
<1>. QED
  BY <1>2 DEF Numbered, new

\* What is on the way are messages, and at most a request to close.
LEMMA WayType ==
  ASSUME ClientTypes, WritesInv, NEW c \in Clients
  PROVE  /\ Waiting(c) \in Seq(Posted) /\ posted[c] \in Seq(Posted) /\ toServer[c] \in Seq(Posted)
         /\ Waiting(c) \o posted[c] \in Seq(Posted)
         /\ OnTheWay(c) \in Seq(Posted)
<1>1. /\ unsubmitted[c] \in Seq(Request) /\ toServer[c] \in Seq(Request) /\ posted[c] \in Seq(Posted)
      /\ writing[c] => unsubmitted[c] # << >>
  BY DEF ClientTypes, ClientTypeOK, WireTypeOK, WritesInv, Posted
<1>2. Request \subseteq Posted
  BY DEF Posted
<1>3. toServer[c] \in Seq(Posted)
  BY <1>1, <1>2, SeqMonotonic
<1>4. Waiting(c) \in Seq(Posted)
  <2>1. Waiting(c) \in Seq(Request)
    <3>1. CASE writing[c]
      BY <1>1, <3>1, HeadTailProperties DEF Waiting
    <3>2. CASE ~writing[c]
      BY <1>1, <3>2 DEF Waiting
    <3>. QED
      BY <3>1, <3>2
  <2>. QED
    BY <1>2, <2>1, SeqMonotonic
<1>5. Waiting(c) \o posted[c] \in Seq(Posted) /\ << >> \in Seq(Posted)
  BY <1>1, <1>4, ConcatProperties, EmptySeq
<1>6. OnTheWay(c) \in Seq(Posted)
  <2>1. CASE link[c] \in {"connecting", "open"}
    BY <1>3, <1>5, <2>1, ConcatProperties DEF OnTheWay
  <2>2. CASE link[c] \notin {"connecting", "open"}
    BY <1>3, <1>5, <2>2, ConcatProperties DEF OnTheWay
  <2>. QED
    BY <2>1, <2>2
<1>. QED
  BY <1>1, <1>3, <1>4, <1>5, <1>6

\* An element may be taken from the head of one list to the end of the one before it.
Moves(e, s, t, u) ==
  /\ Append(s, e) \o (t \o u) = s \o ((<<e>> \o t) \o u)
  /\ s \o (Append(t, e) \o u) = s \o (t \o (<<e>> \o u))

\* So may every element.
LEMMA Moved ==
  ASSUME NEW S, NEW e \in S, NEW s \in Seq(S), NEW t \in Seq(S), NEW u \in Seq(S)
  PROVE  Moves(e, s, t, u)
<1>1. <<e>> \in Seq(S)
  OBVIOUS
<1>2. Append(s, e) = s \o <<e>> /\ Append(t, e) = t \o <<e>>
  BY AppendIsConcat
<1>3. /\ <<e>> \o t \in Seq(S) /\ t \o u \in Seq(S) /\ <<e>> \o u \in Seq(S)
      /\ s \o <<e>> \in Seq(S) /\ t \o <<e>> \in Seq(S)
  BY <1>1, ConcatProperties
<1>4. (s \o <<e>>) \o (t \o u) = s \o (<<e>> \o (t \o u))
  BY <1>1, <1>3, ConcatAssociative, SMTT(20)
<1>5. <<e>> \o (t \o u) = (<<e>> \o t) \o u
  BY <1>1, ConcatAssociative, SMTT(20)
<1>6. (t \o <<e>>) \o u = t \o (<<e>> \o u)
  BY <1>1, ConcatAssociative, SMTT(20)
<1>. QED
  BY <1>2, <1>4, <1>5, <1>6 DEF Moves

\* An element put at the end of the second part is put at the end.
LEMMA ConcatAppended ==
  ASSUME NEW S, NEW s \in Seq(S), NEW t \in Seq(S), NEW e \in S
  PROVE  s \o Append(t, e) = Append(s \o t, e)
<1>1. <<e>> \in Seq(S) /\ s \o t \in Seq(S)
  BY ConcatProperties
<1>2. Append(t, e) = t \o <<e>> /\ Append(s \o t, e) = (s \o t) \o <<e>>
  BY <1>1, AppendIsConcat
<1>. QED
  BY <1>1, <1>2, ConcatAssociative, SMTT(20)

\* A list is its head and its tail.
LEMMA HeadAndTail ==
  ASSUME NEW S, NEW s \in Seq(S), s # << >>
  PROVE  Head(s) \in S /\ Tail(s) \in Seq(S) /\ s = <<Head(s)>> \o Tail(s)
<1>. DEFINE h == Head(s)
            r == Tail(s)
<1>1. /\ h \in S /\ r \in Seq(S) /\ Len(s) \in Nat /\ Len(s) # 0 /\ h = s[1]
      /\ Len(r) = Len(s) - 1 /\ \A i \in 1 .. Len(s) - 1 : r[i] = s[i + 1]
  BY HeadTailProperties, HeadAndRest, LenProperties
<1>. HIDE DEF h, r
<1>2. <<h>> \in Seq(S) /\ Len(<<h>>) = 1 /\ <<h>>[1] = h
  BY <1>1
<1>3. /\ <<h>> \o r \in Seq(S) /\ Len(<<h>> \o r) = Len(s)
      /\ \A i \in 1 .. 1 + Len(r) : (<<h>> \o r)[i] = IF i <= 1 THEN <<h>>[i] ELSE r[i - 1]
  BY <1>1, <1>2, ConcatProperties
<1>4. ASSUME NEW i \in 1 .. Len(s) PROVE s[i] = (<<h>> \o r)[i]
  <2>1. CASE i = 1
    BY <1>1, <1>2, <1>3, <2>1
  <2>2. CASE i # 1
    <3>1. i - 1 \in 1 .. Len(s) - 1 /\ (i - 1) + 1 = i /\ i \in 1 .. 1 + Len(r) /\ ~(i <= 1)
      BY <1>1, <2>2
    <3>. QED
      BY <1>1, <1>3, <3>1
  <2>. QED
    BY <2>1, <2>2
<1>5. s = <<h>> \o r
  BY <1>3, <1>4, SeqEqual
<1>. QED
  BY <1>1, <1>5 DEF h, r

\* A message that is posted comes last, or, if the connection is gone, not at all.
LEMMA PostedWay ==
  ASSUME ClientTypes, WritesInv, NEW c \in Clients, NEW message \in Posted, Post(c, message),
         UNCHANGED <<link, toServer, writing, unsubmitted>>
  PROVE  /\ Shrinks(Append(OnTheWay(c), message), OnTheWay(c)')
         /\ \A d \in Clients : d # c => OnTheWay(d)' = OnTheWay(d)
<1>1. /\ Waiting(c) \in Seq(Posted) /\ posted[c] \in Seq(Posted) /\ toServer[c] \in Seq(Posted)
      /\ Waiting(c) \o posted[c] \in Seq(Posted)
      /\ OnTheWay(c) \in Seq(Posted)
  BY WayType
<1>2. \A d \in Clients : posted'[d] = IF d = c THEN Append(posted[c], message) ELSE posted[d]
  BY DEF Post, ClientTypes, ClientTypeOK
<1>3. \A d \in Clients : Waiting(d)' = Waiting(d)
  BY DEF Waiting
<1>4. CASE link[c] \in {"connecting", "open"}
  <2>0. \A s, r \in Seq(Posted) : s \o Append(r, message) = Append(s \o r, message)
    BY ConcatAppended
  <2>1. OnTheWay(c)' = toServer[c] \o (Waiting(c) \o Append(posted[c], message))
    BY <1>2, <1>3, <1>4 DEF OnTheWay
  <2>2. Waiting(c) \o Append(posted[c], message) = Append(Waiting(c) \o posted[c], message)
    BY <1>1, <2>0
  <2>3. toServer[c] \o Append(Waiting(c) \o posted[c], message) = Append(toServer[c] \o (Waiting(c) \o posted[c]), message)
    BY <1>1, <2>0
  <2>4. OnTheWay(c)' = Append(OnTheWay(c), message)
    BY <1>4, <2>1, <2>2, <2>3 DEF OnTheWay
  <2>5. Append(OnTheWay(c), message) \in Seq(Posted)
    BY <1>1, AppendProperties
  <2>. QED
    BY <1>2, <1>3, <2>4, <2>5, SameShrinks DEF OnTheWay
<1>5. CASE link[c] \notin {"connecting", "open"}
  <2>1. OnTheWay(c)' = OnTheWay(c)
    BY <1>5 DEF OnTheWay
  <2>2. Append(OnTheWay(c), message) = OnTheWay(c) \o <<message>> /\ <<message>> \in Seq(Posted)
    BY <1>1, AppendIsConcat
  <2>3. Shrinks(Append(OnTheWay(c), message), OnTheWay(c))
    BY <1>1, <2>2, FirstPartShrinks
  <2>. QED
    BY <1>2, <1>3, <2>1, <2>3 DEF OnTheWay
<1>. QED
  BY <1>4, <1>5

\* A client whose connection is gone has only on its way what is on the wire.
LEMMA LostWay ==
  ASSUME ClientTypes, WritesInv, NEW c \in Clients
  PROVE  /\ link[c] \notin {"connecting", "open"} => OnTheWay(c) = toServer[c]
         /\ Shrinks(OnTheWay(c), toServer[c])
         /\ Shrinks(OnTheWay(c), OnTheWay(c))
<1>1. /\ toServer[c] \in Seq(Posted) /\ Waiting(c) \o posted[c] \in Seq(Posted) /\ << >> \in Seq(Posted)
      /\ OnTheWay(c) \in Seq(Posted)
  BY WayType, EmptySeq
<1>2. toServer[c] \o << >> = toServer[c]
  BY <1>1, ConcatEmptySeq
<1>3. Shrinks(OnTheWay(c), toServer[c])
  BY <1>1, FirstPartShrinks DEF OnTheWay
<1>. QED
  BY <1>1, <1>2, <1>3, SameShrinks DEF OnTheWay

\* A step which leaves a client's connection and queues alone.
LEMMA SameWay ==
  ASSUME NEW d \in Clients,
         link'[d] = link[d], toServer'[d] = toServer[d], writing'[d] = writing[d],
         unsubmitted'[d] = unsubmitted[d], posted'[d] = posted[d]
  PROVE  OnTheWay(d)' = OnTheWay(d)
BY DEF OnTheWay, Waiting

\* Whatever the communication thread does, messages keep their places until the connection ends.
LEMMA CommunicationWay ==
  ASSUME ClientTypes, WritesInv, NEW c \in Clients, CommunicationThread(c) \/ ConnectFails(c)
  PROVE  \A d \in Clients : Shrinks(OnTheWay(d), OnTheWay(d)')
<1>. USE DEF commVars, wireVars
<1>a. /\ link \in [Clients -> {"connecting", "refused", "open", "broken"}]
      /\ toServer \in [Clients -> Seq(Request)] /\ writing \in [Clients -> BOOLEAN]
      /\ unsubmitted \in [Clients -> Seq(Request)] /\ posted \in [Clients -> Seq(Posted)]
  BY DEF ClientTypes, WireTypeOK, ClientTypeOK, Posted
<1>b. /\ Waiting(c) \in Seq(Posted) /\ posted[c] \in Seq(Posted) /\ toServer[c] \in Seq(Posted)
      /\ OnTheWay(c) \in Seq(Posted) /\ << >> \in Seq(Posted)
  BY WayType, EmptySeq
<1>c. Request \subseteq Posted
  BY DEF Posted
<1>d. \A d \in Clients : Shrinks(OnTheWay(d), OnTheWay(d)) /\ Shrinks(OnTheWay(d), toServer[d])
  BY LostWay
<1>e. ASSUME OnTheWay(c)' = OnTheWay(c) \/ OnTheWay(c)' = toServer[c],
             \A d \in Clients \ {c} : /\ link'[d] = link[d] /\ toServer'[d] = toServer[d] /\ writing'[d] = writing[d]
                                      /\ unsubmitted'[d] = unsubmitted[d] /\ posted'[d] = posted[d]
      PROVE  \A d \in Clients : Shrinks(OnTheWay(d), OnTheWay(d)')
  <2>1. \A d \in Clients \ {c} : OnTheWay(d)' = OnTheWay(d)
    BY <1>e, SameWay
  <2>. QED
    BY <1>d, <1>e, <2>1
<1>f. ASSUME UNCHANGED <<toServer, posted, unsubmitted>>, link'[c] \in {"refused", "broken"},
             \A d \in Clients \ {c} : link'[d] = link[d] /\ writing'[d] = writing[d]
      PROVE  \A d \in Clients : Shrinks(OnTheWay(d), OnTheWay(d)')
  <2>1. OnTheWay(c)' = toServer[c] \o << >>
    BY <1>f DEF OnTheWay
  <2>2. OnTheWay(c)' = toServer[c]
    BY <1>b, <2>1, ConcatEmptySeq
  <2>. QED
    BY <1>e, <1>f, <2>2
<1>h. \A s, t, u \in Seq(Posted) : (s \o t) \o u = s \o (t \o u)
  BY ConcatAssociative, SMTT(20)
<1>1. CASE RunSubmit(c)
  <2>. DEFINE h == Head(posted[c])
              r == Tail(posted[c])
  <2>1. /\ h \in Request /\ r \in Seq(Posted) /\ posted[c] = <<h>> \o r
        /\ posted'[c] = r /\ unsubmitted'[c] = Append(unsubmitted[c], h)
    <3>1. posted[c] # << >> /\ h.op # "close"
      BY <1>1 DEF RunSubmit
    <3>2. h \in Posted /\ r \in Seq(Posted) /\ posted[c] = <<h>> \o r
      BY <1>b, <3>1, HeadAndTail
    <3>. QED
      BY <1>1, <1>a, <3>1, <3>2 DEF RunSubmit, Posted
  <2>2. h \in Posted
    BY <1>c, <2>1
  <2>3. \A d \in Clients \ {c} : unsubmitted'[d] = unsubmitted[d] /\ posted'[d] = posted[d]
    BY <1>1, <1>a DEF RunSubmit
  <2>. HIDE DEF h, r
  <2>4. CASE unsubmitted[c] = << >> /\ status[c] = "Connected"
    <3>1. StartWrite(c, h)
      BY <1>1, <2>4 DEF RunSubmit, h
    <3>2. /\ link' = link /\ writing' = [writing EXCEPT ![c] = TRUE] /\ toServer' = Written(toServer, c, h)
      BY <3>1 DEF StartWrite
    <3>3. \A d \in Clients \ {c} : toServer'[d] = toServer[d] /\ writing'[d] = writing[d]
      <4>1. DOMAIN toServer = Clients
        BY <1>a
      <4>. QED
        BY <1>a, <3>2, <4>1, WrittenElsewhere
    <3>4. OnTheWay(c)' = OnTheWay(c)
      <4>1. ~writing[c] /\ Waiting(c) = << >> /\ link[c] # "connecting"
        BY <2>4 DEF WritesInv, Waiting
      <4>2. Waiting(c)' = << >>
        <5>1. Waiting(c)' = Tail(Append(<< >>, h))
          BY <1>a, <2>1, <2>4, <3>2 DEF Waiting
        <5>2. << >> \in Seq(Request)
          BY EmptySeq
        <5>. QED
          BY <2>1, <5>1, <5>2, HeadTailAppend
      <4>3. CASE link[c] = "open"
        <5>1. toServer'[c] = Append(toServer[c], h)
          BY <1>a, <3>2, <4>3 DEF Written
        <5>2. OnTheWay(c)' = Append(toServer[c], h) \o (<< >> \o r)
          BY <2>1, <3>2, <4>2, <4>3, <5>1 DEF OnTheWay
        <5>3. OnTheWay(c) = toServer[c] \o (<< >> \o (<<h>> \o r))
          BY <2>1, <4>1, <4>3 DEF OnTheWay
        <5>4. Append(toServer[c], h) \o (<< >> \o r) = toServer[c] \o ((<<h>> \o << >>) \o r)
          <6>1. toServer[c] \in Seq(Posted) /\ << >> \in Seq(Posted) /\ r \in Seq(Posted)
            BY <1>b, <2>1, EmptySeq
          <6>. HIDE DEF h, r, Posted
          <6>2. Moves(h, toServer[c], << >>, r)
            BY <2>2, <6>1, Moved
          <6>. QED
            BY <6>2 DEF Moves
        <5>5. <<h>> \o << >> = <<h>> /\ <<h>> \o r \in Seq(Posted) /\ << >> \o (<<h>> \o r) = <<h>> \o r
          <6>1. <<h>> \in Seq(Posted)
            BY <2>2
          <6>2. <<h>> \o r \in Seq(Posted)
            BY <2>1, <6>1, ConcatProperties
          <6>. QED
            BY <6>1, <6>2, ConcatEmptySeq
        <5>. QED
          BY <5>2, <5>3, <5>4, <5>5
      <4>4. CASE link[c] # "open"
        BY <3>2, <4>1, <4>4 DEF OnTheWay, Written
      <4>. QED
        BY <4>3, <4>4
    <3>. QED
      BY <1>e, <2>3, <3>2, <3>3, <3>4
  <2>5. CASE ~(unsubmitted[c] = << >> /\ status[c] = "Connected")
    <3>1. UNCHANGED <<writing, link, toServer>>
      BY <1>1, <2>5 DEF RunSubmit
    <3>2. Waiting(c)' = Append(Waiting(c), h)
      <4>1. CASE writing[c]
        <5>1. unsubmitted[c] # << >> /\ unsubmitted[c] \in Seq(Request)
          BY <1>a, <4>1 DEF WritesInv
        <5>2. Tail(Append(unsubmitted[c], h)) = Append(Tail(unsubmitted[c]), h)
          BY <2>1, <5>1, HeadTailAppend
        <5>. QED
          BY <2>1, <3>1, <4>1, <5>2 DEF Waiting
      <4>2. CASE ~writing[c]
        BY <2>1, <3>1, <4>2 DEF Waiting
      <4>. QED
        BY <4>1, <4>2
    <3>3. OnTheWay(c)' = OnTheWay(c)
      <4>1. toServer[c] \o (Append(Waiting(c), h) \o r) = toServer[c] \o (Waiting(c) \o (<<h>> \o r))
        <5>1. toServer[c] \in Seq(Posted) /\ Waiting(c) \in Seq(Posted) /\ r \in Seq(Posted)
          BY <1>b, <2>1
        <5>. HIDE DEF h, r, Posted
        <5>2. Moves(h, toServer[c], Waiting(c), r)
          BY <2>2, <5>1, Moved
        <5>. QED
          BY <5>2 DEF Moves
      <4>. QED
        BY <2>1, <3>1, <3>2, <4>1 DEF OnTheWay
    <3>. QED
      BY <1>e, <2>3, <3>1, <3>3
  <2>. QED
    BY <2>4, <2>5
<1>2. CASE RunClose(c)
  <2>1. /\ link'[c] \in {"refused", "broken"} /\ \A d \in Clients \ {c} : link'[d] = link[d]
        /\ toServer' = toServer
    BY <1>2, <1>a DEF RunClose, Breaks
  <2>2. OnTheWay(c)' = toServer[c] \o << >>
    BY <2>1 DEF OnTheWay
  <2>3. OnTheWay(c)' = toServer[c]
    BY <1>b, <2>2, ConcatEmptySeq
  <2>4. \A d \in Clients \ {c} : /\ writing'[d] = writing[d] /\ unsubmitted'[d] = unsubmitted[d]
                                 /\ posted'[d] = posted[d]
    BY <1>2, <1>a DEF RunClose
  <2>. QED
    BY <1>e, <2>1, <2>3, <2>4
<1>3. CASE SocketConnected(c)
  <2>1. /\ link[c] = "connecting" /\ link'[c] = "open" /\ \A d \in Clients \ {c} : link'[d] = link[d]
        /\ UNCHANGED <<posted, unsubmitted>> /\ toServer[c] = << >> /\ ~writing[c]
    BY <1>3, <1>a DEF SocketConnected, WritesInv
  <2>2. CASE unsubmitted[c] # << >>
    <3>. DEFINE h == Head(unsubmitted[c])
                r == Tail(unsubmitted[c])
    <3>1. h \in Posted /\ r \in Seq(Posted) /\ unsubmitted[c] = <<h>> \o r
      <4>1. unsubmitted[c] \in Seq(Posted)
        BY <1>a, <1>c, SeqMonotonic
      <4>. QED
        BY <2>2, <4>1, HeadAndTail
    <3>2. /\ writing' = [writing EXCEPT ![c] = TRUE] /\ toServer' = [toServer EXCEPT ![c] = <<h>>]
      BY <1>3, <2>2 DEF SocketConnected
    <3>. HIDE DEF h
    <3>3. OnTheWay(c)' = <<h>> \o (r \o posted[c])
      BY <1>a, <2>1, <3>2 DEF OnTheWay, Waiting
    <3>. HIDE DEF r
    <3>4. OnTheWay(c) = << >> \o ((<<h>> \o r) \o posted[c])
      BY <2>1, <3>1 DEF OnTheWay, Waiting
    <3>5. <<h>> \in Seq(Posted) /\ (<<h>> \o r) \o posted[c] = <<h>> \o (r \o posted[c])
      <4>1. <<h>> \in Seq(Posted)
        BY <3>1
      <4>. QED
        BY <1>b, <1>h, <3>1, <4>1
    <3>6. <<h>> \o (r \o posted[c]) \in Seq(Posted)
      BY <1>b, <3>1, <3>5, ConcatProperties
    <3>7. OnTheWay(c)' = OnTheWay(c)
      BY <3>3, <3>4, <3>5, <3>6, ConcatEmptySeq
    <3>8. \A d \in Clients \ {c} : toServer'[d] = toServer[d] /\ writing'[d] = writing[d]
      BY <1>a, <3>2
    <3>. QED
      BY <1>e, <2>1, <3>7, <3>8
  <2>3. CASE unsubmitted[c] = << >>
    <3>1. UNCHANGED <<writing, toServer>>
      BY <1>3, <2>3 DEF SocketConnected
    <3>2. OnTheWay(c)' = OnTheWay(c)
      BY <2>1, <3>1 DEF OnTheWay, Waiting
    <3>. QED
      BY <1>e, <2>1, <3>1, <3>2
  <2>. QED
    BY <2>2, <2>3
<1>4. CASE ConnectFails(c)
  BY <1>4, <1>a, <1>f DEF ConnectFails
<1>5. CASE WriteDone(c)
  <2>1. /\ link[c] = "open" /\ writing[c] /\ UNCHANGED <<link, posted>>
        /\ unsubmitted[c] # << >> /\ unsubmitted[c] \in Seq(Request)
        /\ unsubmitted' = [unsubmitted EXCEPT ![c] = Tail(@)]
    BY <1>5, <1>a DEF WriteDone, StartWrite, WritesInv
  <2>. DEFINE q == Tail(unsubmitted[c])
  <2>2. q \in Seq(Request) /\ q \in Seq(Posted) /\ Waiting(c) = q /\ unsubmitted'[c] = q
    <3>1. q \in Seq(Request)
      BY <2>1, HeadTailProperties
    <3>2. q \in Seq(Posted)
      <4>. HIDE DEF q
      <4>. QED
        BY <1>c, <3>1, SeqMonotonic
    <3>. QED
      BY <1>a, <2>1, <3>1, <3>2 DEF Waiting
  <2>3. CASE Len(unsubmitted[c]) > 1
    <3>. DEFINE h == unsubmitted[c][2]
                r == Tail(q)
    <3>1. q # << >> /\ h = Head(q)
      <4>1. q # << >>
        BY <2>1, <2>3, RestOfQueue
      <4>2. Head(q) = q[1]
        <5>. HIDE DEF q
        <5>. QED
          BY <2>2, <4>1, HeadAndRest
      <4>3. q[1] = unsubmitted[c][2]
        <5>1. Len(unsubmitted[c]) \in Nat /\ \A i \in 1 .. Len(unsubmitted[c]) - 1 : q[i] = unsubmitted[c][i + 1]
          BY <2>1, HeadAndRest
        <5>2. 1 \in 1 .. Len(unsubmitted[c]) - 1 /\ 1 + 1 = 2
          BY <2>3, <5>1
        <5>. QED
          BY <5>1, <5>2
      <4>. QED
        BY <4>1, <4>2, <4>3
    <3>2. h \in Posted /\ r \in Seq(Posted) /\ q = <<h>> \o r
      <4>. HIDE DEF q, h
      <4>. QED
        BY <2>2, <3>1, HeadAndTail
    <3>3. writing' = [writing EXCEPT ![c] = TRUE] /\ toServer' = Written(toServer, c, h)
      BY <1>5, <2>3 DEF WriteDone, StartWrite
    <3>4. \A d \in Clients \ {c} : toServer'[d] = toServer[d] /\ writing'[d] = writing[d]
      <4>1. DOMAIN toServer = Clients
        BY <1>a
      <4>. QED
        BY <1>a, <3>3, <4>1, WrittenElsewhere
    <3>5. toServer'[c] = Append(toServer[c], h) /\ Waiting(c)' = r
      BY <1>a, <2>1, <2>2, <3>3 DEF Written, Waiting
    <3>6. OnTheWay(c)' = OnTheWay(c)
      <4>. HIDE DEF q, h, r
      <4>1. Append(toServer[c], h) \o (r \o posted[c]) = toServer[c] \o ((<<h>> \o r) \o posted[c])
        <5>1. toServer[c] \in Seq(Posted) /\ r \in Seq(Posted) /\ posted[c] \in Seq(Posted)
          BY <1>b, <3>2
        <5>. HIDE DEF Posted
        <5>2. Moves(h, toServer[c], r, posted[c])
          BY <3>2, <5>1, Moved
        <5>. QED
          BY <5>2 DEF Moves
      <4>. QED
        BY <2>1, <2>2, <3>2, <3>5, <4>1 DEF OnTheWay
    <3>7. \A d \in Clients \ {c} : unsubmitted'[d] = unsubmitted[d]
      BY <1>a, <2>1
    <3>. QED
      BY <1>e, <2>1, <3>4, <3>6, <3>7
  <2>4. CASE ~(Len(unsubmitted[c]) > 1)
    <3>1. writing' = [writing EXCEPT ![c] = FALSE] /\ toServer' = toServer
      BY <1>5, <2>4 DEF WriteDone
    <3>2. Waiting(c)' = Waiting(c)
      BY <1>a, <2>2, <3>1 DEF Waiting
    <3>3. OnTheWay(c)' = OnTheWay(c)
      BY <2>1, <3>1, <3>2 DEF OnTheWay
    <3>4. \A d \in Clients \ {c} : unsubmitted'[d] = unsubmitted[d] /\ writing'[d] = writing[d]
      BY <1>a, <2>1, <3>1
    <3>. QED
      BY <1>e, <2>1, <3>1, <3>3, <3>4
  <2>. QED
    BY <2>3, <2>4
<1>6. CASE WriteFails(c)
  <2>1. link'[c] = "broken" /\ UNCHANGED <<toServer, posted, unsubmitted, link>>
        /\ \A d \in Clients \ {c} : writing'[d] = writing[d]
    BY <1>6, <1>a DEF WriteFails
  <2>. QED
    BY <1>f, <2>1
<1>7. CASE ReceiveMessage(c) \/ ReceiveResults(c) \/ ReadFails(c) \/ IoServiceRunsOut(c)
  <2>1. UNCHANGED <<link, toServer, writing, unsubmitted, posted>>
    BY <1>7 DEF ReceiveMessage, ReceiveResults, ReadFails, RestIsLost, IoServiceRunsOut
  <2>. QED
    BY <1>d, <2>1, SameWay
<1>. QED
  BY <1>1, <1>2, <1>3, <1>4, <1>5, <1>6, <1>7 DEF CommunicationThread

\* A prefix of the first part is left.
LEMMA PrefixShrinks ==
  ASSUME NEW S, NEW s \in Seq(S), NEW t \in Seq(S), NEW k \in {0, 1}, k = 1 => s # << >>
  PROVE  Shrinks(s \o t, SubSeq(s, 1, k))
<1>1. /\ Len(s) \in Nat /\ Len(t) \in Nat /\ DOMAIN s = 1 .. Len(s) /\ k <= Len(s)
      /\ s \o t \in Seq(S) /\ Len(s \o t) = Len(s) + Len(t)
      /\ \A i \in 1 .. Len(s) + Len(t) : (s \o t)[i] = IF i <= Len(s) THEN s[i] ELSE t[i - Len(s)]
  BY ConcatProperties, LenProperties, EmptySeq
<1>2. DOMAIN (s \o t) = 1 .. Len(s) + Len(t)
  BY <1>1, LenProperties
<1>3. SubSeq(s, 1, k) = [i \in 1 .. k |-> s[i]]
  BY <1>1
<1>4. \A i \in 1 .. k : i \in Nat /\ i + 0 \in DOMAIN (s \o t) /\ s[i] = (s \o t)[i + 0]
  BY <1>1, <1>2
<1>. QED
  BY <1>3, <1>4 DEF Shrinks

\* Whatever the server does, messages keep their places until the connection ends.
LEMMA ServerWay ==
  ASSUME ClientTypes, ServerTypes, WritesInv, Server
  PROVE  \A d \in Clients : Shrinks(OnTheWay(d), OnTheWay(d)')
<1>a. /\ link \in [Clients -> {"connecting", "refused", "open", "broken"}]
      /\ toServer \in [Clients -> Seq(Request)]
      /\ UNCHANGED <<writing, unsubmitted, posted>>
  BY DEF ClientTypes, WireTypeOK, Server, clientVars, commVars
<1>b. ASSUME NEW d \in Clients
      PROVE  /\ Shrinks(OnTheWay(d), OnTheWay(d)) /\ Shrinks(OnTheWay(d), toServer[d])
             /\ link[d] \notin {"connecting", "open"} => OnTheWay(d) = toServer[d]
  BY LostWay
<1>c. ASSUME UNCHANGED <<link, toServer>>
      PROVE  \A d \in Clients : Shrinks(OnTheWay(d), OnTheWay(d)')
  BY <1>a, <1>b, <1>c, SameWay
<1>1. ASSUME NEW c \in Clients, NEW op, Reads(c, op)
      PROVE  \A d \in Clients : Shrinks(OnTheWay(d), OnTheWay(d)')
  <2>. DEFINE t == IF link[c] \in {"connecting", "open"} THEN Waiting(c) \o posted[c] ELSE << >>
  <2>1. /\ toServer[c] # << >> /\ toServer'[c] = Tail(toServer[c]) /\ link' = link
        /\ \A d \in Clients \ {c} : toServer'[d] = toServer[d]
    BY <1>1, <1>a DEF Reads
  <2>2. toServer[c] \in Seq(Posted) /\ t \in Seq(Posted)
    BY WayType, EmptySeq
  <2>3. OnTheWay(c) = toServer[c] \o t /\ OnTheWay(c)' = Tail(toServer[c]) \o t
    BY <1>a, <2>1 DEF OnTheWay, Waiting
  <2>4. Shrinks(OnTheWay(c), OnTheWay(c)')
    <3>. HIDE DEF t
    <3>. QED
      BY <2>1, <2>2, <2>3, RestShrinks
  <2>5. \A d \in Clients \ {c} : OnTheWay(d)' = OnTheWay(d)
    BY <1>a, <2>1, SameWay
  <2>. QED
    BY <1>b, <2>4, <2>5
<1>2. ASSUME NEW c \in Clients, SessionReadFails(c)
      PROVE  \A d \in Clients : Shrinks(OnTheWay(d), OnTheWay(d)')
  <2>1. /\ link[c] = "broken" /\ link' = link /\ toServer'[c] = << >>
        /\ \A d \in Clients \ {c} : toServer'[d] = toServer[d]
    BY <1>2, <1>a DEF SessionReadFails, RestIsLost
  <2>2. OnTheWay(c)' = << >>
    <3>1. OnTheWay(c)' = << >> \o << >>
      BY <2>1 DEF OnTheWay
    <3>. QED
      BY <3>1
  <2>3. Shrinks(OnTheWay(c), << >>)
    BY DEF Shrinks
  <2>4. \A d \in Clients \ {c} : OnTheWay(d)' = OnTheWay(d)
    BY <1>a, <2>1, SameWay
  <2>. QED
    BY <1>b, <2>2, <2>3, <2>4
<1>3. CASE RunCloseServer
  <2>1. PICK read \in SUBSET {c \in receiving : toServer[c] # << >>} :
          toServer' = [c \in Clients |-> IF c \in late' THEN toServer[c]
                                         ELSE SubSeq(toServer[c], 1, IF c \in read THEN 1 ELSE 0)]
    BY <1>3 DEF RunCloseServer
  <2>2. ASSUME NEW d \in Clients
        PROVE  link'[d] \in {"connecting", "open"} => link[d] = "open" /\ d \in late'
    <3>1. link' = [c \in Clients |-> CASE link[c] = "connecting"                -> "refused"
                                      [] link[c] = "open" /\ c \notin late'     -> "broken"
                                      [] link[c] = "open" /\ c \in late'        -> "open"
                                      [] link[c] \in {"refused", "broken"}      -> link[c]]
      BY <1>3 DEF RunCloseServer
    <3>2. link[d] \in {"connecting", "refused", "open", "broken"}
      BY <1>a
    <3>. QED
      BY <3>1, <3>2
  <2>3. ASSUME NEW d \in Clients PROVE Shrinks(OnTheWay(d), OnTheWay(d)')
    <3>. DEFINE t == IF link[d] \in {"connecting", "open"} THEN Waiting(d) \o posted[d] ELSE << >>
                k == IF d \in read THEN 1 ELSE 0
    <3>1. /\ toServer[d] \in Seq(Posted) /\ t \in Seq(Posted) /\ OnTheWay(d) = toServer[d] \o t
          /\ << >> \in Seq(Posted)
      BY WayType, EmptySeq DEF OnTheWay
    <3>2. CASE link'[d] \in {"connecting", "open"}
      <4>1. link[d] = "open" /\ toServer'[d] = toServer[d]
        BY <2>1, <2>2, <3>2
      <4>2. OnTheWay(d)' = OnTheWay(d)
        BY <1>a, <3>2, <4>1 DEF OnTheWay, Waiting
      <4>. QED
        BY <1>b, <4>2
    <3>3. CASE link'[d] \notin {"connecting", "open"}
      <4>1. OnTheWay(d)' = toServer'[d] \o << >>
        BY <3>3 DEF OnTheWay
      <4>2. CASE d \in late'
        <5>1. toServer'[d] = toServer[d]
          BY <2>1, <4>2
        <5>2. OnTheWay(d)' = toServer[d]
          BY <3>1, <4>1, <5>1, ConcatEmptySeq
        <5>. QED
          BY <1>b, <5>2
      <4>3. CASE d \notin late'
        <5>1. toServer'[d] = SubSeq(toServer[d], 1, k) /\ k \in {0, 1} /\ (k = 1 => toServer[d] # << >>)
          BY <2>1, <4>3
        <5>. HIDE DEF t, k
        <5>2. SubSeq(toServer[d], 1, k) \in Seq(Posted)
          <6>1. \A i \in 1 .. k : i \in 1 .. Len(toServer[d])
            BY <3>1, <5>1, EmptySeq, LenProperties
          <6>. QED
            BY <3>1, <5>1, <6>1, SubSeqProperties
        <5>3. OnTheWay(d)' = SubSeq(toServer[d], 1, k)
          BY <4>1, <5>1, <5>2, ConcatEmptySeq
        <5>. QED
          BY <3>1, <5>1, <5>3, PrefixShrinks
      <4>. QED
        BY <4>2, <4>3
    <3>. QED
      BY <3>2, <3>3
  <2>. QED
    BY <2>3
<1>4. ASSUME NEW c \in Clients, RunCreateStream(c) \/ RunRemoveStream(c) \/ RunScheduleOperations(c)
      PROVE  \A d \in Clients : Shrinks(OnTheWay(d), OnTheWay(d)')
  BY <1>1, <1>4 DEF RunCreateStream, RunRemoveStream, RunScheduleOperations
<1>5. ASSUME NEW c \in Clients, Accept(c) \/ SessionWriteDone(c) \/ SessionWriteFails(c)
      PROVE  UNCHANGED <<link, toServer>>
  BY <1>5 DEF Accept, SessionWriteDone, SessionWriteFails, wireVars
<1>6. CASE RunApply \/ RunAnswer \/ BackendThread \/ StopServer
  <2>1. UNCHANGED <<link, toServer>>
    BY <1>6 DEF RunApply, RunAnswer, BackendThread, ExecuteBatch, StartStream, StopServer, wireVars
  <2>. QED
    BY <1>c, <2>1
<1>7. CASE ServiceEnds
  <2>1. CASE UNCHANGED link
    BY <1>7, <2>1, <1>c, EndsKeep
  <2>2. CASE AllBreak
    <3>1. ASSUME NEW d \in Clients PROVE OnTheWay(d)' = toServer[d]
      <4>1. link'[d] \notin {"connecting", "open"} /\ toServer'[d] = toServer[d] /\ toServer[d] \in Seq(Request)
        BY <1>a, <1>7, <2>2, EndsKeep DEF AllBreak
      <4>2. OnTheWay(d)' = toServer[d] \o << >>
        BY <4>1 DEF OnTheWay
      <4>. QED
        BY <4>1, <4>2, ConcatEmptySeq
    <3>. QED
      BY <1>b, <3>1
  <2>. QED
    BY <1>7, <2>1, <2>2, EndsKeep
<1>. QED
  BY <1>c, <1>2, <1>3, <1>4, <1>5, <1>6, <1>7 DEF Server, ServerThread, Handlers, ServiceEnds

\* A connection that breaks takes with it what was not written yet.
LEMMA NetworkWay ==
  ASSUME ClientTypes, WritesInv, NEW c \in Clients, Disconnect(c)
  PROVE  \A d \in Clients : Shrinks(OnTheWay(d), OnTheWay(d)')
<1>1. /\ link'[c] = "broken" /\ \A d \in Clients \ {c} : link'[d] = link[d]
      /\ UNCHANGED <<toServer, writing, unsubmitted, posted>>
  BY DEF Disconnect, Breaks, ClientTypes, WireTypeOK, clientVars, commVars
<1>2. ASSUME NEW d \in Clients
      PROVE  Shrinks(OnTheWay(d), OnTheWay(d)) /\ Shrinks(OnTheWay(d), toServer[d])
  BY LostWay
<1>3. OnTheWay(c)' = toServer[c] \o << >> /\ toServer[c] \in Seq(Posted)
  BY <1>1, WayType DEF OnTheWay
<1>4. OnTheWay(c)' = toServer[c]
  BY <1>3, ConcatEmptySeq
<1>5. \A d \in Clients \ {c} : OnTheWay(d)' = OnTheWay(d)
  BY <1>1, SameWay
<1>. QED
  BY <1>2, <1>4, <1>5

-----------------------------------------------------------------------------
(* A batch, from the queue of a client to the storage *)

IsBatch(message) == message.op = "schedule_operations"

\* The number of batches a client has posted.
Submitted(c) == IF mainPc[c] = "emplacing" THEN Len(futures[c]) - 1 ELSE Len(futures[c])

\* The batches among a client's messages are numbered in order, each carries its number, of n, and
\* its operations, and comes after all that have reached the backend.
Fits(c, messages, n, batches, queued, done) ==
  /\ Numbered(messages, "schedule_operations")
  /\ \A i \in DOMAIN messages :
       IsBatch(messages[i]) =>
         /\ messages[i].id \in 1 .. n
         /\ messages[i].operations = batches[messages[i].id].batch
         /\ \A j \in DOMAIN queued : queued[j].client = c => queued[j].id < messages[i].id
         /\ \A b \in done : b.client = c => b.id < messages[i].id

BatchesOnTheWay ==
  \A c \in Clients : Fits(c, OnTheWay(c), Submitted(c), futures[c], requests, executed)

\* What the backend has of a batch is what could be read of its operations.
IsOf(b, n, batches) == b.id \in 1 .. n /\ b.operations = Deserialized(batches[b.id].batch)

\* The batches of a client wait in their order, after all those that were executed.
BatchesRequested ==
  \A i \in DOMAIN requests :
    /\ IsOf(requests[i], Submitted(requests[i].client), futures[requests[i].client])
    /\ \A j \in DOMAIN requests : i < j /\ requests[j].client = requests[i].client => requests[i].id < requests[j].id
    /\ \A b \in executed : b.client = requests[i].client => b.id < requests[i].id

\* A batch is executed once.
BatchesExecuted ==
  \A b \in executed :
    /\ IsOf(b, Submitted(b.client), futures[b.client])
    /\ \A a \in executed : a.client = b.client /\ a.id = b.id => a = b

BatchPlaces == BatchesOnTheWay /\ BatchesRequested /\ BatchesExecuted

\* Futures stay, with their batches, and so does what was posted.
FuturesGrow ==
  \A c \in Clients :
    /\ Submitted(c) \in Nat /\ Submitted(c)' \in Nat /\ Submitted(c) <= Submitted(c)'
    /\ \A id \in 1 .. Submitted(c) : futures'[c][id].batch = futures[c][id].batch

\* What was posted has a future.
LEMMA SubmittedType ==
  ASSUME ClientTypes, NEW c \in Clients
  PROVE  /\ Len(futures[c]) \in Nat /\ DOMAIN futures[c] = 1 .. Len(futures[c])
         /\ Submitted(c) \in Nat /\ Submitted(c) <= Len(futures[c])
         /\ mainPc[c] = "emplacing" => Len(futures[c]) = Submitted(c) + 1
         /\ mainPc[c] # "emplacing" => Len(futures[c]) = Submitted(c)
<1>. DEFINE F == [batch : Seq(Operation), ready : BOOLEAN, value : Seq(Status)]
<1>1. futures[c] \in Seq(F) /\ (mainPc[c] = "emplacing" => futures[c] # << >>)
  BY DEF ClientTypes, ClientTypeOK, Emplacing
<1>. HIDE DEF F
<1>2. /\ Len(futures[c]) \in Nat /\ DOMAIN futures[c] = 1 .. Len(futures[c])
      /\ mainPc[c] = "emplacing" => Len(futures[c]) # 0
  BY <1>1, LenProperties, EmptySeq
<1>. QED
  BY <1>2 DEF Submitted

\* A step keeps the futures.
LEMMA FuturesKept ==
  ASSUME ClientTypes, [Next]_vars
  PROVE  FuturesGrow
<1>. DEFINE F == [batch : Seq(Operation), ready : BOOLEAN, value : Seq(Status)]
<1>a. /\ futures \in [Clients -> Seq(F)] /\ mainPc \in [Clients -> {"idle", "emplacing", "joining", "stopped"}]
  BY DEF ClientTypes, ClientTypeOK
<1>b. \A c \in Clients :
        /\ Len(futures[c]) \in Nat /\ DOMAIN futures[c] = 1 .. Len(futures[c])
        /\ Submitted(c) \in Nat /\ Submitted(c) <= Len(futures[c])
        /\ mainPc[c] = "emplacing" => Len(futures[c]) = Submitted(c) + 1
        /\ mainPc[c] # "emplacing" => Len(futures[c]) = Submitted(c)
  BY SubmittedType
<1>. HIDE DEF F
<1>1. ASSUME futures' = futures, \A c \in Clients : mainPc'[c] = mainPc[c] \/ mainPc'[c] # "emplacing"
      PROVE  FuturesGrow
  <2>1. \A c \in Clients : Submitted(c)' = Submitted(c) \/ Submitted(c)' = Len(futures[c])
    BY <1>1 DEF Submitted
  <2>. QED
    BY <1>1, <1>b, <2>1 DEF FuturesGrow
<1>2. ASSUME NEW c \in Clients, NEW batch \in Batches, QueueOperations(c, batch) PROVE FuturesGrow
  <2>. DEFINE new == [batch |-> batch, ready |-> FALSE, value |-> << >>]
  <2>1. new \in F
    BY NetAssumption, EmptySeq DEF F
  <2>2. /\ mainPc[c] = "idle" /\ mainPc' = [mainPc EXCEPT ![c] = "emplacing"]
        /\ futures' = [futures EXCEPT ![c] = Append(@, new)]
    BY <1>2 DEF QueueOperations, Goes
  <2>. HIDE DEF new
  <2>3. /\ Len(Append(futures[c], new)) = Len(futures[c]) + 1
        /\ \A i \in 1 .. Len(futures[c]) : Append(futures[c], new)[i] = futures[c][i]
    BY <1>a, <2>1, Appended
  <2>4. Submitted(c)' = Len(futures[c])
    BY <1>a, <1>b, <2>2, <2>3 DEF Submitted
  <2>5. \A d \in Clients \ {c} : futures'[d] = futures[d] /\ Submitted(d)' = Submitted(d)
    BY <1>a, <2>2 DEF Submitted
  <2>6. Submitted(c) = Len(futures[c])
    BY <1>b, <2>2
  <2>7. \A id \in 1 .. Submitted(c) : futures'[c][id].batch = futures[c][id].batch
    BY <1>a, <2>2, <2>3, <2>6
  <2>. QED
    BY <1>b, <2>4, <2>5, <2>6, <2>7 DEF FuturesGrow
<1>3. ASSUME NEW c \in Clients, MainThread(c), futures' = futures PROVE FuturesGrow
  <2>1. \A d \in Clients : mainPc'[d] = mainPc[d] \/ mainPc'[d] # "emplacing"
    <3>1. ASSUME NEW batch \in Batches, QueueOperations(c, batch) PROVE FALSE
      <4>. DEFINE new == [batch |-> batch, ready |-> FALSE, value |-> << >>]
      <4>1. new \in F /\ futures' = [futures EXCEPT ![c] = Append(@, new)]
        BY <3>1, NetAssumption, EmptySeq DEF F, QueueOperations
      <4>. HIDE DEF new
      <4>2. Len(Append(futures[c], new)) = Len(futures[c]) + 1
        BY <1>a, <4>1, Appended
      <4>. QED
        BY <1>3, <1>a, <1>b, <4>1, <4>2
    <3>. QED
      BY <1>3, <1>a, <3>1
      DEF MainThread, SubmitOperations, CreateStream, ResetHandle, ApplyStreamChanges, Stop, Join, Goes
  <2>. QED
    BY <1>1, <1>3, <2>1
<1>4. ASSUME NEW c \in Clients, ReceiveResults(c) PROVE FuturesGrow
  <2>. DEFINE message == Head(toClient[c])
              id == message.id
  <2>1. /\ mainPc' = mainPc
        /\ \/ futures' = [futures EXCEPT ![c][id].ready = TRUE, ![c][id].value = message.results]
           \/ futures' = futures
    BY <1>4 DEF ReceiveResults
  <2>. HIDE DEF message, id
  <2>2. ASSUME NEW d \in Clients
        PROVE  /\ Len(futures'[d]) = Len(futures[d])
               /\ \A i \in DOMAIN futures[d] : futures'[d][i].batch = futures[d][i].batch
    <3>1. CASE futures' = futures
      BY <3>1
    <3>2. CASE futures' = [futures EXCEPT ![c][id].ready = TRUE, ![c][id].value = message.results]
      <4>. DEFINE new == [futures[c][id] EXCEPT !.ready = TRUE, !.value = message.results]
                  mine == [futures[c] EXCEPT ![id] = new]
      <4>1. futures' = [futures EXCEPT ![c] = mine]
        BY <3>2
      <4>2. DOMAIN mine = 1 .. Len(futures[c])
        BY <1>b
      <4>3. ASSUME NEW i \in DOMAIN futures[c] PROVE mine[i].batch = futures[c][i].batch
        <5>1. futures[c][i] \in F
          BY <1>a, <1>b, ElementOfSeq
        <5>2. CASE i = id
          BY <5>1, <5>2 DEF F
        <5>3. CASE i # id
          BY <5>3
        <5>. QED
          BY <5>2, <5>3
      <4>4. Len(mine) = Len(futures[c])
        <5>. HIDE DEF mine
        <5>. QED
          BY <1>b, <4>2
      <4>. HIDE DEF mine
      <4>. QED
        BY <1>a, <4>1, <4>3, <4>4
    <3>. QED
      BY <2>1, <3>1, <3>2
  <2>3. \A d \in Clients : Submitted(d)' = Submitted(d)
    BY <2>1, <2>2 DEF Submitted
  <2>. QED
    BY <1>b, <2>2, <2>3 DEF FuturesGrow
<1>5. ASSUME NEW c \in Clients, CommunicationThread(c) \/ ConnectFails(c), ~ReceiveResults(c)
      PROVE  UNCHANGED <<futures, mainPc>>
  BY <1>5 DEF CommunicationThread, ConnectFails, RunSubmit, RunClose, SocketConnected, WriteDone, WriteFails,
              ReceiveMessage, ReadFails, IoServiceRunsOut, taskVars
<1>6. ASSUME NEW c \in Clients, MainThread(c), futures' # futures
      PROVE  \E batch \in Batches : QueueOperations(c, batch)
  BY <1>6 DEF MainThread, SubmitOperations, CreateStream, ResetHandle, ApplyStreamChanges, Stop, Join, taskVars
<1>7. CASE Server \/ Network \/ UNCHANGED vars
  <2>1. UNCHANGED <<futures, mainPc>>
    BY <1>7 DEF Server, Network, Disconnect, vars, clientVars, taskVars
  <2>. QED
    BY <1>1, <2>1
<1>8. CASE Client
  <2>1. PICK c \in Clients : MainThread(c) \/ CommunicationThread(c) \/ ConnectFails(c)
    BY <1>8 DEF Client
  <2>2. CASE UNCHANGED <<futures, mainPc>>
    BY <1>1, <2>2
  <2>. QED
    BY <1>2, <1>3, <1>4, <1>5, <1>6, <2>1, <2>2
<1>. QED
  BY <1>7, <1>8 DEF Next, Terminated

\* Messages that shrink still fit.
LEMMA ShrinksFits ==
  ASSUME NEW c, NEW old, NEW new, NEW n, NEW batches, NEW queued, NEW done,
         Fits(c, old, n, batches, queued, done), Shrinks(old, new)
  PROVE  Fits(c, new, n, batches, queued, done)
<1>1. Numbered(new, "schedule_operations")
  BY ShrinksNumbered DEF Fits
<1>2. PICK k \in Nat : \A i \in DOMAIN new : i \in Nat /\ i + k \in DOMAIN old /\ new[i] = old[i + k]
  BY DEF Shrinks
<1>3. ASSUME NEW i \in DOMAIN new, IsBatch(new[i])
      PROVE  /\ new[i].id \in 1 .. n
             /\ new[i].operations = batches[new[i].id].batch
             /\ \A j \in DOMAIN queued : queued[j].client = c => queued[j].id < new[i].id
             /\ \A b \in done : b.client = c => b.id < new[i].id
  BY <1>2, <1>3 DEF Fits
<1>. QED
  BY <1>1, <1>3 DEF Fits

\* So do messages when there are more batches, and nothing else in the backend.
LEMMA MoreFits ==
  ASSUME NEW c, NEW messages, NEW n \in Nat, NEW m \in Nat, n <= m,
         NEW old, NEW new, \A id \in 1 .. n : new[id].batch = old[id].batch,
         NEW queued, NEW done, Fits(c, messages, n, old, queued, done)
  PROVE  Fits(c, messages, m, new, queued, done)
<1>1. ASSUME NEW i \in DOMAIN messages, IsBatch(messages[i])
      PROVE  messages[i].id \in 1 .. m /\ messages[i].operations = new[messages[i].id].batch
  <2>1. messages[i].id \in 1 .. n /\ messages[i].operations = old[messages[i].id].batch
    BY <1>1 DEF Fits
  <2>. QED
    BY <2>1
<1>. QED
  BY <1>1 DEF Fits

\* A message that is posted fits if it is the next batch, or none.
LEMMA AppendedFits ==
  ASSUME NEW S, NEW c, NEW messages \in Seq(S), NEW message \in S, NEW n \in Nat, NEW batches, NEW queued, NEW done,
         NEW m, m = n \/ m = n + 1,
         Fits(c, messages, n, batches, queued, done),
         \A j \in DOMAIN queued : queued[j].client = c => queued[j].id \in 1 .. n,
         \A b \in done : b.client = c => b.id \in 1 .. n,
         IsBatch(message) => m = n + 1 /\ message.id = m /\ message.operations = batches[m].batch
  PROVE  Fits(c, Append(messages, message), m, batches, queued, done)
<1>. DEFINE new == Append(messages, message)
<1>1. /\ Len(messages) \in Nat /\ DOMAIN messages = 1 .. Len(messages)
      /\ DOMAIN new = DOMAIN messages \cup {Len(messages) + 1}
      /\ \A i \in 1 .. Len(messages) : new[i] = messages[i]
      /\ new[Len(messages) + 1] = message
  BY Appended, LenProperties
<1>2. \A i \in DOMAIN messages : IsBatch(messages[i]) => messages[i].id \in 1 .. n
  BY DEF Fits
<1>3. Numbered(messages, "schedule_operations")
  BY DEF Fits
<1>4. message.op = "schedule_operations" =>
        \A i \in DOMAIN messages : messages[i].op = "schedule_operations" => messages[i].id < message.id
  BY <1>2 DEF IsBatch
<1>5. Numbered(new, "schedule_operations")
  BY <1>3, <1>4, AppendedNumbered
<1>. HIDE DEF new
<1>6. ASSUME NEW i \in DOMAIN new, IsBatch(new[i])
      PROVE  /\ new[i].id \in 1 .. m
             /\ new[i].operations = batches[new[i].id].batch
             /\ \A j \in DOMAIN queued : queued[j].client = c => queued[j].id < new[i].id
             /\ \A b \in done : b.client = c => b.id < new[i].id
  <2>1. CASE i = Len(messages) + 1
    <3>1. new[i] = message /\ m = n + 1 /\ message.id = m /\ message.operations = batches[m].batch
      BY <1>1, <1>6, <2>1
    <3>. QED
      BY <3>1
  <2>2. CASE i # Len(messages) + 1
    <3>1. i \in DOMAIN messages /\ new[i] = messages[i]
      BY <1>1, <2>2
    <3>. QED
      BY <1>6, <3>1 DEF Fits
  <2>. QED
    BY <2>1, <2>2
<1>7. Fits(c, new, m, batches, queued, done)
  BY <1>5, <1>6 DEF Fits
<1>. QED
  BY <1>7 DEF new

\* A batch of which the backend has something still is of its client.
LEMMA IsOfKept ==
  ASSUME FuturesGrow, NEW b, b.client \in Clients, IsOf(b, Submitted(b.client), futures[b.client])
  PROVE  IsOf(b, Submitted(b.client)', futures'[b.client])
<1>1. /\ Submitted(b.client) \in Nat /\ Submitted(b.client)' \in Nat /\ Submitted(b.client) <= Submitted(b.client)'
      /\ \A id \in 1 .. Submitted(b.client) : futures'[b.client][id].batch = futures[b.client][id].batch
  BY DEF FuturesGrow
<1>2. b.id \in 1 .. Submitted(b.client) /\ b.operations = Deserialized(futures[b.client][b.id].batch)
  BY DEF IsOf
<1>3. b.id \in 1 .. Submitted(b.client)'
  BY <1>1, <1>2
<1>4. futures'[b.client][b.id].batch = futures[b.client][b.id].batch
  BY <1>1, <1>2
<1>. QED
  BY <1>2, <1>3, <1>4 DEF IsOf

\* Requests and what was executed are of clients.
LEMMA RequestsAreOfClients ==
  ASSUME ServerTypes
  PROVE  /\ requests \in Seq(QueuedRequest) /\ DOMAIN requests = 1 .. Len(requests) /\ Len(requests) \in Nat
         /\ \A i \in DOMAIN requests : requests[i].client \in Clients /\ requests[i].id \in Nat
         /\ \A b \in executed : b.client \in Clients /\ b.id \in Nat
<1>1. requests \in Seq(QueuedRequest) /\ executed \subseteq ExecutedBatch
  BY DEF ServerTypes, ServerTypeOK, QueuedRequest, ExecutedBatch
<1>2. /\ DOMAIN requests = 1 .. Len(requests) /\ Len(requests) \in Nat
      /\ \A i \in DOMAIN requests : requests[i] \in QueuedRequest
  BY <1>1, LenProperties, ElementOfSeq
<1>. QED
  BY <1>1, <1>2 DEF QueuedRequest, ExecutedBatch

\* What the backend has stays as it is while nothing reaches it and nothing is executed.
LEMMA BackendBatches ==
  ASSUME ServerTypes, FuturesGrow, BatchPlaces, UNCHANGED <<requests, executed>>
  PROVE  BatchesRequested' /\ BatchesExecuted'
<1>1. /\ \A i \in DOMAIN requests : requests[i].client \in Clients
      /\ \A b \in executed : b.client \in Clients
  BY RequestsAreOfClients
<1>2. ASSUME NEW i \in DOMAIN requests
      PROVE  IsOf(requests[i], Submitted(requests[i].client)', futures'[requests[i].client])
  BY <1>1, IsOfKept DEF BatchPlaces, BatchesRequested
<1>3. ASSUME NEW b \in executed PROVE IsOf(b, Submitted(b.client)', futures'[b.client])
  BY <1>1, IsOfKept DEF BatchPlaces, BatchesExecuted
<1>4. BatchesRequested'
  BY <1>2 DEF BatchPlaces, BatchesRequested
<1>5. BatchesExecuted'
  BY <1>3 DEF BatchPlaces, BatchesExecuted
<1>. QED
  BY <1>4, <1>5

\* Nothing is posted, nothing reaches the backend and nothing is executed.
LEMMA BatchesStay ==
  ASSUME ServerTypes, FuturesGrow, BatchPlaces, UNCHANGED <<requests, executed>>,
         \A d \in Clients : Shrinks(OnTheWay(d), OnTheWay(d)')
  PROVE  BatchPlaces'
<1>1. ASSUME NEW d \in Clients PROVE Fits(d, OnTheWay(d)', Submitted(d)', futures'[d], requests, executed)
  <2>1. Fits(d, OnTheWay(d), Submitted(d), futures[d], requests, executed)
    BY DEF BatchPlaces, BatchesOnTheWay
  <2>2. Fits(d, OnTheWay(d)', Submitted(d), futures[d], requests, executed)
    BY <2>1, ShrinksFits
  <2>3. /\ Submitted(d) \in Nat /\ Submitted(d)' \in Nat /\ Submitted(d) <= Submitted(d)'
        /\ \A id \in 1 .. Submitted(d) : futures'[d][id].batch = futures[d][id].batch
    BY DEF FuturesGrow
  <2>. QED
    BY <2>2, <2>3, MoreFits
<1>2. BatchesOnTheWay'
  BY <1>1 DEF BatchesOnTheWay
<1>. QED
  BY <1>2, BackendBatches DEF BatchPlaces

\* What the main thread posts fits.
LEMMA MainThreadBatches ==
  ASSUME ClientTypes, ServerTypes, WritesInv, FuturesGrow, BatchPlaces, NEW c \in Clients, MainThread(c),
         UNCHANGED serverVars
  PROVE  BatchPlaces'
<1>. USE DEF wireVars, commVars, taskVars
<1>a. UNCHANGED <<requests, executed>>
  BY DEF serverVars, backendVars
<1>b. /\ Len(futures[c]) \in Nat /\ DOMAIN futures[c] = 1 .. Len(futures[c])
      /\ Submitted(c) \in Nat /\ Submitted(c) <= Len(futures[c])
      /\ mainPc[c] = "emplacing" => Len(futures[c]) = Submitted(c) + 1
      /\ mainPc[c] # "emplacing" => Len(futures[c]) = Submitted(c)
      /\ mainPc \in [Clients -> {"idle", "emplacing", "joining", "stopped"}]
  BY SubmittedType DEF ClientTypes, ClientTypeOK
<1>c. /\ \A j \in DOMAIN requests : requests[j].client = c => requests[j].id \in 1 .. Submitted(c)
      /\ \A b \in executed : b.client = c => b.id \in 1 .. Submitted(c)
  BY DEF BatchPlaces, BatchesRequested, BatchesExecuted, IsOf
<1>d. /\ Fits(c, OnTheWay(c), Submitted(c), futures[c], requests, executed)
      /\ OnTheWay(c) \in Seq(Posted)
  BY WayType DEF BatchPlaces, BatchesOnTheWay
<1>1. ASSUME UNCHANGED <<link, toServer, writing, unsubmitted, posted>> PROVE BatchPlaces'
  <2>1. \A d \in Clients : Shrinks(OnTheWay(d), OnTheWay(d)')
    BY <1>1, LostWay, SameWay
  <2>. QED
    BY <1>a, <2>1, BatchesStay
<1>2. ASSUME NEW message \in Posted, Post(c, message), UNCHANGED <<link, toServer, writing, unsubmitted>>,
             IsBatch(message) => /\ mainPc[c] = "emplacing" /\ mainPc'[c] = "idle" /\ futures' = futures
                                 /\ message.id = Len(futures[c])
                                 /\ message.operations = futures[c][Len(futures[c])].batch,
             ~IsBatch(message) => Submitted(c)' = Submitted(c)
      PROVE  BatchPlaces'
  <2>1. /\ Shrinks(Append(OnTheWay(c), message), OnTheWay(c)')
        /\ \A d \in Clients : d # c => OnTheWay(d)' = OnTheWay(d)
    BY <1>2, PostedWay
  <2>2. /\ Submitted(c)' \in Nat /\ Submitted(c) <= Submitted(c)'
        /\ \A id \in 1 .. Submitted(c) : futures'[c][id].batch = futures[c][id].batch
    BY DEF FuturesGrow
  <2>3. Fits(c, OnTheWay(c), Submitted(c), futures'[c], requests, executed)
    <3>1. Submitted(c) <= Submitted(c)
      BY <1>b
    <3>. QED
      BY <1>b, <1>d, <2>2, <3>1, MoreFits
  <2>4. Fits(c, Append(OnTheWay(c), message), Submitted(c)', futures'[c], requests, executed)
    <3>1. CASE IsBatch(message)
      <4>1. Submitted(c)' = Submitted(c) + 1 /\ Len(futures[c]) = Submitted(c) + 1 /\ futures' = futures
        BY <1>2, <1>b, <3>1 DEF Submitted
      <4>. QED
        BY <1>2, <1>b, <1>c, <1>d, <2>3, <3>1, <4>1, AppendedFits
    <3>2. CASE ~IsBatch(message)
      BY <1>2, <1>b, <1>c, <1>d, <2>3, <3>2, AppendedFits
    <3>. QED
      BY <3>1, <3>2
  <2>5. Fits(c, OnTheWay(c)', Submitted(c)', futures'[c], requests, executed)
    BY <2>1, <2>4, ShrinksFits
  <2>6. ASSUME NEW d \in Clients, d # c PROVE Fits(d, OnTheWay(d)', Submitted(d)', futures'[d], requests, executed)
    <3>1. Fits(d, OnTheWay(d), Submitted(d), futures[d], requests, executed)
      BY DEF BatchPlaces, BatchesOnTheWay
    <3>2. /\ Submitted(d) \in Nat /\ Submitted(d)' \in Nat /\ Submitted(d) <= Submitted(d)'
          /\ \A id \in 1 .. Submitted(d) : futures'[d][id].batch = futures[d][id].batch
      BY DEF FuturesGrow
    <3>. QED
      BY <2>1, <2>6, <3>1, <3>2, MoreFits
  <2>7. BatchesOnTheWay'
    BY <1>a, <2>5, <2>6 DEF BatchesOnTheWay
  <2>. QED
    BY <1>a, <2>7, BackendBatches DEF BatchPlaces
<1>3. ASSUME NEW batch \in Batches, QueueOperations(c, batch) PROVE BatchPlaces'
  BY <1>1, <1>3 DEF QueueOperations
<1>4. CASE SubmitOperations(c)
  <2>. DEFINE id == Len(futures[c])
              message == ScheduleOperations(id, futures[c][id].batch)
  <2>1. message \in Posted
    <3>. DEFINE F == [batch : Seq(Operation), ready : BOOLEAN, value : Seq(Status)]
    <3>0. id \in 1 .. id
      BY <1>4, <1>b DEF SubmitOperations
    <3>1. futures[c] \in Seq(F)
      BY DEF ClientTypes, ClientTypeOK
    <3>2. futures[c][id] \in F
      <4>. HIDE DEF F
      <4>. QED
        BY <3>0, <3>1, ElementOfSeq
    <3>. QED
      BY <1>b, <3>2 DEF ScheduleOperations, Posted, Request
  <2>2. /\ Post(c, message) /\ mainPc[c] = "emplacing" /\ mainPc'[c] = "idle"
        /\ UNCHANGED <<link, toServer, writing, unsubmitted, futures>>
    BY <1>4, <1>b DEF SubmitOperations, Goes
  <2>3. message.op = "schedule_operations" /\ message.id = id /\ message.operations = futures[c][id].batch
    BY DEF ScheduleOperations
  <2>. HIDE DEF message
  <2>. QED
    BY <1>2, <2>1, <2>2, <2>3 DEF IsBatch
<1>5. ASSUME NEW e \in Endpoints, CreateStream(c, e) PROVE BatchPlaces'
  <2>. DEFINE message == CreateStreamMessage(Len(streams[c]) + 1, e)
  <2>1. message \in Posted
    <3>1. streams[c] \in Seq(Endpoint) /\ e \in Endpoint
      BY NetAssumption DEF ClientTypes, ClientTypeOK
    <3>2. Len(streams[c]) + 1 \in Nat
      BY <3>1, LenProperties
    <3>. QED
      BY <3>1, <3>2 DEF CreateStreamMessage, Posted, Request
  <2>2. /\ Post(c, message) /\ Submitted(c)' = Submitted(c)
        /\ UNCHANGED <<link, toServer, writing, unsubmitted>>
    BY <1>5 DEF CreateStream, Submitted
  <2>3. ~IsBatch(message)
    BY DEF CreateStreamMessage, IsBatch
  <2>. HIDE DEF message
  <2>. QED
    BY <1>2, <2>1, <2>2, <2>3
<1>6. ASSUME NEW s \in StreamIds, ResetHandle(c, s) PROVE BatchPlaces'
  <2>. DEFINE message == RemoveStreamMessage(s)
  <2>1. message \in Posted
    BY DEF RemoveStreamMessage, Posted, Request, StreamIds
  <2>2. /\ Post(c, message) /\ Submitted(c)' = Submitted(c)
        /\ UNCHANGED <<link, toServer, writing, unsubmitted>>
    BY <1>6 DEF ResetHandle, Submitted
  <2>3. ~IsBatch(message)
    BY DEF RemoveStreamMessage, IsBatch
  <2>. HIDE DEF message
  <2>. QED
    BY <1>2, <2>1, <2>2, <2>3
<1>7. CASE ApplyStreamChanges(c) \/ Join(c)
  BY <1>1, <1>7 DEF ApplyStreamChanges, Join
<1>8. CASE Stop(c)
  <2>. DEFINE message == [op |-> "close"]
  <2>1. message \in Posted
    BY DEF Posted
  <2>2. /\ Post(c, message) /\ Submitted(c)' = Submitted(c)
        /\ UNCHANGED <<link, toServer, writing, unsubmitted>>
    BY <1>8, <1>b DEF Stop, Submitted, Goes
  <2>3. ~IsBatch(message)
    BY DEF IsBatch
  <2>. HIDE DEF message
  <2>. QED
    BY <1>2, <2>1, <2>2, <2>3
<1>. QED
  BY <1>3, <1>4, <1>5, <1>6, <1>7, <1>8 DEF MainThread

\* A batch that reaches the backend comes after all that reached it before.
LEMMA ScheduledBatches ==
  ASSUME ClientTypes, ServerTypes, WritesInv, FuturesGrow, BatchPlaces, NEW c \in Clients, RunScheduleOperations(c),
         UNCHANGED clientVars
  PROVE  BatchPlaces'
<1>. DEFINE h == Head(toServer[c])
            new == [client |-> c, id |-> h.id, operations |-> Deserialized(h.operations)]
            t == IF link[c] \in {"connecting", "open"} THEN Waiting(c) \o posted[c] ELSE << >>
<1>1. /\ toServer \in [Clients -> Seq(Request)] /\ toServer[c] # << >> /\ h.op = "schedule_operations"
      /\ toServer'[c] = Tail(toServer[c]) /\ \A d \in Clients \ {c} : toServer'[d] = toServer[d]
      /\ UNCHANGED <<link, writing, unsubmitted, posted, futures, mainPc, executed>>
      /\ requests' = Append(requests, new)
  BY DEF RunScheduleOperations, Reads, ClientTypes, WireTypeOK, clientVars, commVars, taskVars
<1>2. /\ requests \in Seq(QueuedRequest) /\ DOMAIN requests = 1 .. Len(requests) /\ Len(requests) \in Nat
      /\ \A i \in DOMAIN requests : requests[i].client \in Clients /\ requests[i].id \in Nat
      /\ \A b \in executed : b.client \in Clients /\ b.id \in Nat
  BY RequestsAreOfClients
<1>3. /\ toServer[c] \in Seq(Posted) /\ t \in Seq(Posted)
      /\ OnTheWay(c) = toServer[c] \o t /\ OnTheWay(c)' = Tail(toServer[c]) \o t
  BY <1>1, WayType, EmptySeq DEF OnTheWay, Waiting
<1>4. h \in Request /\ h.id \in Nat /\ new \in QueuedRequest
  <2>1. h \in Request
    BY <1>1, HeadTailProperties
  <2>2. h.operations \in Seq(Operation) /\ h.id \in Nat
    BY <1>1, <2>1 DEF Request
  <2>. QED
    BY <2>1, <2>2, ThoseType DEF QueuedRequest, Deserialized
<1>5. /\ OnTheWay(c)[1] = h /\ 1 \in DOMAIN OnTheWay(c)
      /\ \A i \in DOMAIN OnTheWay(c)' : /\ i + 1 \in DOMAIN OnTheWay(c) /\ OnTheWay(c)'[i] = OnTheWay(c)[i + 1]
                                        /\ i \in Nat \ {0}
      /\ Shrinks(OnTheWay(c), OnTheWay(c)')
  <2>. DEFINE s == toServer[c]
              way == OnTheWay(c)
              rest == OnTheWay(c)'
  <2>1. s \in Seq(Posted) /\ s # << >> /\ t \in Seq(Posted) /\ h = Head(s)
        /\ way = s \o t /\ rest = Tail(s) \o t
    BY <1>1, <1>3
  <2>. HIDE DEF t, s, h, way, rest
  <2>2. /\ Shrinks(s \o t, Tail(s) \o t)
        /\ (s \o t)[1] = Head(s) /\ DOMAIN (s \o t) = 1 .. Len(s \o t) /\ Len(s \o t) \in Nat \ {0}
        /\ \A i \in DOMAIN (Tail(s) \o t) : i + 1 \in DOMAIN (s \o t) /\ (Tail(s) \o t)[i] = (s \o t)[i + 1]
                                            /\ i \in Nat \ {0}
    BY <2>1, RestShrinks
  <2>3. /\ way[1] = h /\ 1 \in DOMAIN way
        /\ \A i \in DOMAIN rest : i + 1 \in DOMAIN way /\ rest[i] = way[i + 1] /\ i \in Nat \ {0}
        /\ Shrinks(way, rest)
    <3>1. way[1] = h /\ DOMAIN way = 1 .. Len(way) /\ Len(way) \in Nat \ {0}
      BY <2>1, <2>2
    <3>2. /\ \A i \in DOMAIN rest : i + 1 \in DOMAIN way /\ rest[i] = way[i + 1] /\ i \in Nat \ {0}
          /\ Shrinks(way, rest)
      BY <2>1, <2>2
    <3>. QED
      BY <3>1, <3>2
  <2>. QED
    BY <2>3 DEF way, rest
<1>6. \A d \in Clients \ {c} : OnTheWay(d)' = OnTheWay(d)
  BY <1>1, SameWay
<1>7. \A d \in Clients : Submitted(d)' = Submitted(d)
  BY <1>1 DEF Submitted
<1>8. new.client = c /\ new.id = h.id /\ new.operations = Deserialized(h.operations)
  OBVIOUS
<1>. HIDE DEF h, new, t
<1>9. /\ DOMAIN requests' = DOMAIN requests \cup {Len(requests) + 1}
      /\ \A i \in DOMAIN requests : requests'[i] = requests[i]
      /\ requests'[Len(requests) + 1] = new
  BY <1>1, <1>2, <1>4, Appended
<1>10. \A d \in Clients : Fits(d, OnTheWay(d), Submitted(d), futures[d], requests, executed)
  BY DEF BatchPlaces, BatchesOnTheWay
<1>11. IsBatch(h) /\ Fits(c, OnTheWay(c), Submitted(c), futures[c], requests, executed)
  BY <1>1, <1>10 DEF IsBatch
<1>12. /\ h.id \in 1 .. Submitted(c) /\ h.operations = futures[c][h.id].batch
       /\ \A j \in DOMAIN requests : requests[j].client = c => requests[j].id < h.id
       /\ \A b \in executed : b.client = c => b.id < h.id
  BY <1>5, <1>11 DEF Fits
<1>13. BatchesOnTheWay'
  <2>1. ASSUME NEW d \in Clients, d # c
        PROVE  Fits(d, OnTheWay(d)', Submitted(d)', futures'[d], requests', executed')
    BY <1>1, <1>6, <1>7, <1>8, <1>9, <1>10, <2>1 DEF Fits
  <2>2. Fits(c, OnTheWay(c)', Submitted(c), futures[c], requests, executed)
    BY <1>5, <1>11, ShrinksFits
  <2>3. ASSUME NEW i \in DOMAIN OnTheWay(c)', IsBatch(OnTheWay(c)'[i]) PROVE h.id < OnTheWay(c)'[i].id
    <3>1. i + 1 \in DOMAIN OnTheWay(c) /\ OnTheWay(c)'[i] = OnTheWay(c)[i + 1] /\ 1 < i + 1
      BY <1>5
    <3>. QED
      BY <1>5, <1>11, <2>3, <3>1 DEF Fits, Numbered, IsBatch
  <2>4. Fits(c, OnTheWay(c)', Submitted(c), futures[c], requests', executed)
    BY <1>8, <1>9, <2>2, <2>3 DEF Fits
  <2>. QED
    BY <1>1, <1>7, <2>1, <2>4 DEF BatchesOnTheWay
<1>14. BatchesExecuted'
  BY <1>1, <1>2, <1>7 DEF BatchPlaces, BatchesExecuted
<1>15. BatchesRequested'
  <2>1. ASSUME NEW i \in DOMAIN requests'
        PROVE  /\ IsOf(requests[i], Submitted(requests[i].client), futures[requests[i].client])'
               /\ \A j \in DOMAIN requests' : i < j /\ requests'[j].client = requests'[i].client =>
                                                requests'[i].id < requests'[j].id
               /\ \A b \in executed' : b.client = requests'[i].client => b.id < requests'[i].id
    <3>1. CASE i = Len(requests) + 1
      <4>1. requests'[i] = new /\ \A j \in DOMAIN requests' : ~(i < j)
        BY <1>2, <1>9, <3>1
      <4>2. IsOf(new, Submitted(c), futures[c])
        BY <1>8, <1>12 DEF IsOf
      <4>. QED
        BY <1>1, <1>7, <1>8, <1>12, <4>1, <4>2
    <3>2. CASE i # Len(requests) + 1
      <4>1. i \in DOMAIN requests /\ requests'[i] = requests[i]
        BY <1>9, <3>2
      <4>2. /\ IsOf(requests[i], Submitted(requests[i].client), futures[requests[i].client])
            /\ \A j \in DOMAIN requests : i < j /\ requests[j].client = requests[i].client => requests[i].id < requests[j].id
            /\ \A b \in executed : b.client = requests[i].client => b.id < requests[i].id
        BY <4>1 DEF BatchPlaces, BatchesRequested
      <4>3. requests[i].client \in Clients
        BY <1>2, <4>1
      <4>4. IsOf(requests[i], Submitted(requests[i].client), futures[requests[i].client])'
        BY <1>1, <1>7, <4>1, <4>2, <4>3
      <4>. QED
        BY <1>1, <1>8, <1>9, <1>12, <4>1, <4>2, <4>4
    <3>. QED
      BY <3>1, <3>2
  <2>. QED
    BY <2>1 DEF BatchesRequested
<1>. QED
  BY <1>13, <1>14, <1>15 DEF BatchPlaces

\* The batch that is executed comes before those that wait, and was not executed before.
LEMMA ExecutedBatches ==
  ASSUME ServerTypes, FuturesGrow, BatchPlaces, ExecuteBatch, UNCHANGED clientVars
  PROVE  BatchPlaces'
<1>. DEFINE r == Head(requests)
            new == [client |-> r.client, id |-> r.id, operations |-> r.operations, results |-> Run(r.operations).results,
                    after |-> [s \in ServerStreams |-> Len(emitted'[s])]]
<1>1. /\ requests # << >> /\ requests' = Tail(requests) /\ executed' = executed \cup {new}
      /\ UNCHANGED <<link, toServer, writing, unsubmitted, posted, futures, mainPc>>
  BY DEF ExecuteBatch, clientVars, commVars, taskVars, wireVars
<1>2. new.client = r.client /\ new.id = r.id /\ new.operations = r.operations
  OBVIOUS
<1>. HIDE DEF r, new
<1>3. /\ requests \in Seq(QueuedRequest) /\ DOMAIN requests = 1 .. Len(requests) /\ Len(requests) \in Nat
      /\ \A i \in DOMAIN requests : requests[i].client \in Clients /\ requests[i].id \in Nat
      /\ \A b \in executed : b.client \in Clients /\ b.id \in Nat
  BY RequestsAreOfClients
<1>4. /\ Len(requests) # 0 /\ r = requests[1] /\ 1 \in DOMAIN requests
      /\ Len(Tail(requests)) = Len(requests) - 1
      /\ \A i \in 1 .. Len(requests) - 1 : Tail(requests)[i] = requests[i + 1]
      /\ Tail(requests) \in Seq(QueuedRequest)
  BY <1>1, <1>3, EmptySeq, HeadAndRest, HeadTailProperties DEF r
<1>5. DOMAIN requests' = 1 .. Len(requests) - 1
  BY <1>1, <1>4, LenProperties
<1>6. ASSUME NEW i \in DOMAIN requests'
      PROVE  /\ i \in Nat \ {0} /\ i + 1 \in DOMAIN requests /\ requests'[i] = requests[i + 1]
             /\ requests[i + 1].client = r.client => r.id < requests'[i].id
  <2>1. i \in Nat \ {0} /\ i + 1 \in DOMAIN requests /\ requests'[i] = requests[i + 1] /\ 1 < i + 1
    BY <1>1, <1>3, <1>4, <1>5
  <2>. QED
    BY <1>4, <2>1 DEF BatchPlaces, BatchesRequested
<1>7. /\ r.client \in Clients /\ IsOf(r, Submitted(r.client), futures[r.client])
      /\ \A b \in executed : b.client = r.client => b.id < r.id
  BY <1>3, <1>4 DEF BatchPlaces, BatchesRequested
<1>8. \A d \in Clients : OnTheWay(d)' = OnTheWay(d) /\ Submitted(d)' = Submitted(d)
  BY <1>1, SameWay DEF Submitted
<1>9. BatchesOnTheWay'
  <2>1. ASSUME NEW d \in Clients PROVE Fits(d, OnTheWay(d), Submitted(d), futures[d], requests', executed')
    <3>1. Fits(d, OnTheWay(d), Submitted(d), futures[d], requests, executed)
      BY DEF BatchPlaces, BatchesOnTheWay
    <3>2. ASSUME NEW i \in DOMAIN OnTheWay(d), IsBatch(OnTheWay(d)[i])
          PROVE  /\ \A j \in DOMAIN requests' : requests'[j].client = d => requests'[j].id < OnTheWay(d)[i].id
                 /\ \A b \in executed' : b.client = d => b.id < OnTheWay(d)[i].id
      <4>1. /\ \A j \in DOMAIN requests : requests[j].client = d => requests[j].id < OnTheWay(d)[i].id
            /\ \A b \in executed : b.client = d => b.id < OnTheWay(d)[i].id
        BY <3>1, <3>2 DEF Fits
      <4>. QED
        BY <1>1, <1>2, <1>4, <1>6, <4>1
    <3>. QED
      BY <3>1, <3>2 DEF Fits
  <2>. QED
    BY <1>1, <1>8, <2>1 DEF BatchesOnTheWay
<1>10. BatchesRequested'
  <2>1. ASSUME NEW i \in DOMAIN requests'
        PROVE  /\ IsOf(requests[i], Submitted(requests[i].client), futures[requests[i].client])'
               /\ \A j \in DOMAIN requests' : i < j /\ requests'[j].client = requests'[i].client =>
                                                requests'[i].id < requests'[j].id
               /\ \A b \in executed' : b.client = requests'[i].client => b.id < requests'[i].id
    <3>1. /\ i \in Nat \ {0} /\ i + 1 \in DOMAIN requests /\ requests'[i] = requests[i + 1]
          /\ requests[i + 1].client = r.client => r.id < requests'[i].id
      BY <1>6
    <3>. DEFINE k == i + 1
    <3>2. k \in DOMAIN requests /\ requests'[i] = requests[k] /\ requests[k].client \in Clients
      BY <1>3, <3>1
    <3>3. /\ IsOf(requests[k], Submitted(requests[k].client), futures[requests[k].client])
          /\ \A j \in DOMAIN requests : k < j /\ requests[j].client = requests[k].client => requests[k].id < requests[j].id
          /\ \A b \in executed : b.client = requests[k].client => b.id < requests[k].id
      BY <3>2 DEF BatchPlaces, BatchesRequested
    <3>4. IsOf(requests[i], Submitted(requests[i].client), futures[requests[i].client])'
      BY <1>1, <1>8, <3>2, <3>3
    <3>5. ASSUME NEW j \in DOMAIN requests', i < j, requests'[j].client = requests'[i].client
          PROVE  requests'[i].id < requests'[j].id
      <4>1. j \in Nat /\ j + 1 \in DOMAIN requests /\ requests'[j] = requests[j + 1] /\ k < j + 1
        BY <1>6, <3>1, <3>5
      <4>. QED
        BY <3>2, <3>3, <3>5, <4>1
    <3>6. ASSUME NEW b \in executed', b.client = requests'[i].client PROVE b.id < requests'[i].id
      BY <1>1, <1>2, <3>1, <3>2, <3>3, <3>6
    <3>. QED
      BY <3>4, <3>5, <3>6
  <2>. QED
    BY <2>1 DEF BatchesRequested
<1>11. BatchesExecuted'
  <2>1. \A b \in executed : /\ IsOf(b, Submitted(b.client), futures[b.client])
                            /\ \A a \in executed : a.client = b.client /\ a.id = b.id => a = b
    BY DEF BatchPlaces, BatchesExecuted
  <2>2. r.id \in Nat /\ \A b \in executed : b.client = r.client => b.id # r.id
    BY <1>3, <1>4, <1>7
  <2>3. IsOf(new, Submitted(new.client), futures[new.client])
    BY <1>2, <1>7 DEF IsOf
  <2>4. \A b \in executed' : IsOf(b, Submitted(b.client)', futures'[b.client])
    BY <1>1, <1>2, <1>3, <1>7, <1>8, <2>1, <2>3
  <2>5. \A a, b \in executed' : a.client = b.client /\ a.id = b.id => a = b
    BY <1>1, <1>2, <2>1, <2>2
  <2>. QED
    BY <2>4, <2>5 DEF BatchesExecuted
<1>. QED
  BY <1>9, <1>10, <1>11 DEF BatchPlaces

\* No step disturbs the places of the batches.
LEMMA NextBatches ==
  ASSUME ClientTypes, ServerTypes, WritesInv, BatchPlaces, [Next]_vars
  PROVE  BatchPlaces'
<1>1. FuturesGrow
  BY FuturesKept
<1>2. ASSUME NEW c \in Clients, CommunicationThread(c) \/ ConnectFails(c), UNCHANGED serverVars PROVE BatchPlaces'
  <2>1. UNCHANGED <<requests, executed>>
    BY <1>2 DEF serverVars, backendVars
  <2>. QED
    BY <1>1, <1>2, <2>1, CommunicationWay, BatchesStay
<1>3. CASE Client
  BY <1>1, <1>2, <1>3, MainThreadBatches DEF Client
<1>4. CASE Server
  <2>1. UNCHANGED clientVars
    BY <1>4 DEF Server
  <2>2. CASE UNCHANGED <<requests, executed>>
    BY <1>1, <1>4, <2>2, ServerWay, BatchesStay
  <2>3. CASE ExecuteBatch
    BY <1>1, <2>1, <2>3, ExecutedBatches
  <2>4. ASSUME NEW c \in Clients, RunScheduleOperations(c) PROVE BatchPlaces'
    BY <1>1, <2>1, <2>4, ScheduledBatches
  <2>5. ASSUME NEW c \in Clients,
               \/ Accept(c) \/ RunCreateStream(c) \/ RunRemoveStream(c)
               \/ SessionReadFails(c) \/ SessionWriteDone(c) \/ SessionWriteFails(c)
        PROVE  UNCHANGED <<requests, executed>>
    BY <2>5 DEF Accept, RunCreateStream, RunRemoveStream, SessionReadFails, SessionWriteDone, SessionWriteFails,
                backendVars
  <2>6. ASSUME RunApply \/ RunAnswer \/ RunCloseServer \/ StopServer \/ ServiceEnds
                 \/ \E s \in ServerStreams : StartStream(s)
        PROVE  UNCHANGED <<requests, executed>>
    BY <2>6, EndsKeep DEF RunApply, RunAnswer, RunCloseServer, StopServer, StartStream, backendVars
  <2>. QED
    BY <1>4, <2>2, <2>3, <2>4, <2>5, <2>6 DEF Server, ServerThread, BackendThread, Handlers, ServiceEnds
<1>5. CASE Network
  <2>1. PICK c \in Clients : Disconnect(c)
    BY <1>5 DEF Network
  <2>2. UNCHANGED <<requests, executed>>
    BY <2>1 DEF Disconnect, serverVars, backendVars
  <2>. QED
    BY <1>1, <2>1, <2>2, NetworkWay, BatchesStay
<1>6. CASE UNCHANGED vars
  <2>1. UNCHANGED <<link, toServer, writing, unsubmitted, posted, requests, executed>>
    BY <1>6 DEF vars, wireVars, clientVars, commVars, serverVars, backendVars
  <2>2. \A d \in Clients : Shrinks(OnTheWay(d), OnTheWay(d)')
    BY <2>1, LostWay, SameWay
  <2>. QED
    BY <1>1, <2>1, <2>2, BatchesStay
<1>. QED
  BY <1>3, <1>4, <1>5, <1>6 DEF Next, Terminated

-----------------------------------------------------------------------------
(* The results of a batch, from the storage to its future *)

\* One of the batches executed is this one, with these results.
OfBatch(c, id, results, done) == \E b \in done : b.client = c /\ b.id = id /\ b.results = results

\* What carries results carries those of a batch that was executed.
KnownReply(c, done) == {reply \in Reply : reply.op = "task_results" => OfBatch(c, reply.id, reply.results, done)}

KnownPosting(done) == {post \in Posting : post.op = "answer" => OfBatch(post.client, post.id, post.results, done)}

\* Wherever the results of a batch are, they are those of its execution.
ResultsKnown ==
  /\ serverPosts \in Seq(KnownPosting(executed))
  /\ \A c \in Clients :
       /\ outgoing[c] \in Seq(KnownReply(c, executed))
       /\ toClient[c] \in Seq(KnownReply(c, executed))
       /\ \A id \in DOMAIN futures[c] : futures[c][id].ready => OfBatch(c, id, futures[c][id].value, executed)

\* Results stay known when more is executed.
LEMMA KnownStays ==
  ASSUME NEW done, NEW more, done \subseteq more
  PROVE  /\ \A c : Seq(KnownReply(c, done)) \subseteq Seq(KnownReply(c, more))
         /\ Seq(KnownPosting(done)) \subseteq Seq(KnownPosting(more))
         /\ \A c, id, results : OfBatch(c, id, results, done) => OfBatch(c, id, results, more)
<1>1. \A c, id, results : OfBatch(c, id, results, done) => OfBatch(c, id, results, more)
  BY DEF OfBatch
<1>2. \A c : KnownReply(c, done) \subseteq KnownReply(c, more)
  BY <1>1 DEF KnownReply
<1>3. KnownPosting(done) \subseteq KnownPosting(more)
  BY <1>1 DEF KnownPosting
<1>. QED
  BY <1>1, <1>2, <1>3, SeqMonotonic

\* Sending known results.
LEMMA SentKnown ==
  ASSUME NEW done, NEW messages, SendMessages(messages),
         \A c \in Clients : /\ messages[c] \in Seq(KnownReply(c, done))
                            /\ outgoing[c] \in Seq(KnownReply(c, done))
                            /\ toClient[c] \in Seq(KnownReply(c, done)),
         DOMAIN toClient = Clients
  PROVE  \A c \in Clients : outgoing'[c] \in Seq(KnownReply(c, done)) /\ toClient'[c] \in Seq(KnownReply(c, done))
<1>. SUFFICES ASSUME NEW c \in Clients
              PROVE  outgoing'[c] \in Seq(KnownReply(c, done)) /\ toClient'[c] \in Seq(KnownReply(c, done))
  OBVIOUS
<1>. DEFINE starts == {d \in Clients : outgoing[d] = << >> /\ messages[d] # << >>}
            K == KnownReply(c, done)
<1>1. outgoing'[c] = outgoing[c] \o messages[c]
  BY DEF SendMessages
<1>2. toClient'[c] = IF c \in starts THEN Written(toClient, c, Head(messages[c]))[c] ELSE toClient[c]
  BY DEF SendMessages
<1>3. messages[c] \in Seq(K) /\ outgoing[c] \in Seq(K) /\ toClient[c] \in Seq(K)
  OBVIOUS
<1>4. messages[c] # << >> => Written(toClient, c, Head(messages[c]))[c] \in Seq(K)
  <2>. HIDE DEF K
  <2>1. ASSUME messages[c] # << >> PROVE Append(toClient[c], Head(messages[c])) \in Seq(K)
    BY <1>3, <2>1, HeadTailProperties, AppendProperties
  <2>. QED
    BY <1>3, <2>1 DEF Written
<1>. HIDE DEF K
<1>5. outgoing'[c] \in Seq(K)
  BY <1>1, <1>3, ConcatProperties
<1>6. toClient'[c] \in Seq(K)
  BY <1>2, <1>3, <1>4
<1>. QED
  BY <1>5, <1>6 DEF K

\* What the clients do keeps results known.
LEMMA ClientResults ==
  ASSUME ClientTypes, KnownResults, ResultsKnown, Client
  PROVE  ResultsKnown'
<1>. DEFINE F == [batch : Seq(Operation), ready : BOOLEAN, value : Seq(Status)]
<1>a. UNCHANGED <<serverPosts, outgoing, executed>>
  BY DEF Client, serverVars, sessionVars, backendVars
<1>b. /\ toClient \in [Clients -> Seq(Reply)] /\ futures \in [Clients -> Seq(F)]
  BY DEF ClientTypes, WireTypeOK, ClientTypeOK
<1>c. \A c \in Clients : DOMAIN futures[c] = 1 .. Len(futures[c]) /\ Len(futures[c]) \in Nat
  BY SubmittedType
<1>. HIDE DEF F
<1>d. ASSUME \A c \in Clients : toClient'[c] \in Seq(KnownReply(c, executed)),
             \A c \in Clients : \A id \in DOMAIN futures'[c] :
               futures'[c][id].ready => OfBatch(c, id, futures'[c][id].value, executed)
      PROVE  ResultsKnown'
  BY <1>a, <1>d DEF ResultsKnown
<1>e. ASSUME NEW c \in Clients, toClient[c] # << >>, toClient' = [toClient EXCEPT ![c] = Tail(@)]
      PROVE  \A d \in Clients : toClient'[d] \in Seq(KnownReply(d, executed))
  <2>1. Tail(toClient[c]) \in Seq(KnownReply(c, executed))
    BY <1>e, HeadTailProperties DEF ResultsKnown
  <2>. QED
    BY <1>b, <1>e, <2>1 DEF ResultsKnown
<1>f. ASSUME NEW c \in Clients, toClient' = [toClient EXCEPT ![c] = << >>]
      PROVE  \A d \in Clients : toClient'[d] \in Seq(KnownReply(d, executed))
  <2>1. << >> \in Seq(KnownReply(c, executed))
    BY EmptySeq
  <2>. QED
    BY <1>b, <1>f, <2>1 DEF ResultsKnown
<1>1. ASSUME NEW c \in Clients, NEW batch \in Batches, QueueOperations(c, batch) PROVE ResultsKnown'
  <2>. DEFINE new == [batch |-> batch, ready |-> FALSE, value |-> << >>]
  <2>1. new \in F /\ ~new.ready
    BY NetAssumption, EmptySeq DEF F
  <2>2. toClient' = toClient /\ futures' = [futures EXCEPT ![c] = Append(@, new)]
    BY <1>1 DEF QueueOperations, wireVars
  <2>. HIDE DEF new
  <2>3. /\ DOMAIN Append(futures[c], new) = DOMAIN futures[c] \cup {Len(futures[c]) + 1}
        /\ \A i \in 1 .. Len(futures[c]) : Append(futures[c], new)[i] = futures[c][i]
        /\ Append(futures[c], new)[Len(futures[c]) + 1] = new
    BY <1>b, <2>1, Appended
  <2>4. \A d \in Clients : \A id \in DOMAIN futures'[d] :
          futures'[d][id].ready => OfBatch(d, id, futures'[d][id].value, executed)
    BY <1>b, <1>c, <2>1, <2>2, <2>3 DEF ResultsKnown
  <2>. QED
    BY <1>d, <2>2, <2>4 DEF ResultsKnown
<1>2. ASSUME UNCHANGED <<toClient, futures>> PROVE ResultsKnown'
  BY <1>a, <1>2 DEF ResultsKnown
<1>3. ASSUME NEW c \in Clients, ReceiveResults(c) PROVE ResultsKnown'
  <2>. DEFINE message == Head(toClient[c])
              id == message.id
  <2>1. /\ toClient[c] # << >> /\ toClient' = [toClient EXCEPT ![c] = Tail(@)] /\ message.op = "task_results"
        /\ \/ futures' = [futures EXCEPT ![c][id].ready = TRUE, ![c][id].value = message.results]
           \/ futures' = futures
    BY <1>3 DEF ReceiveResults
  <2>2. OfBatch(c, id, message.results, executed)
    <3>1. message \in KnownReply(c, executed)
      BY <2>1, HeadTailProperties DEF ResultsKnown
    <3>. QED
      BY <2>1, <3>1 DEF KnownReply
  <2>3. id \in DOMAIN futures[c]
    <3>1. 1 \in DOMAIN toClient[c] /\ message = toClient[c][1]
      BY <1>b, <2>1, HeadAndRest, LenProperties
    <3>. QED
      BY <2>1, <3>1 DEF KnownResults
  <2>. HIDE DEF message, id
  <2>4. ASSUME NEW d \in Clients, NEW i \in DOMAIN futures'[d], futures'[d][i].ready
        PROVE  OfBatch(d, i, futures'[d][i].value, executed)
    <3>1. CASE futures' = futures
      BY <2>4, <3>1 DEF ResultsKnown
    <3>2. CASE futures' = [futures EXCEPT ![c][id].ready = TRUE, ![c][id].value = message.results]
      <4>. DEFINE new == [futures[c][id] EXCEPT !.ready = TRUE, !.value = message.results]
                  mine == [futures[c] EXCEPT ![id] = new]
      <4>1. futures' = [futures EXCEPT ![c] = mine]
        BY <3>2
      <4>2. new.value = message.results
        <5>1. futures[c][id] \in F
          BY <1>b, <1>c, <2>3, ElementOfSeq
        <5>. QED
          BY <5>1 DEF F
      <4>3. mine[id] = new /\ DOMAIN mine = DOMAIN futures[c] /\ \A j \in DOMAIN futures[c] : j # id => mine[j] = futures[c][j]
        BY <2>3
      <4>. HIDE DEF new, mine
      <4>4. futures'[d] = IF d = c THEN mine ELSE futures[d]
        BY <1>b, <4>1
      <4>5. CASE d = c /\ i = id
        BY <2>2, <4>2, <4>3, <4>4, <4>5
      <4>6. CASE ~(d = c /\ i = id)
        <5>1. i \in DOMAIN futures[d] /\ futures'[d][i] = futures[d][i]
          BY <2>4, <4>3, <4>4, <4>6
        <5>. QED
          BY <2>4, <5>1 DEF ResultsKnown
      <4>. QED
        BY <4>5, <4>6
    <3>. QED
      BY <2>1, <3>1, <3>2
  <2>5. \A d \in Clients : toClient'[d] \in Seq(KnownReply(d, executed))
    BY <1>e, <2>1
  <2>. QED
    BY <1>d, <2>4, <2>5
<1>4. ASSUME NEW c \in Clients, ReceiveMessage(c) PROVE ResultsKnown'
  <2>1. toClient[c] # << >> /\ toClient' = [toClient EXCEPT ![c] = Tail(@)] /\ futures' = futures
    BY <1>4 DEF ReceiveMessage, taskVars
  <2>2. \A d \in Clients : toClient'[d] \in Seq(KnownReply(d, executed))
    BY <1>e, <2>1
  <2>. QED
    BY <1>d, <2>1, <2>2 DEF ResultsKnown
<1>5. ASSUME NEW c \in Clients, RunClose(c) \/ ReadFails(c) PROVE ResultsKnown'
  <2>1. toClient' = [toClient EXCEPT ![c] = << >>] /\ futures' = futures
    BY <1>5 DEF RunClose, ReadFails, RestIsLost, taskVars
  <2>2. \A d \in Clients : toClient'[d] \in Seq(KnownReply(d, executed))
    BY <1>f, <2>1
  <2>. QED
    BY <1>d, <2>1, <2>2 DEF ResultsKnown
<1>6. ASSUME NEW c \in Clients,
             \/ RunSubmit(c) \/ SocketConnected(c) \/ WriteDone(c) \/ WriteFails(c) \/ IoServiceRunsOut(c)
             \/ ConnectFails(c)
             \/ SubmitOperations(c) \/ ApplyStreamChanges(c) \/ Stop(c) \/ Join(c)
             \/ \E e \in Endpoints : CreateStream(c, e)
             \/ \E s \in StreamIds : ResetHandle(c, s)
      PROVE  UNCHANGED <<toClient, futures>>
  BY <1>6 DEF RunSubmit, SocketConnected, WriteDone, WriteFails, IoServiceRunsOut, ConnectFails, StartWrite,
              SubmitOperations, ApplyStreamChanges, Stop, Join, CreateStream, ResetHandle, taskVars, wireVars
<1>. QED
  BY <1>1, <1>2, <1>3, <1>4, <1>5, <1>6 DEF Client, MainThread, CommunicationThread

\* What the server does keeps results known.
LEMMA ServerResults ==
  ASSUME ServerTypes, WritesInv, ResultsKnown, Server
  PROVE  ResultsKnown'
<1>. USE DEF wireVars, sessionVars, backendVars
<1>a. /\ futures' = futures /\ toClient \in [Clients -> Seq(Reply)] /\ outgoing \in [Clients -> Seq(Reply)]
      /\ toClient \in [Clients -> Seq(Reply)] /\ serverPosts \in Seq(Posting)
      /\ opened \in Seq(OpenedStream) /\ pending \in Seq(QueuedChange) /\ held \subseteq DOMAIN opened
  BY DEF Server, clientVars, taskVars, ServerTypes, ServerTypeOK, WireTypeOK, Posting, OpenedStream, QueuedChange
<1>b. ASSUME executed' = executed,
             serverPosts' = serverPosts \/ (serverPosts # << >> /\ serverPosts' = Tail(serverPosts))
      PROVE  serverPosts' \in Seq(KnownPosting(executed'))
  <2>1. serverPosts # << >> => Tail(serverPosts) \in Seq(KnownPosting(executed))
    BY HeadTailProperties DEF ResultsKnown
  <2>. QED
    BY <1>b, <2>1 DEF ResultsKnown
<1>c. ASSUME executed' = executed, serverPosts' \in Seq(KnownPosting(executed')),
             \A c \in Clients : /\ outgoing'[c] \in Seq(KnownReply(c, executed))
                                /\ toClient'[c] \in Seq(KnownReply(c, executed))
      PROVE  ResultsKnown'
  BY <1>a, <1>c DEF ResultsKnown
<1>1. ASSUME UNCHANGED <<executed, outgoing, toClient>>,
             serverPosts' = serverPosts \/ (serverPosts # << >> /\ serverPosts' = Tail(serverPosts))
      PROVE  ResultsKnown'
  BY <1>1, <1>b, <1>c DEF ResultsKnown
<1>2. ASSUME NEW c \in Clients,
             \/ Accept(c) \/ RunCreateStream(c) \/ RunRemoveStream(c) \/ RunScheduleOperations(c)
             \/ SessionReadFails(c) \/ SessionWriteFails(c)
      PROVE  UNCHANGED <<executed, outgoing, toClient, serverPosts>>
  BY <1>2 DEF Accept, RunCreateStream, RunRemoveStream, RunScheduleOperations, Reads, SessionReadFails,
              SessionWriteFails
<1>3. ASSUME NEW c \in Clients, SessionWriteDone(c) PROVE ResultsKnown'
  <2>1. /\ c \in sending /\ outgoing' = [outgoing EXCEPT ![c] = Tail(@)] /\ UNCHANGED <<executed, serverPosts>>
        /\ outgoing[c] # << >>
    BY <1>3 DEF SessionWriteDone, WritesInv
  <2>2. outgoing[c] \in Seq(KnownReply(c, executed)) /\ toClient[c] \in Seq(KnownReply(c, executed))
    BY DEF ResultsKnown
  <2>3. Tail(outgoing[c]) \in Seq(KnownReply(c, executed))
    BY <2>1, <2>2, HeadTailProperties
  <2>4. \A d \in Clients : outgoing'[d] \in Seq(KnownReply(d, executed))
    BY <1>a, <2>1, <2>3 DEF ResultsKnown
  <2>5. \A d \in Clients : toClient'[d] \in Seq(KnownReply(d, executed))
    <3>1. CASE Len(outgoing[c]) > 1
      <4>1. toClient' = Written(toClient, c, outgoing[c][2])
        BY <1>3, <3>1 DEF SessionWriteDone
      <4>2. outgoing[c][2] \in KnownReply(c, executed)
        BY <2>2, <3>1, ElementOfSeq, LenProperties
      <4>3. Append(toClient[c], outgoing[c][2]) \in Seq(KnownReply(c, executed))
        BY <2>2, <4>2, AppendProperties
      <4>4. \A d \in Clients : d # c => toClient'[d] = toClient[d]
        BY <1>a, <4>1, WrittenElsewhere
      <4>5. toClient'[c] \in Seq(KnownReply(c, executed))
        BY <1>a, <2>2, <4>1, <4>3 DEF Written
      <4>. QED
        BY <4>4, <4>5 DEF ResultsKnown
    <3>2. CASE ~(Len(outgoing[c]) > 1)
      BY <1>3, <3>2 DEF SessionWriteDone, ResultsKnown
    <3>. QED
      BY <3>1, <3>2
  <2>. QED
    BY <1>b, <1>c, <2>1, <2>4, <2>5
<1>4. CASE RunApply
  <2>. DEFINE messages == [c \in Clients |-> StreamMessages(c, pending)]
  <2>1. ASSUME NEW c \in Clients PROVE messages[c] \in Seq(KnownReply(c, executed))
    <3>1. messages[c] \in Seq(ChangeReply)
      BY <1>a, StreamMessagesType
    <3>2. ChangeReply \subseteq KnownReply(c, executed)
      BY DEF ChangeReply, KnownReply, Reply
    <3>. HIDE DEF messages
    <3>. QED
      BY <3>1, <3>2, SeqMonotonic
  <2>2. SendMessages(messages) /\ executed' = executed /\ serverPosts # << >> /\ serverPosts' = Tail(serverPosts)
    BY <1>4 DEF RunApply, Posts
  <2>. HIDE DEF messages
  <2>3. \A c \in Clients : /\ outgoing'[c] \in Seq(KnownReply(c, executed))
                           /\ toClient'[c] \in Seq(KnownReply(c, executed))
    BY <1>a, <2>1, <2>2, SentKnown DEF ResultsKnown
  <2>. QED
    BY <1>b, <1>c, <2>2, <2>3
<1>5. CASE RunAnswer
  <2>. DEFINE answer == Head(serverPosts)
              reply == TaskResults(answer.id, answer.results)
              messages == [c \in Clients |-> IF c = answer.client /\ c \in receiving \cup sending
                             THEN <<reply>> ELSE << >>]
  <2>1. /\ SendMessages(messages) /\ executed' = executed /\ serverPosts # << >> /\ serverPosts' = Tail(serverPosts)
        /\ answer.op = "answer"
    BY <1>5 DEF RunAnswer, Posts
  <2>2. answer \in KnownPosting(executed)
    BY <2>1, HeadTailProperties DEF ResultsKnown
  <2>3. OfBatch(answer.client, answer.id, answer.results, executed) /\ reply \in KnownReply(answer.client, executed)
    <3>1. /\ answer.id \in Nat /\ answer.results \in Seq(Status)
          /\ OfBatch(answer.client, answer.id, answer.results, executed)
      BY <2>1, <2>2 DEF KnownPosting, Posting
    <3>2. reply \in Reply /\ reply.id = answer.id /\ reply.results = answer.results
      BY <3>1 DEF TaskResults, Reply
    <3>. HIDE DEF reply
    <3>. QED
      BY <3>1, <3>2 DEF KnownReply
  <2>. HIDE DEF answer, reply
  <2>4. ASSUME NEW c \in Clients PROVE messages[c] \in Seq(KnownReply(c, executed))
    <3>1. << >> \in Seq(KnownReply(c, executed))
      BY EmptySeq
    <3>2. c = answer.client => <<reply>> \in Seq(KnownReply(c, executed))
      BY <2>3
    <3>. QED
      BY <3>1, <3>2
  <2>. HIDE DEF messages
  <2>5. \A c \in Clients : /\ outgoing'[c] \in Seq(KnownReply(c, executed))
                           /\ toClient'[c] \in Seq(KnownReply(c, executed))
    BY <1>a, <2>1, <2>4, SentKnown DEF ResultsKnown
  <2>. QED
    BY <1>b, <1>c, <2>1, <2>5
<1>d. ASSUME NEW done, NEW posts \in Seq(KnownPosting(done)), NEW post \in Posting, post.op # "answer"
      PROVE  Append(posts, post) \in Seq(KnownPosting(done))
  <2>1. post \in KnownPosting(done)
    BY <1>d DEF KnownPosting
  <2>. QED
    BY <2>1, AppendProperties
<1>e. ASSUME NEW done, NEW posts \in Seq(KnownPosting(done)) PROVE PostedApply(posts) \in Seq(KnownPosting(done))
  <2>1. [op |-> "apply"] \in KnownPosting(done)
    BY DEF Posting, KnownPosting
  <2>2. Append(posts, [op |-> "apply"]) \in Seq(KnownPosting(done))
    BY <2>1, AppendProperties
  <2>. QED
    BY <2>2 DEF PostedApply
<1>6. ASSUME NEW s \in ServerStreams, StartStream(s) PROVE ResultsKnown'
  <2>1. UNCHANGED <<executed, outgoing, toClient>> /\ serverPosts' = PostedApply(serverPosts)
    BY <1>6 DEF StartStream
  <2>2. serverPosts' \in Seq(KnownPosting(executed))
    BY <1>e, <2>1 DEF ResultsKnown
  <2>. QED
    BY <1>c, <2>1, <2>2 DEF ResultsKnown
<1>7. CASE ExecuteBatch
  <2>. DEFINE r == Head(requests)
              run == Run(r.operations)
              answer == [op |-> "answer", client |-> r.client, id |-> r.id, results |-> run.results]
              new == [client |-> r.client, id |-> r.id, operations |-> r.operations, results |-> run.results,
                      after |-> [s \in ServerStreams |-> Len(emitted'[s])]]
  <2>1. /\ requests # << >> /\ executed' = executed \cup {new} /\ UNCHANGED <<outgoing, toClient>>
        /\ serverPosts' = PostedBatch(run.changes, answer)
    BY <1>7 DEF ExecuteBatch
  <2>2. r.client \in Clients /\ r.id \in Nat /\ run.results \in Seq(Status)
    <3>1. requests \in Seq(QueuedRequest) /\ storage \in Database /\ started \subseteq ServerStreams
      BY DEF ServerTypes, ServerTypeOK, QueuedRequest, StreamOwners
    <3>2. r \in QueuedRequest
      BY <2>1, <3>1, HeadTailProperties
    <3>3. r.operations \in Seq(Operation)
      BY <3>2 DEF QueuedRequest
    <3>4. run \in Execution
      BY <1>a, <3>1, <3>3, RunType DEF OpenedStream
    <3>. HIDE DEF run
    <3>. QED
      BY <3>2, <3>4 DEF QueuedRequest, Execution
  <2>. HIDE DEF run
  <2>3. answer \in KnownPosting(executed')
    <3>1. answer \in Posting
      BY <2>2 DEF Posting
    <3>2. OfBatch(r.client, r.id, run.results, executed')
      <4>1. new.client = r.client /\ new.id = r.id /\ new.results = run.results
        OBVIOUS
      <4>. HIDE DEF new, r
      <4>2. new \in executed'
        BY <2>1
      <4>. QED
        BY <4>1, <4>2 DEF OfBatch
    <3>. QED
      BY <3>1, <3>2 DEF KnownPosting
  <2>. HIDE DEF answer, new, r
  <2>4. /\ Seq(KnownPosting(executed)) \subseteq Seq(KnownPosting(executed'))
        /\ \A c : Seq(KnownReply(c, executed)) \subseteq Seq(KnownReply(c, executed'))
        /\ \A c, id, results : OfBatch(c, id, results, executed) => OfBatch(c, id, results, executed')
    <3>1. executed \subseteq executed'
      BY <2>1
    <3>. QED
      BY <3>1, KnownStays
  <2>5. serverPosts' \in Seq(KnownPosting(executed'))
    <3>1. serverPosts \in Seq(KnownPosting(executed'))
      BY <2>4 DEF ResultsKnown
    <3>2. (IF run.changes = << >> THEN serverPosts ELSE PostedApply(serverPosts)) \in Seq(KnownPosting(executed'))
      BY <1>e, <3>1
    <3>. QED
      BY <2>1, <2>3, <3>2, AppendProperties DEF PostedBatch
  <2>. QED
    BY <1>a, <2>1, <2>4, <2>5 DEF ResultsKnown
<1>8. CASE StopServer
  <2>1. [op |-> "close"] \in Posting
    BY DEF Posting
  <2>2. serverPosts' = Append(serverPosts, [op |-> "close"]) /\ UNCHANGED <<executed, outgoing, toClient>>
    BY <1>8 DEF StopServer
  <2>3. serverPosts' \in Seq(KnownPosting(executed))
    BY <1>d, <2>1, <2>2 DEF ResultsKnown
  <2>. QED
    BY <1>c, <2>2, <2>3 DEF ResultsKnown
<1>9. CASE ServiceEnds \/ RunCloseServer
  <2>1. /\ UNCHANGED <<executed, outgoing, toClient>>
        /\ serverPosts' = serverPosts \/ (serverPosts # << >> /\ serverPosts' = Tail(serverPosts))
    BY <1>9, EndsKeep DEF RunCloseServer, Posts
  <2>. QED
    BY <1>1, <2>1
<1>. QED
  BY <1>1, <1>2, <1>3, <1>4, <1>5, <1>6, <1>7, <1>8, <1>9
  DEF Server, ServerThread, BackendThread, Handlers, ServiceEnds

\* Results that are known are of a batch that has a future.
LEMMA ResultsHaveFutures ==
  ASSUME ClientTypes, BatchesExecuted, ResultsKnown
  PROVE  KnownResults
<1>. SUFFICES ASSUME NEW c \in Clients, NEW i \in DOMAIN toClient[c], toClient[c][i].op = "task_results"
              PROVE  toClient[c][i].id \in DOMAIN futures[c]
  BY DEF KnownResults
<1>1. toClient[c][i] \in KnownReply(c, executed)
  BY ElementOfSeq, LenProperties DEF ResultsKnown
<1>2. PICK b \in executed : b.client = c /\ b.id = toClient[c][i].id
  BY <1>1 DEF KnownReply, OfBatch
<1>3. b.id \in 1 .. Submitted(c)
  BY <1>2 DEF BatchesExecuted, IsOf
<1>. QED
  BY <1>2, <1>3, SubmittedType

-----------------------------------------------------------------------------
(* The theorems *)

NetInv == ClientTypes /\ ServerTypes /\ WritesInv /\ BatchPlaces /\ ResultsKnown

\* Every reachable state has its types, no write is forgotten on either side, the batches of each
\* client are where they may be, in the order they were queued in, from the client's queues to the
\* storage, and whatever carries results carries those of the one execution of their batch.
THEOREM NetInvariant == Spec => []NetInv
<1>1. Init => NetInv
  <2>. SUFFICES ASSUME Init PROVE NetInv
    OBVIOUS
  <2>1. ClientTypes /\ ServerTypes /\ WritesInv
    BY InitTypes
  <2>. USE DEF Init, WireInit, ClientInit, ServerInit
  <2>2. ASSUME NEW c \in Clients PROVE OnTheWay(c) = << >>
    <3>1. OnTheWay(c) = << >> \o (<< >> \o << >>)
      BY DEF OnTheWay, Waiting
    <3>. QED
      BY <3>1
  <2>3. \A c \in Clients : Fits(c, << >>, Submitted(c), futures[c], requests, executed)
    BY DEF Fits, Numbered
  <2>4. BatchesOnTheWay
    BY <2>2, <2>3 DEF BatchesOnTheWay
  <2>5. BatchesRequested /\ BatchesExecuted
    BY DEF BatchesRequested, BatchesExecuted
  <2>6. ResultsKnown
    <3>1. \A S : << >> \in Seq(S)
      BY EmptySeq
    <3>. QED
      BY <3>1 DEF ResultsKnown
  <2>. QED
    BY <2>1, <2>4, <2>5, <2>6 DEF NetInv, BatchPlaces
<1>2. NetInv /\ [Next]_vars => NetInv'
  <2>. SUFFICES ASSUME NetInv, [Next]_vars PROVE NetInv'
    OBVIOUS
  <2>. USE DEF NetInv
  <2>1. KnownResults
    BY ResultsHaveFutures DEF BatchPlaces
  <2>2. ClientTypes' /\ ServerTypes'
    BY <2>1, NextTypes
  <2>3. WritesInv'
    BY NextWrites
  <2>4. BatchPlaces'
    BY NextBatches
  <2>5. ResultsKnown'
    <3>1. CASE Client
      BY <2>1, <3>1, ClientResults
    <3>2. CASE Server
      BY <3>2, ServerResults
    <3>3. CASE Network \/ UNCHANGED vars
      <4>1. UNCHANGED <<serverPosts, outgoing, toClient, futures, executed>>
        BY <3>3 DEF Network, Disconnect, vars, wireVars, clientVars, taskVars, serverVars, sessionVars, backendVars
      <4>. QED
        BY <4>1 DEF ResultsKnown
    <3>. QED
      BY <3>1, <3>2, <3>3 DEF Next, Terminated
  <2>. QED
    BY <2>2, <2>3, <2>4, <2>5
<1>. QED
  BY <1>1, <1>2, PTL DEF Spec

\* Every variable of the clients, of the server and of the connections keeps its type: an answer
\* of the server always finds a promise that was made, and a message's stream one that was opened.
THEOREM NetTypes == Spec => []TypeOK
<1>1. NetInv => TypeOK
  BY DEF NetInv, ClientTypes, ServerTypes, TypeOK
<1>. QED
  BY <1>1, NetInvariant, PTL

\* NetClientBackend::doSumitMessages and NetClientSession::sendMessage start a write only when the
\* queue was empty: on a connection that stands, whatever waits is behind a write that is pending.
THEOREM NoMessageIsStuck == Spec => []NoMessageStuck
<1>1. NetInv => NoMessageStuck
  BY DEF NetInv, WritesInv, NoMessageStuck
<1>. QED
  BY <1>1, NetInvariant, PTL

\* The ids which NetClientBackend::queueOperations gives out connect results to their batch: what a
\* future gets is what came of the one execution of the operations queued with it.
THEOREM ResultsBelongToTheBatch == Spec => []ResultsAreOfTheBatch
<1>1. NetInv => ResultsAreOfTheBatch
  <2>. SUFFICES ASSUME NetInv PROVE ResultsAreOfTheBatch
    OBVIOUS
  <2>. USE DEF NetInv
  <2>1. \A a, b \in executed : a.client = b.client /\ a.id = b.id => a = b
    BY DEF BatchPlaces, BatchesExecuted
  <2>2. ASSUME NEW c \in Clients, NEW id \in DOMAIN futures[c], futures[c][id].ready
        PROVE  \E b \in executed : /\ b.client = c /\ b.id = id
                                   /\ b.results = futures[c][id].value
                                   /\ b.operations = Deserialized(futures[c][id].batch)
    <3>1. PICK b \in executed : b.client = c /\ b.id = id /\ b.results = futures[c][id].value
      BY <2>2 DEF ResultsKnown, OfBatch
    <3>2. b.operations = Deserialized(futures[c][id].batch)
      BY <3>1 DEF BatchPlaces, BatchesExecuted, IsOf
    <3>. QED
      BY <3>1, <3>2
  <2>. QED
    BY <2>1, <2>2 DEF ResultsAreOfTheBatch
<1>. QED
  BY <1>1, NetInvariant, PTL
=============================================================================
