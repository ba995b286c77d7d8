------------------------- MODULE SqliteBackendProofs -------------------------
(***************************************************************************)
(* Theorems about SqliteBackend, for all batches, endpoints and bounds:    *)
(* its invariants, and that it implements TransactionalStore, as each step *)
(* of either thread is a step of the store under the mapping of            *)
(* SqliteBackendStore, or leaves the store as it is.                       *)
(***************************************************************************)
EXTENDS SqliteBackendStore, BackendOperationsProofs

-----------------------------------------------------------------------------
(* The operators the backend is built from *)

\* Every handled change of a stream keeps the change lists lists of changes.
LEMMA AddedChangesType ==
  ASSUME NEW list \in [StreamIds -> Seq(Change)], NEW more \in [StreamIds -> Seq(Change)]
  PROVE  [s \in StreamIds |-> list[s] \o more[s]] \in [StreamIds -> Seq(Change)]
<1>1. ASSUME NEW s \in StreamIds
      PROVE  list[s] \o more[s] \in Seq(Change)
  BY ConcatProperties
<1>. QED
  BY <1>1

\* A queue of no changes.
LEMMA NoChangesType == NoChanges \in [StreamIds -> Seq(Change)]
  BY EmptySeq DEF NoChanges

-----------------------------------------------------------------------------
(* Type correctness *)

\* The initial state.
LEMMA InitType == Init => TypeOK /\ WorkerState
<1>. SUFFICES ASSUME Init PROVE TypeOK /\ WorkerState
  OBVIOUS
<1>1. storage \in Database /\ savepoint \in Database
  BY EmptySeq DEF Init, EmptyDatabase, Database
<1>2. /\ operationsQueue \in Seq(QueuedOperation) /\ newTasks \in Seq(QueuedOperation)
      /\ futures \in Seq(Future)
      /\ results \in Seq(Status)
  BY EmptySeq DEF Init
<1>3. streams \in Seq(Endpoint) /\ Len(streams) <= MaxStreams
  BY EmptySeq, BackendAssumption DEF Init
<1>4. /\ streamChanges \in [StreamIds -> Seq(Change)] /\ observed \in [StreamIds -> Seq(Change)]
      /\ transactionChanges \in [StreamIds -> Seq(Change)]
  BY NoChangesType DEF Init
<1>5. WorkerState
  BY DEF Init, WorkerState
<1>. QED
  BY <1>1, <1>2, <1>3, <1>4, <1>5 DEF Init, TypeOK

\* WorkerState is preserved: it says what each place in threadMain has taken over.
LEMMA NextWorkerState ==
  ASSUME TypeOK, WorkerState, [Next]_vars
  PROVE  WorkerState'
<1>. USE DEF WorkerState, taskVars, clientVars
<1>1. ASSUME NEW batch \in Batches, QueueOperations(batch) PROVE WorkerState'
  BY <1>1 DEF QueueOperations, Idle
<1>2. ASSUME NEW e \in Endpoints, CreateStream(e) PROVE WorkerState'
  BY <1>2 DEF CreateStream, Idle
<1>3. ASSUME NEW s \in StreamIds, ResetHandle(s) PROVE WorkerState'
  BY <1>3 DEF ResetHandle
<1>4. CASE Notify
  BY <1>4 DEF Notify, Woken
<1>5. CASE ApplyStreamChanges
  BY <1>5 DEF ApplyStreamChanges
<1>6. CASE Stop
  BY <1>6 DEF Stop, Woken, Idle
<1>7. CASE Join
  BY <1>7 DEF Join
<1>8. CASE Loop
  BY <1>8 DEF Loop
<1>9. CASE TakeTasks
  BY <1>9 DEF TakeTasks, NothingToDo
<1>10. CASE ActivateStreams
  BY <1>10 DEF ActivateStreams
<1>11. ASSUME NEW s \in StreamIds, LoadStream(s) PROVE WorkerState'
  BY <1>11 DEF LoadStream
<1>12. ASSUME NEW s \in StreamIds, AnnounceInitialized(s) PROVE WorkerState'
  BY <1>12 DEF AnnounceInitialized
<1>13. CASE StreamsInitialized
  BY <1>13 DEF StreamsInitialized
<1>14. CASE BeginTransaction
  BY <1>14 DEF BeginTransaction
<1>15. CASE ExecuteOperation
  BY <1>15 DEF ExecuteOperation
<1>16. CASE Commit
  BY <1>16 DEF Commit
<1>17. CASE Rollback
  BY <1>17 DEF Rollback
<1>18. CASE Resolve
  BY <1>18 DEF Resolve
<1>19. CASE TasksDone
  BY <1>19 DEF TasksDone
<1>20. CASE SpuriousWakeup
  BY <1>20 DEF SpuriousWakeup
<1>21. CASE UNCHANGED vars
  BY <1>21 DEF vars
<1>. QED
  BY <1>1, <1>2, <1>3, <1>4, <1>5, <1>6, <1>7, <1>8, <1>9, <1>10, <1>11, <1>12, <1>13, <1>14,
     <1>15, <1>16, <1>17, <1>18, <1>19, <1>20, <1>21 DEF Next, Client, Worker, Terminated

\* Streams are numbered in the order in which they are created.
LEMMA StreamsAreNumbered ==
  ASSUME TypeOK
  PROVE  /\ DOMAIN streams \subseteq StreamIds
         /\ \A r \in DOMAIN streams : r \in StreamIds /\ streams[r] \in Endpoint
<1>1. streams \in Seq(Endpoint) /\ Len(streams) <= MaxStreams /\ MaxStreams \in Nat
  BY BackendAssumption DEF TypeOK
<1>2. Len(streams) \in Nat /\ DOMAIN streams = 1 .. Len(streams)
  BY <1>1, LenProperties
<1>3. 1 .. Len(streams) \subseteq 1 .. MaxStreams
  BY <1>1, <1>2
<1>4. \A r \in DOMAIN streams : streams[r] \in Endpoint
  BY <1>1, ElementOfSeq
<1>. QED
  BY <1>2, <1>3, <1>4 DEF StreamIds

\* TypeOK is preserved.
LEMMA NextType ==
  ASSUME TypeOK, WorkerState, [Next]_vars
  PROVE  TypeOK'
<1>. USE DEF taskVars, clientVars
<1>0. \A r \in DOMAIN streams : r \in StreamIds /\ streams[r] \in Endpoint
  BY StreamsAreNumbered
<1>1. ASSUME NEW batch \in Batches, QueueOperations(batch) PROVE TypeOK'
  <2>1. batch \in Seq(Operation) /\ Len(futures) + 1 \in Nat
    BY BackendAssumption, LenProperties DEF TypeOK
  <2>2. [operations |-> batch, promise |-> Len(futures) + 1] \in QueuedOperation
    BY <2>1 DEF QueuedOperation
  <2>3. operationsQueue' \in Seq(QueuedOperation)
    BY <1>1, <2>2, AppendProperties DEF TypeOK, QueueOperations, PushedBack
  <2>4. [batch |-> batch, ready |-> FALSE, value |-> << >>]
          \in Future
    BY <2>1, EmptySeq DEF Future
  <2>5. futures' \in Seq(Future)
    BY <1>1, <2>4, AppendProperties DEF TypeOK, QueueOperations, PushedBack
  <2>. QED
    BY <1>1, <2>3, <2>5 DEF TypeOK, QueueOperations, PushedBack
<1>2. ASSUME NEW e \in Endpoints, CreateStream(e) PROVE TypeOK'
  <2>1. /\ streams' \in Seq(Endpoint)
        /\ Len(streams') = Len(streams) + 1
        /\ Len(streams) \in Nat
    BY <1>2, BackendAssumption, AppendProperties, LenProperties DEF TypeOK, CreateStream
  <2>2. Len(streams') <= MaxStreams
    BY <1>2, <2>1, BackendAssumption DEF CreateStream
  <2>3. DOMAIN streams' = DOMAIN streams \cup {Len(streams) + 1}
    BY <2>1, LenProperties DEF TypeOK
  <2>. QED
    BY <1>2, <2>1, <2>2, <2>3 DEF TypeOK, CreateStream
<1>3. ASSUME NEW s \in StreamIds, ResetHandle(s) PROVE TypeOK'
  BY <1>3 DEF TypeOK, ResetHandle
<1>4. CASE Notify
  BY <1>4 DEF TypeOK, Notify, Woken
<1>5. CASE ApplyStreamChanges
  <2>1. observed' \in [StreamIds -> Seq(Change)]
    <3>1. ASSUME NEW s \in StreamIds
          PROVE  observed[s] \o streamChanges[s] \in Seq(Change) /\ observed[s] \in Seq(Change)
      BY ConcatProperties DEF TypeOK
    <3>. QED
      BY <1>5, <3>1 DEF ApplyStreamChanges
  <2>. QED
    BY <1>5, <2>1, NoChangesType DEF TypeOK, ApplyStreamChanges
<1>6. CASE Stop
  BY <1>6 DEF TypeOK, Stop, Woken
<1>7. CASE Join
  BY <1>7 DEF TypeOK, Join
<1>8. CASE Loop
  BY <1>8 DEF TypeOK, Loop
<1>9. CASE TakeTasks
  BY <1>9, EmptySeq DEF TypeOK, TakeTasks, NothingToDo
<1>10. CASE ActivateStreams
  BY <1>10 DEF TypeOK, ActivateStreams
<1>11. ASSUME NEW s \in StreamIds, LoadStream(s) PROVE TypeOK'
  <2>1. streams[s] \in Endpoint
    BY <1>0, <1>11 DEF TypeOK, LoadStream, IsNext
  <2>2. streamChanges[s] \o InitialChanges(storage, streams[s]) \in Seq(Change)
    BY <2>1, InitialChangesType, ConcatProperties DEF TypeOK
  <2>. QED
    BY <1>11, <2>2 DEF TypeOK, LoadStream
<1>12. ASSUME NEW s \in StreamIds, AnnounceInitialized(s) PROVE TypeOK'
  <2>1. Append(streamChanges[s], Initialized) \in Seq(Change)
    BY AppendProperties DEF TypeOK, Change
  <2>. QED
    BY <1>12, <2>1 DEF TypeOK, AnnounceInitialized
<1>13. CASE StreamsInitialized
  BY <1>13 DEF TypeOK, StreamsInitialized
<1>14. CASE BeginTransaction
  BY <1>14 DEF TypeOK, BeginTransaction
<1>15. CASE ExecuteOperation
  <2>. DEFINE op == Head(newTasks).operations[Len(results) + 1]
  <2>1. op \in Operation
    <3>1. Head(newTasks) \in QueuedOperation
      BY <1>15, HeadTailProperties DEF TypeOK, WorkerState, ExecuteOperation
    <3>2. Len(results) + 1 \in 1 .. Len(Head(newTasks).operations)
      BY <1>15, <3>1, LenProperties DEF TypeOK, ExecuteOperation, QueuedOperation
    <3>. QED
      BY <3>1, <3>2, ElementOfSeq DEF QueuedOperation
  <2>2. storage' \in Database
    BY <1>15, <2>1, EffectType DEF TypeOK, ExecuteOperation
  <2>3. transactionChanges' \in [StreamIds -> Seq(Change)]
    <3>1. ASSUME NEW s \in StreamIds, s \in activeStreams
          PROVE  transactionChanges[s] \o ChangesFor(storage, op, streams[s]) \in Seq(Change)
      <4>1. ChangesFor(storage, op, streams[s]) \in Seq(Change)
        BY <1>0, <2>1, <3>1, ChangesForType DEF TypeOK
      <4>. QED
        BY <4>1, ConcatProperties DEF TypeOK
    <3>. QED
      BY <1>15, <3>1 DEF TypeOK, ExecuteOperation, ForeachStream
  <2>4. results' \in Seq(Status)
    BY <1>15, AppendProperties DEF TypeOK, ExecuteOperation, Status
  <2>. QED
    BY <1>15, <2>2, <2>3, <2>4 DEF TypeOK, ExecuteOperation
<1>16. CASE Commit
  <2>1. streamChanges' \in [StreamIds -> Seq(Change)]
    BY <1>16, AddedChangesType DEF TypeOK, Commit
  <2>. QED
    BY <1>16, <2>1 DEF TypeOK, Commit
<1>17. CASE Rollback
  BY <1>17 DEF TypeOK, Rollback
<1>18. CASE Resolve
  <2>1. newTasks' \in Seq(QueuedOperation)
    BY <1>18, HeadTailProperties DEF TypeOK, WorkerState, Resolve
  <2>2. futures' \in Seq(Future)
    <3>. DEFINE f == Head(newTasks).promise
                answer == [batch |-> futures[f].batch, ready |-> TRUE, value |-> results]
    <3>1. futures' = [futures EXCEPT ![f] = answer]
      BY <1>18 DEF Resolve
    <3>2. f \in DOMAIN futures => answer \in Future
      <4>1. f \in DOMAIN futures => futures[f] \in Future
        BY ElementOfSeq, LenProperties DEF TypeOK
      <4>. QED
        BY <4>1 DEF TypeOK, Future
    <3>. HIDE DEF f, answer
    <3>. QED
      BY <3>1, <3>2, ReplacedInSeq DEF TypeOK
  <2>3. transactionChanges' \in [StreamIds -> Seq(Change)]
    BY <1>18, NoChangesType DEF Resolve
  <2>4. results' \in Seq(Status)
    BY <1>18, EmptySeq DEF Resolve
  <2>. QED
    BY <1>18, <2>1, <2>2, <2>3, <2>4 DEF TypeOK, Resolve
<1>19. CASE TasksDone
  BY <1>19 DEF TypeOK, TasksDone
<1>20. CASE SpuriousWakeup
  BY <1>20 DEF TypeOK, SpuriousWakeup
<1>21. CASE UNCHANGED vars
  BY <1>21 DEF TypeOK, vars
<1>. QED
  BY <1>1, <1>2, <1>3, <1>4, <1>5, <1>6, <1>7, <1>8, <1>9, <1>10, <1>11, <1>12, <1>13, <1>14,
     <1>15, <1>16, <1>17, <1>18, <1>19, <1>20, <1>21 DEF Next, Client, Worker, Terminated

\* Every variable keeps its type: both threads, in any interleaving, for any client.
THEOREM TypeCorrect == Spec => [](TypeOK /\ WorkerState)
<1>1. TypeOK /\ WorkerState /\ [Next]_vars => (TypeOK /\ WorkerState)'
  BY NextType, NextWorkerState
<1>. QED
  BY InitType, <1>1, PTL DEF Spec

-----------------------------------------------------------------------------
(* No lost wakeup *)

\* No step loses a wakeup.
LEMMA NextWakeup ==
  ASSUME TypeOK, NoLostWakeup, [Next]_vars
  PROVE  NoLostWakeup'
<1>. USE DEF NoLostWakeup, taskVars, clientVars
<1>1. ASSUME NEW batch \in Batches, QueueOperations(batch) PROVE NoLostWakeup'
  BY <1>1 DEF QueueOperations, PushedBack
<1>2. ASSUME NEW e \in Endpoints, CreateStream(e) PROVE NoLostWakeup'
  BY <1>2 DEF CreateStream
<1>3. ASSUME NEW s \in StreamIds, ResetHandle(s) PROVE NoLostWakeup'
  BY <1>3 DEF ResetHandle, Idle
<1>4. CASE Notify
  BY <1>4 DEF Notify, Woken
<1>5. CASE ApplyStreamChanges
  BY <1>5 DEF ApplyStreamChanges
<1>6. CASE Stop
  BY <1>6 DEF Stop, Woken
<1>7. CASE Join
  BY <1>7 DEF Join
<1>8. CASE Loop
  BY <1>8 DEF Loop
<1>9. CASE TakeTasks
  BY <1>9 DEF TakeTasks, NothingToDo
<1>10. CASE ActivateStreams
  BY <1>10 DEF ActivateStreams
<1>11. ASSUME NEW s \in StreamIds, LoadStream(s) PROVE NoLostWakeup'
  BY <1>11 DEF LoadStream
<1>12. ASSUME NEW s \in StreamIds, AnnounceInitialized(s) PROVE NoLostWakeup'
  BY <1>12 DEF AnnounceInitialized
<1>13. CASE StreamsInitialized
  BY <1>13 DEF StreamsInitialized
<1>14. CASE BeginTransaction
  BY <1>14 DEF BeginTransaction
<1>15. CASE ExecuteOperation
  BY <1>15 DEF ExecuteOperation
<1>16. CASE Commit
  BY <1>16 DEF Commit
<1>17. CASE Rollback
  BY <1>17 DEF Rollback
<1>18. CASE Resolve
  BY <1>18 DEF Resolve
<1>19. CASE TasksDone
  BY <1>19 DEF TasksDone
<1>20. CASE SpuriousWakeup
  BY <1>20 DEF SpuriousWakeup
<1>21. CASE UNCHANGED vars
  BY <1>21 DEF vars
<1>. QED
  BY <1>1, <1>2, <1>3, <1>4, <1>5, <1>6, <1>7, <1>8, <1>9, <1>10, <1>11, <1>12, <1>13, <1>14,
     <1>15, <1>16, <1>17, <1>18, <1>19, <1>20, <1>21 DEF Next, Client, Worker, Terminated

\* The worker never waits on _workAvailableCondition while there is work which nobody is
\* about to notify it of.
THEOREM WakeupIsNotLost == Spec => []NoLostWakeup
<1>1. Init => NoLostWakeup
  BY DEF Init, NoLostWakeup
<1>2. TypeOK /\ NoLostWakeup /\ [Next]_vars => NoLostWakeup'
  BY NextWakeup
<1>. QED
  BY <1>1, <1>2, TypeCorrect, PTL DEF Spec

-----------------------------------------------------------------------------
(* Batches *)

\* Only queueing, taking over and answering batches move them.
LEMMA NextBatches ==
  ASSUME TypeOK, WorkerState, BatchesAccountedFor, [Next]_vars
  PROVE  BatchesAccountedFor'
<1>. USE DEF taskVars, clientVars
<1>. DEFINE answered == Len(futures) - Len(newTasks) - Len(operationsQueue)
<1>0. /\ Len(futures) \in Nat /\ Len(newTasks) \in Nat /\ Len(operationsQueue) \in Nat
      /\ DOMAIN futures = 1 .. Len(futures)
      /\ DOMAIN newTasks = 1 .. Len(newTasks)
      /\ DOMAIN operationsQueue = 1 .. Len(operationsQueue)
  BY LenProperties DEF TypeOK
<1>1. ASSUME NEW batch \in Batches, QueueOperations(batch) PROVE BatchesAccountedFor'
  <2>. DEFINE future == [batch |-> batch, ready |-> FALSE, value |-> << >>]
              entry == [operations |-> batch, promise |-> Len(futures) + 1]
  <2>1. /\ Len(futures') = Len(futures) + 1
        /\ DOMAIN futures' = 1 .. Len(futures) + 1
        /\ \A f \in 1 .. Len(futures) : futures'[f] = futures[f]
        /\ futures'[Len(futures) + 1] = future
    BY <1>1 DEF TypeOK, QueueOperations, PushedBack
  <2>2. /\ Len(operationsQueue') = Len(operationsQueue) + 1
        /\ DOMAIN operationsQueue' = 1 .. Len(operationsQueue) + 1
        /\ \A i \in 1 .. Len(operationsQueue) : operationsQueue'[i] = operationsQueue[i]
        /\ operationsQueue'[Len(operationsQueue) + 1] = entry
    BY <1>1 DEF TypeOK, QueueOperations, PushedBack
  <2>3. newTasks' = newTasks
    BY <1>1 DEF QueueOperations, PushedBack
  <2>4. answered' = answered /\ answered \in Nat /\ answered <= Len(futures)
    BY <1>0, <2>1, <2>2, <2>3 DEF BatchesAccountedFor
  <2>5. \A f \in DOMAIN futures' : Resolved(f)' <=> f <= answered'
    BY <1>0, <2>1, <2>4 DEF BatchesAccountedFor, Resolved
  <2>6. \A i \in DOMAIN newTasks' :
          newTasks'[i] = [operations |-> futures'[answered' + i].batch, promise |-> answered' + i]
    BY <1>0, <2>1, <2>3, <2>4 DEF BatchesAccountedFor
  <2>7. \A i \in DOMAIN operationsQueue' :
          operationsQueue'[i] = [operations |-> futures'[answered' + Len(newTasks') + i].batch,
                                 promise |-> answered' + Len(newTasks') + i]
    <3>1. ASSUME NEW i \in 1 .. Len(operationsQueue)
          PROVE  operationsQueue'[i] = [operations |-> futures'[answered + Len(newTasks) + i].batch,
                                        promise |-> answered + Len(newTasks) + i]
      <4>1. answered + Len(newTasks) + i \in 1 .. Len(futures)
        BY <1>0, <2>4
      <4>2. operationsQueue[i] = [operations |-> futures[answered + Len(newTasks) + i].batch,
                                  promise |-> answered + Len(newTasks) + i]
        BY <1>0 DEF BatchesAccountedFor
      <4>. QED
        BY <2>1, <2>2, <4>1, <4>2
    <3>2. answered + Len(newTasks) + (Len(operationsQueue) + 1) = Len(futures) + 1
      BY <1>0
    <3>3. operationsQueue'[Len(operationsQueue) + 1] =
            [operations |-> futures'[Len(futures) + 1].batch, promise |-> Len(futures) + 1]
      BY <2>1, <2>2
    <3>4. answered' + Len(newTasks') = answered + Len(newTasks)
      BY <2>3, <2>4
    <3>5. ASSUME NEW i \in DOMAIN operationsQueue'
          PROVE  operationsQueue'[i] = [operations |-> futures'[answered + Len(newTasks) + i].batch,
                                        promise |-> answered + Len(newTasks) + i]
      <4>1. CASE i \in 1 .. Len(operationsQueue)
        BY <3>1, <4>1
      <4>2. CASE i = Len(operationsQueue) + 1
        BY <3>2, <3>3, <4>2
      <4>. QED
        BY <1>0, <2>2, <4>1, <4>2
    <3>. QED
      BY <3>4, <3>5
  <2>. QED
    BY <2>4, <2>5, <2>6, <2>7 DEF BatchesAccountedFor
<1>2. CASE TakeTasks
  <2>1. newTasks = << >> /\ newTasks' = operationsQueue /\ operationsQueue' = << >> /\ futures' = futures
    BY <1>2 DEF TakeTasks, WorkerState
  <2>2. Len(newTasks) = 0 /\ Len(operationsQueue') = 0 /\ DOMAIN operationsQueue' = {}
    BY <2>1, EmptySeq
  <2>3. answered' = answered
    BY <1>0, <2>1, <2>2
  <2>. QED
    BY <1>0, <2>1, <2>2, <2>3 DEF BatchesAccountedFor, Resolved
<1>3. CASE Resolve
  <2>1. newTasks # << >>
    BY <1>3 DEF Resolve, WorkerState
  <2>2. /\ Len(newTasks) \in Nat \ {0} /\ Head(newTasks) = newTasks[1]
        /\ newTasks' = Tail(newTasks) /\ Len(newTasks') = Len(newTasks) - 1
        /\ DOMAIN newTasks' = 1 .. Len(newTasks) - 1
        /\ \A i \in 1 .. Len(newTasks) - 1 : newTasks'[i] = newTasks[i + 1]
    BY <1>3, <2>1, HeadAndRest, HeadTailProperties, LenProperties DEF TypeOK, Resolve
  <2>3. Head(newTasks).promise = answered + 1 /\ answered + 1 \in DOMAIN futures /\ answered \in Nat
    BY <1>0, <2>2 DEF BatchesAccountedFor
  <2>4. /\ Len(futures') = Len(futures) /\ DOMAIN futures' = DOMAIN futures
        /\ \A f \in DOMAIN futures : futures'[f].batch = futures[f].batch
        /\ \A f \in DOMAIN futures : f # answered + 1 => futures'[f] = futures[f]
        /\ futures'[answered + 1].ready = TRUE
    BY <1>0, <1>3, <2>3, SMTT(20) DEF TypeOK, Resolve
  <2>5. operationsQueue' = operationsQueue
    BY <1>3 DEF Resolve
  <2>6. answered' = answered + 1
    BY <1>0, <2>2, <2>4, <2>5
  <2>7. \A f \in DOMAIN futures' : Resolved(f)' <=> f <= answered'
    BY <1>0, <2>3, <2>4, <2>6, SMTT(20) DEF BatchesAccountedFor, Resolved
  <2>8. \A i \in DOMAIN newTasks' :
          newTasks'[i] = [operations |-> futures'[answered' + i].batch, promise |-> answered' + i]
    <3>1. ASSUME NEW i \in DOMAIN newTasks'
          PROVE  newTasks'[i] = [operations |-> futures'[answered' + i].batch, promise |-> answered' + i]
      <4>. DEFINE n == answered + (i + 1)
      <4>1. i + 1 \in DOMAIN newTasks /\ newTasks'[i] = newTasks[i + 1] /\ n \in DOMAIN futures
        BY <1>0, <2>2, <2>3
      <4>2. answered' + i = n
        <5>1. i \in Nat
          BY <2>2
        <5>. HIDE DEF answered
        <5>. QED
          BY <2>3, <2>6, <5>1
      <4>3. newTasks[i + 1] = [operations |-> futures[n].batch, promise |-> n]
        BY <4>1 DEF BatchesAccountedFor
      <4>4. futures'[n].batch = futures[n].batch
        BY <2>4, <4>1
      <4>. HIDE DEF n, answered
      <4>. QED
        BY <4>1, <4>2, <4>3, <4>4
    <3>. QED
      BY <3>1
  <2>9. \A i \in DOMAIN operationsQueue' :
          operationsQueue'[i] = [operations |-> futures'[answered' + Len(newTasks') + i].batch,
                                 promise |-> answered' + Len(newTasks') + i]
    <3>1. ASSUME NEW i \in DOMAIN operationsQueue
          PROVE  operationsQueue[i] = [operations |-> futures'[answered + Len(newTasks) + i].batch,
                                       promise |-> answered + Len(newTasks) + i]
      <4>1. answered + Len(newTasks) + i \in DOMAIN futures
        BY <1>0, <2>3
      <4>2. operationsQueue[i] = [operations |-> futures[answered + Len(newTasks) + i].batch,
                                  promise |-> answered + Len(newTasks) + i]
        BY DEF BatchesAccountedFor
      <4>. QED
        BY <2>4, <4>1, <4>2
    <3>2. answered' + Len(newTasks') = answered + Len(newTasks)
      BY <1>0, <2>2, <2>6
    <3>. QED
      BY <2>5, <3>1, <3>2
  <2>. QED
    BY <2>3, <2>6, <2>7, <2>8, <2>9 DEF BatchesAccountedFor
<1>4. CASE UNCHANGED <<futures, newTasks, operationsQueue>>
  BY <1>4 DEF BatchesAccountedFor, Resolved
<1>5. \/ \E batch \in Batches : QueueOperations(batch)
      \/ TakeTasks
      \/ Resolve
      \/ UNCHANGED <<futures, newTasks, operationsQueue>>
  BY DEF Next, Client, Worker, Terminated, vars, CreateStream, ResetHandle, Notify, ApplyStreamChanges,
         Stop, Join, Loop, ActivateStreams, LoadStream, AnnounceInitialized, StreamsInitialized,
         BeginTransaction, ExecuteOperation, Commit, Rollback, TasksDone, SpuriousWakeup
<1>. QED
  BY <1>1, <1>2, <1>3, <1>4, <1>5

\* Every batch is answered, taken over or queued, in the order in which it came, and is
\* answered with its own results.
THEOREM BatchesAreAccountedFor == Spec => []BatchesAccountedFor
<1>1. Init => BatchesAccountedFor
  BY EmptySeq DEF Init, BatchesAccountedFor
<1>2. TypeOK /\ WorkerState /\ BatchesAccountedFor /\ [Next]_vars => BatchesAccountedFor'
  BY NextBatches
<1>. QED
  BY <1>1, <1>2, TypeCorrect, PTL DEF Spec

\* threadMain answers the batches in the order in which queueOperations was called.
THEOREM AnswersComeInOrder == Spec => []ResolvedInOrder
<1>1. TypeOK /\ BatchesAccountedFor => ResolvedInOrder
  <2>1. ASSUME TypeOK, BatchesAccountedFor,
               NEW f \in DOMAIN futures, NEW g \in DOMAIN futures, f < g, Resolved(g)
        PROVE  Resolved(f)
    <3>1. /\ DOMAIN futures \subseteq Nat
          /\ Len(futures) \in Nat /\ Len(newTasks) \in Nat /\ Len(operationsQueue) \in Nat
      BY <2>1, LenProperties DEF TypeOK
    <3>. QED
      BY <2>1, <3>1 DEF BatchesAccountedFor
  <2>. QED
    BY <2>1 DEF ResolvedInOrder
<1>. QED
  BY <1>1, TypeCorrect, BatchesAreAccountedFor, PTL

\* stopAndJoin returns when no batch is half done.
THEOREM StopIsClean == Spec => []StopLeavesNoHalfBatch
<1>1. TypeOK /\ WorkerState /\ BatchesAccountedFor => StopLeavesNoHalfBatch
  <2>. SUFFICES ASSUME TypeOK, WorkerState, BatchesAccountedFor, clientPc = "stopped"
                PROVE  /\ \A f \in DOMAIN futures :
                            Resolved(f) <=> \A i \in DOMAIN operationsQueue : operationsQueue[i].promise # f
                       /\ storage = savepoint
    BY DEF StopLeavesNoHalfBatch
  <2>. DEFINE answered == Len(futures) - Len(newTasks) - Len(operationsQueue)
  <2>1. newTasks = << >> /\ storage = savepoint
    BY DEF WorkerState
  <2>2. /\ Len(newTasks) = 0
        /\ DOMAIN futures = 1 .. Len(futures) /\ Len(futures) \in Nat
        /\ DOMAIN operationsQueue = 1 .. Len(operationsQueue) /\ Len(operationsQueue) \in Nat
    BY <2>1, EmptySeq, LenProperties DEF TypeOK
  <2>3. \A i \in DOMAIN operationsQueue : operationsQueue[i].promise = answered + i
    BY <2>2 DEF BatchesAccountedFor
  <2>4. ASSUME NEW f \in DOMAIN futures
        PROVE  Resolved(f) <=> \A i \in DOMAIN operationsQueue : operationsQueue[i].promise # f
    <3>1. Resolved(f) <=> f <= answered
      BY DEF BatchesAccountedFor
    <3>2. f <= answered => \A i \in DOMAIN operationsQueue : operationsQueue[i].promise # f
      BY <2>2, <2>3
    <3>3. ~(f <= answered) => f - answered \in DOMAIN operationsQueue
      BY <2>2
    <3>. QED
      BY <2>2, <2>3, <3>1, <3>2, <3>3
  <2>. QED
    BY <2>1, <2>4
<1>. QED
  BY <1>1, TypeCorrect, BatchesAreAccountedFor, PTL

-----------------------------------------------------------------------------
(* The optimistic locking: what the revisions in the storage say of the operations that *)
(* have succeeded so far *)

Entry == [batch : Nat, place : Nat, op : Operation]

\* The first n operations of the batch which threadMain is at.
CurrentEntries(n) == Entries(Head(newTasks).promise, Head(newTasks).operations, n)

\* The operations whose effects the savepoint holds: those of the batches answered and, until
\* its answer is given, of the batch committed last.
Committed ==
  IF workerPc = "resolve" /\ ~Failed(results)
    THEN AnsweredEntries \cup CurrentEntries(Len(Head(newTasks).operations))
    ELSE AnsweredEntries

\* The operations whose effects the storage holds while a batch executes.
Executed == AnsweredEntries \cup CurrentEntries(Len(results))

IsRaised(db, item) ==
  /\ item.type \in Tables
  /\ item.id \in DOMAIN db[item.type]
  /\ item.revision < db[item.type][item.id].revision

\* An update which was not erased since has left a higher revision than its own.
RaisedIn(db, entries) ==
  \A p \in entries : p.op.op = "Update" =>
    \/ IsRaised(db, p.op.item)
    \/ \E r \in entries : r.op.op = "EraseAllData" /\ Before(p, r)

Explains(entries, db) == RaisedIn(db, entries) /\ NoConflict(entries)

\* How far the current batch is.
ResultsSoFar ==
  /\ workerPc \notin {"execute", "resolve"} => results = << >>
  /\ workerPc = "execute" => Len(results) <= Len(Head(newTasks).operations)
  /\ workerPc = "resolve" /\ ~Failed(results) => Len(results) = Len(Head(newTasks).operations)

\* The inductive invariant.
UpdatesInv ==
  /\ ResultsSoFar
  /\ Explains(Committed, savepoint)
  /\ workerPc = "execute" /\ ~Failed(results) => Explains(Executed, storage)

-----------------------------------------------------------------------------
(* One more operation *)

\* No operation but the erasure lowers a revision, and a successful update raises it.
LEMMA RevisionsRise ==
  ASSUME NEW db \in Database, NEW op \in Operation, op.op # "EraseAllData",
         NEW item \in Item, IsRaised(db, item)
  PROVE  IsRaised(Effect(db, op), item)
<1>. DEFINE t == item.type
            n == item.id
<1>0. /\ t \in Tables /\ n \in DOMAIN db[t] /\ item.revision < db[t][n].revision
      /\ db[t] \in Seq(Row) /\ db[t][n] \in Row /\ item.revision \in Nat
      /\ DOMAIN db = Tables
  BY ElementOfSeq DEF IsRaised, Database, Item
<1>1. CASE Effect(db, op) = db
  BY <1>1
<1>2. CASE Succeeds(db, op) /\ op.op = "StoreNew" /\ op.item.type # "Null"
  <2>1. /\ Effect(db, op) = StoreNewItem(db, op.item)
        /\ op.item \in Item /\ op.item.type \in Tables
    BY <1>2 DEF Effect, Operation, Succeeds, Item, ItemTypes
  <2>2. CASE op.item.type = t
    <3>. DEFINE row == [revision |-> 1, fields |-> op.item.fields, parts |-> op.item.parts]
    <3>1. Effect(db, op)[t] = Append(db[t], row)
      BY <1>0, <2>1, <2>2 DEF StoreNewItem
    <3>2. row \in Row
      BY <2>1 DEF Row, Item
    <3>3. n \in DOMAIN Append(db[t], row) /\ Append(db[t], row)[n] = db[t][n]
      <4>. HIDE DEF row
      <4>. QED
        BY <1>0, <3>2, AppendProperties, LenProperties
    <3>. QED
      BY <1>0, <3>1, <3>3 DEF IsRaised
  <2>3. CASE op.item.type # t
    <3>1. Effect(db, op)[t] = db[t]
      BY <1>0, <2>1, <2>3 DEF StoreNewItem
    <3>. QED
      BY <1>0, <3>1 DEF IsRaised
  <2>. QED
    BY <2>2, <2>3
<1>3. CASE Succeeds(db, op) /\ op.op = "Update"
  <2>1. Effect(db, op) = UpdateItem(db, op.item)
    BY <1>3 DEF Effect
  <2>2. DOMAIN UpdateItem(db, op.item)[t] = DOMAIN db[t]
    BY <1>0 DEF UpdateItem
  <2>3. CASE op.item.type = t /\ op.item.id = n
    <3>1. UpdateItem(db, op.item)[t][n].revision = db[t][n].revision + 1
      BY <1>0, <2>3 DEF UpdateItem
    <3>2. item.revision < db[t][n].revision + 1
      BY <1>0 DEF Row
    <3>. QED
      BY <1>0, <2>1, <2>2, <3>1, <3>2 DEF IsRaised
  <2>4. CASE ~(op.item.type = t /\ op.item.id = n)
    <3>1. UpdateItem(db, op.item)[t][n] = db[t][n]
      BY <1>0, <2>4 DEF UpdateItem
    <3>. QED
      BY <1>0, <2>1, <2>2, <3>1 DEF IsRaised
  <2>. QED
    BY <2>3, <2>4
<1>4. CASE Succeeds(db, op) /\ op.op = "Delete" /\ op.id \in DOMAIN db["Reservation"]
  <2>1. Effect(db, op) = [db EXCEPT !["Reservation"][op.id].parts = << >>]
    BY <1>4 DEF Effect, DeleteReservationById
  <2>2. DOMAIN Effect(db, op)[t] = DOMAIN db[t]
    BY <1>0, <2>1
  <2>3. Effect(db, op)[t][n].revision = db[t][n].revision
    <3>1. CASE t = "Reservation" /\ op.id = n
      <4>1. Effect(db, op)[t][n] = [db[t][n] EXCEPT !.parts = << >>]
        BY <1>0, <2>1, <3>1
      <4>. QED
        BY <1>0, <4>1 DEF Row
    <3>2. CASE ~(t = "Reservation" /\ op.id = n)
      <4>1. Effect(db, op)[t][n] = db[t][n]
        BY <1>0, <2>1, <3>2
      <4>. QED
        BY <4>1
    <3>. QED
      BY <3>1, <3>2
  <2>. QED
    BY <1>0, <2>2, <2>3 DEF IsRaised
<1>5. \/ Effect(db, op) = db
      \/ Succeeds(db, op) /\ op.op = "StoreNew" /\ op.item.type # "Null"
      \/ Succeeds(db, op) /\ op.op = "Update"
      \/ Succeeds(db, op) /\ op.op = "Delete" /\ op.id \in DOMAIN db["Reservation"]
  BY DEF Effect, Operation, DeleteReservationById
<1>. QED
  BY <1>1, <1>2, <1>3, <1>4, <1>5

\* An update which succeeds finds the revision of its object and leaves a higher one.
LEMMA UpdateRaises ==
  ASSUME NEW db \in Database, NEW op \in Operation, op.op = "Update", Succeeds(db, op)
  PROVE  op.item \in Item /\ ~IsRaised(db, op.item) /\ IsRaised(Effect(db, op), op.item)
<1>. DEFINE t == op.item.type
            n == op.item.id
<1>1. /\ op.item \in Item /\ t \in Tables /\ n \in DOMAIN db[t] /\ db[t][n].revision = op.item.revision
      /\ db[t] \in Seq(Row) /\ db[t][n] \in Row /\ DOMAIN db = Tables
  BY ElementOfSeq DEF Operation, Succeeds, Matches, Database
<1>2. Effect(db, op) = UpdateItem(db, op.item)
  BY DEF Effect
<1>3. DOMAIN UpdateItem(db, op.item)[t] = DOMAIN db[t]
  BY <1>1 DEF UpdateItem
<1>4. UpdateItem(db, op.item)[t][n].revision = db[t][n].revision + 1
  BY <1>1 DEF UpdateItem
<1>5. db[t][n].revision \in Nat
  BY <1>1 DEF Row
<1>. QED
  BY <1>1, <1>2, <1>3, <1>4, <1>5 DEF IsRaised

\* What explained the storage explains it after one more successful operation.
LEMMA OneMoreEntry ==
  ASSUME NEW db \in Database, NEW entries \in SUBSET Entry, NEW p \in Entry,
         \A q \in entries : Before(q, p),
         Succeeds(db, p.op), Explains(entries, db)
  PROVE  Explains(entries \cup {p}, Effect(db, p.op))
<1>0. /\ p.op \in Operation /\ p.batch \in Nat /\ p.place \in Nat
      /\ \A q \in entries : q.op \in Operation /\ q.batch \in Nat /\ q.place \in Nat
      /\ ~Before(p, p) /\ \A q \in entries : ~Before(p, q)
  BY DEF Entry, Before
<1>1. RaisedIn(Effect(db, p.op), entries \cup {p})
  <2>1. ASSUME NEW q \in entries \cup {p}, q.op.op = "Update"
        PROVE  \/ IsRaised(Effect(db, p.op), q.op.item)
               \/ \E r \in entries \cup {p} : r.op.op = "EraseAllData" /\ Before(q, r)
    <3>1. CASE q = p
      BY <1>0, <2>1, <3>1, UpdateRaises
    <3>2. CASE q \in entries /\ p.op.op = "EraseAllData"
      BY <3>2
    <3>3. CASE q \in entries /\ p.op.op # "EraseAllData"
      <4>1. CASE IsRaised(db, q.op.item)
        <5>1. q.op.item \in Item
          BY <1>0, <2>1, <3>3 DEF Operation
        <5>. QED
          BY <1>0, <3>3, <4>1, <5>1, RevisionsRise
      <4>2. CASE \E r \in entries : r.op.op = "EraseAllData" /\ Before(q, r)
        BY <4>2
      <4>. QED
        BY <2>1, <3>3, <4>1, <4>2 DEF Explains, RaisedIn
    <3>. QED
      BY <2>1, <3>1, <3>2, <3>3
  <2>. QED
    BY <2>1 DEF RaisedIn
<1>2. NoConflict(entries \cup {p})
  <2>1. ASSUME NEW q \in entries, SameRevision(q, p)
        PROVE  \E r \in entries : r.op.op = "EraseAllData" /\ Before(q, r) /\ Before(r, p)
    <3>1. ~IsRaised(db, p.op.item)
      BY <1>0, <2>1, UpdateRaises DEF SameRevision
    <3>2. ~IsRaised(db, q.op.item)
      BY <2>1, <3>1 DEF SameRevision, IsRaised
    <3>. QED
      BY <2>1, <3>2 DEF Explains, RaisedIn, SameRevision
  <2>2. ASSUME NEW q \in entries \cup {p}, NEW r \in entries \cup {p}, Before(q, r), SameRevision(q, r)
        PROVE  \E e \in entries \cup {p} : e.op.op = "EraseAllData" /\ Before(q, e) /\ Before(e, r)
    <3>1. CASE r = p
      BY <1>0, <2>1, <2>2, <3>1
    <3>2. CASE r \in entries
      BY <1>0, <2>2, <3>2 DEF Explains, NoConflict
    <3>. QED
      BY <2>2, <3>1, <3>2
  <2>. QED
    BY <2>2 DEF NoConflict
<1>. QED
  BY <1>1, <1>2 DEF Explains

-----------------------------------------------------------------------------
(* The batches *)

\* The entries of a batch are entries.
LEMMA EntriesType ==
  ASSUME NEW f \in Nat, NEW batch \in Seq(Operation), NEW n \in Nat, n <= Len(batch)
  PROVE  Entries(f, batch, n) \in SUBSET Entry
<1>1. ASSUME NEW i \in 1 .. n
      PROVE  [batch |-> f, place |-> i, op |-> batch[i]] \in Entry
  <2>1. i \in 1 .. Len(batch)
    BY LenProperties
  <2>. QED
    BY <2>1, ElementOfSeq DEF Entry
<1>. QED
  BY <1>1 DEF Entries

\* So are those of the batches answered.
LEMMA AnsweredType ==
  ASSUME TypeOK
  PROVE  AnsweredEntries \in SUBSET Entry
<1>1. ASSUME NEW f \in DOMAIN futures
      PROVE  Entries(f, futures[f].batch, Len(futures[f].batch)) \in SUBSET Entry
  <2>1. f \in Nat /\ futures[f] \in Future
    BY ElementOfSeq, LenProperties DEF TypeOK
  <2>2. futures[f].batch \in Seq(Operation) /\ Len(futures[f].batch) \in Nat
    BY <2>1, LenProperties DEF Future
  <2>. QED
    BY <2>1, <2>2, EntriesType
<1>. QED
  BY <1>1 DEF AnsweredEntries

\* The batch which threadMain is at comes after all those answered.
LEMMA CurrentBatch ==
  ASSUME TypeOK, WorkerState, BatchesAccountedFor, newTasks # << >>
  PROVE  /\ Head(newTasks).promise \in DOMAIN futures /\ Head(newTasks).promise \in Nat
         /\ Head(newTasks).operations \in Seq(Operation)
         /\ Head(newTasks).operations = futures[Head(newTasks).promise].batch
         /\ \A f \in DOMAIN futures : Resolved(f) => f < Head(newTasks).promise
<1>. DEFINE answered == Len(futures) - Len(newTasks) - Len(operationsQueue)
<1>1. /\ Len(futures) \in Nat /\ Len(newTasks) \in Nat \ {0} /\ Len(operationsQueue) \in Nat
      /\ DOMAIN futures = 1 .. Len(futures) /\ DOMAIN newTasks = 1 .. Len(newTasks)
      /\ Head(newTasks) = newTasks[1] /\ Head(newTasks) \in QueuedOperation
  BY HeadAndRest, HeadTailProperties, LenProperties DEF TypeOK
<1>2. answered \in Nat /\ answered + 1 \in DOMAIN futures
  BY <1>1 DEF BatchesAccountedFor
<1>3. newTasks[1] = [operations |-> futures[answered + 1].batch, promise |-> answered + 1]
  BY <1>1 DEF BatchesAccountedFor
<1>4. \A f \in DOMAIN futures : Resolved(f) => f < answered + 1
  BY <1>1, <1>2 DEF BatchesAccountedFor
<1>. QED
  BY <1>1, <1>2, <1>3, <1>4 DEF QueuedOperation

\* The property itself.
LEMMA ExplainedNoConflict ==
  ASSUME TypeOK, WorkerState, BatchesAccountedFor, UpdatesInv
  PROVE  NoConflictingUpdates
<1>1. CASE Committed = AnsweredEntries
  BY <1>1 DEF UpdatesInv, Explains, NoConflictingUpdates
<1>2. CASE Committed # AnsweredEntries
  <2>. DEFINE c == Head(newTasks).promise
              current == CurrentEntries(Len(Head(newTasks).operations))
  <2>1. newTasks # << >> /\ Committed = AnsweredEntries \cup current
    BY <1>2 DEF Committed, WorkerState
  <2>2. c \in Nat /\ \A f \in DOMAIN futures : Resolved(f) => f < c
    BY <2>1, CurrentBatch
  <2>3. \A r \in current : r.batch = c
    BY DEF CurrentEntries, Entries
  <2>4. \A q \in AnsweredEntries : q.batch \in Nat /\ q.batch < c
    <3>1. \A q \in AnsweredEntries : \E f \in DOMAIN futures : Succeeded(f) /\ q.batch = f
      BY DEF AnsweredEntries, Entries
    <3>. QED
      BY <2>2, <3>1, AnsweredType DEF Succeeded, Entry
  <2>5. \A q \in AnsweredEntries, r \in current : ~Before(r, q)
    <3>. HIDE DEF c, current
    <3>. QED
      BY <2>2, <2>3, <2>4 DEF Before
  <2>6. ASSUME NEW p \in AnsweredEntries, NEW q \in AnsweredEntries, Before(p, q), SameRevision(p, q)
        PROVE  \E r \in AnsweredEntries : r.op.op = "EraseAllData" /\ Before(p, r) /\ Before(r, q)
    <3>1. \E r \in Committed : r.op.op = "EraseAllData" /\ Before(p, r) /\ Before(r, q)
      BY <2>1, <2>6 DEF UpdatesInv, Explains, NoConflict
    <3>. QED
      BY <2>1, <2>5, <3>1
  <2>. QED
    BY <2>6 DEF NoConflictingUpdates, NoConflict
<1>. QED
  BY <1>1, <1>2

-----------------------------------------------------------------------------
(* The steps *)

\* A batch which is only queued has no entry.
LEMMA QueueingAddsNoEntry ==
  ASSUME TypeOK, NEW batch \in Batches, QueueOperations(batch)
  PROVE  AnsweredEntries' = AnsweredEntries
<1>. DEFINE future == [batch |-> batch, ready |-> FALSE, value |-> << >>]
<1>1. batch \in Seq(Operation)
  BY BackendAssumption
<1>2. future \in Future
  BY <1>1, EmptySeq DEF Future
<1>3. /\ DOMAIN futures' = DOMAIN futures \cup {Len(futures) + 1}
      /\ Len(futures) + 1 \notin DOMAIN futures
      /\ \A f \in DOMAIN futures : futures'[f] = futures[f]
      /\ futures'[Len(futures) + 1] = future
  BY <1>2, AppendProperties, LenProperties DEF TypeOK, QueueOperations
<1>4. {g \in DOMAIN futures' : Succeeded(g)'} = {g \in DOMAIN futures : Succeeded(g)}
  BY <1>3 DEF Succeeded, Resolved
<1>5. AnsweredEntries' = UNION {Entries(f, futures'[f].batch, Len(futures'[f].batch)) :
                                  f \in {g \in DOMAIN futures' : Succeeded(g)'}}
  BY DEF AnsweredEntries, Entries
<1>6. \A f \in {g \in DOMAIN futures : Succeeded(g)} :
        Entries(f, futures'[f].batch, Len(futures'[f].batch)) = Entries(f, futures[f].batch, Len(futures[f].batch))
  BY <1>3
<1>. QED
  BY <1>4, <1>5, <1>6 DEF AnsweredEntries

\* Answering a batch makes its entries entries of a batch answered, if it succeeded.
LEMMA AnsweringKeepsCommitted ==
  ASSUME TypeOK, WorkerState, BatchesAccountedFor, Resolve
  PROVE  AnsweredEntries' = Committed
<1>. DEFINE c == Head(newTasks).promise
            new == [batch |-> futures[c].batch, ready |-> TRUE, value |-> results]
            EntriesOf(f) == Entries(f, futures[f].batch, Len(futures[f].batch))
            before == {g \in DOMAIN futures : Succeeded(g)}
            after == {g \in DOMAIN futures' : Succeeded(g)'}
<1>1. newTasks # << >> /\ workerPc = "resolve"
  BY DEF Resolve, WorkerState
<1>2. /\ c \in DOMAIN futures
      /\ Head(newTasks).operations = futures[c].batch
      /\ \A f \in DOMAIN futures : Resolved(f) => f < c
      /\ c \in Nat
  BY <1>1, CurrentBatch
<1>3. c \notin before
  BY <1>2 DEF Succeeded
<1>4. /\ DOMAIN futures' = DOMAIN futures
      /\ \A f \in DOMAIN futures : f # c => futures'[f] = futures[f]
      /\ futures'[c] = new
  BY <1>2 DEF Resolve, TypeOK
<1>5. \A f \in DOMAIN futures : futures'[f].batch = futures[f].batch
  BY <1>4
<1>6. AnsweredEntries' = UNION {Entries(f, futures'[f].batch, Len(futures'[f].batch)) : f \in after}
  BY DEF AnsweredEntries, Entries
<1>7. AnsweredEntries' = UNION {EntriesOf(f) : f \in after}
  BY <1>4, <1>5, <1>6
<1>8. after = IF Failed(results) THEN before ELSE before \cup {c}
  BY <1>2, <1>3, <1>4 DEF Succeeded, Resolved
<1>9. EntriesOf(c) = CurrentEntries(Len(Head(newTasks).operations))
  BY <1>2 DEF CurrentEntries
<1>10. AnsweredEntries = UNION {EntriesOf(f) : f \in before}
  BY DEF AnsweredEntries
<1>. HIDE DEF c, before, after, EntriesOf, new
<1>. QED
  BY <1>1, <1>7, <1>8, <1>9, <1>10 DEF Committed

\* A successful operation is one more entry, and comes after all others.
LEMMA ExecutingAddsEntry ==
  ASSUME TypeOK, WorkerState, BatchesAccountedFor, UpdatesInv, ExecuteOperation
  PROVE  UpdatesInv'
<1>. DEFINE c == Head(newTasks).promise
            operations == Head(newTasks).operations
            n == Len(results) + 1
            op == operations[n]
            p == [batch |-> c, place |-> n, op |-> op]
<1>1. /\ newTasks # << >> /\ workerPc = "execute" /\ workerPc' = "execute"
      /\ ~Failed(results) /\ Len(results) < Len(operations)
      /\ newTasks' = newTasks /\ futures' = futures /\ savepoint' = savepoint
      /\ storage' = Effect(storage, op)
      /\ results' = Append(results, IF Succeeds(storage, op) THEN "Successful" ELSE "Error")
  BY DEF ExecuteOperation, WorkerState
<1>2. /\ c \in DOMAIN futures /\ c \in Nat /\ operations \in Seq(Operation)
      /\ \A f \in DOMAIN futures : Resolved(f) => f < c
  BY <1>1, CurrentBatch
<1>3. /\ n \in Nat /\ n \in 1 .. Len(operations) /\ op \in Operation
      /\ Len(results) \in Nat /\ Len(operations) \in Nat
      /\ results \in Seq(Status) /\ storage \in Database
  BY <1>1, <1>2, LenProperties, ElementOfSeq DEF TypeOK
<1>4. Len(results') = n /\ results' \in Seq(Status)
  BY <1>1, <1>3, AppendProperties DEF Status
<1>5. AnsweredEntries' = AnsweredEntries
  BY <1>1 DEF AnsweredEntries, Succeeded, Resolved
<1>6. Committed' = Committed
  BY <1>1, <1>5 DEF Committed
<1>7. ResultsSoFar'
  BY <1>1, <1>3, <1>4 DEF ResultsSoFar
<1>8. ASSUME ~Failed(results')
      PROVE  Explains(Executed', storage')
  <2>1. Succeeds(storage, op)
    <3>1. n \in DOMAIN results' /\ results'[n] = IF Succeeds(storage, op) THEN "Successful" ELSE "Error"
      BY <1>1, <1>3, AppendProperties, LenProperties DEF Status
    <3>. QED
      BY <1>8, <3>1 DEF Failed
  <2>2. Executed' = Executed \cup {p}
    <3>1. Executed' = AnsweredEntries \cup Entries(c, operations, n)
      BY <1>1, <1>4, <1>5 DEF Executed, CurrentEntries, Entries
    <3>2. 1 .. n = 1 .. Len(results) \cup {n}
      BY <1>3
    <3>3. Entries(c, operations, n) = Entries(c, operations, Len(results)) \cup {p}
      <4>. HIDE DEF c, operations, n
      <4>. QED
        BY <3>2 DEF Entries
    <3>. QED
      BY <3>1, <3>3 DEF Executed, CurrentEntries
  <2>3. Executed \in SUBSET Entry
    <3>1. AnsweredEntries \in SUBSET Entry
      BY AnsweredType
    <3>2. c \in Nat /\ operations \in Seq(Operation) /\ Len(results) \in Nat /\ Len(results) <= Len(operations)
      BY <1>1, <1>2, <1>3
    <3>3. Executed = AnsweredEntries \cup Entries(c, operations, Len(results))
      BY DEF Executed, CurrentEntries
    <3>. HIDE DEF c, operations
    <3>4. Entries(c, operations, Len(results)) \in SUBSET Entry
      BY <3>2, EntriesType
    <3>. QED
      BY <3>1, <3>3, <3>4
  <2>4. p \in Entry
    BY <1>2, <1>3 DEF Entry
  <2>5. \A q \in Executed : Before(q, p)
    <3>1. ASSUME NEW q \in AnsweredEntries PROVE Before(q, p)
      <4>1. PICK f \in DOMAIN futures : Succeeded(f) /\ q.batch = f
        BY DEF AnsweredEntries, Entries
      <4>. QED
        BY <1>2, <4>1 DEF Succeeded, Before
    <3>2. ASSUME NEW q \in CurrentEntries(Len(results)) PROVE Before(q, p)
      <4>1. q.batch = c /\ q.place \in 1 .. Len(results)
        BY DEF CurrentEntries, Entries
      <4>. QED
        BY <1>3, <4>1 DEF Before
    <3>. QED
      BY <3>1, <3>2 DEF Executed
  <2>6. Explains(Executed, storage)
    BY <1>1 DEF UpdatesInv
  <2>. HIDE DEF p
  <2>7. p.op = op
    BY DEF p
  <2>. QED
    BY <1>1, <1>3, <2>1, <2>2, <2>3, <2>4, <2>5, <2>6, <2>7, OneMoreEntry
<1>. QED
  BY <1>1, <1>6, <1>7, <1>8 DEF UpdatesInv

\* UpdatesInv is preserved.
LEMMA NextUpdates ==
  ASSUME TypeOK, WorkerState, BatchesAccountedFor, UpdatesInv, [Next]_vars
  PROVE  UpdatesInv'
<1>. USE DEF taskVars, clientVars
<1>1. ASSUME UNCHANGED <<storage, savepoint, newTasks, results>>, AnsweredEntries' = AnsweredEntries,
             \/ workerPc' = workerPc
             \/ workerPc \notin {"execute", "resolve"} /\ workerPc' \notin {"execute", "resolve"}
      PROVE  UpdatesInv'
  <2>1. Committed' = Committed /\ Executed' = Executed
    BY <1>1 DEF Committed, Executed, CurrentEntries, Entries
  <2>2. ResultsSoFar'
    BY <1>1 DEF UpdatesInv, ResultsSoFar
  <2>. QED
    BY <1>1, <2>1, <2>2 DEF UpdatesInv
<1>2. futures' = futures => AnsweredEntries' = AnsweredEntries
  BY DEF AnsweredEntries, Succeeded, Resolved
<1>3. ASSUME NEW batch \in Batches, QueueOperations(batch) PROVE UpdatesInv'
  <2>1. AnsweredEntries' = AnsweredEntries
    BY <1>3, QueueingAddsNoEntry
  <2>2. UNCHANGED <<storage, savepoint, newTasks, results, workerPc>>
    BY <1>3 DEF QueueOperations
  <2>. QED
    BY <1>1, <2>1, <2>2
<1>4. CASE TakeTasks
  <2>1. /\ workerPc \notin {"execute", "resolve"} /\ workerPc' \notin {"execute", "resolve"}
        /\ UNCHANGED <<futures, savepoint, results>>
    BY <1>4 DEF TakeTasks
  <2>2. Committed' = AnsweredEntries /\ Committed = AnsweredEntries
    BY <1>2, <2>1 DEF Committed
  <2>. QED
    BY <2>1, <2>2 DEF UpdatesInv, ResultsSoFar
<1>5. CASE BeginTransaction
  <2>1. /\ workerPc = "task" /\ workerPc' = "execute" /\ newTasks # << >>
        /\ UNCHANGED <<futures, storage, savepoint, results, newTasks>>
    BY <1>5 DEF BeginTransaction
  <2>2. results = << >> /\ storage = savepoint /\ Len(results) = 0
    BY <2>1 DEF UpdatesInv, ResultsSoFar, WorkerState
  <2>3. Len(Head(newTasks).operations) \in Nat
    BY <2>1, CurrentBatch, LenProperties
  <2>4. Committed' = AnsweredEntries /\ Committed = AnsweredEntries
    BY <1>2, <2>1 DEF Committed
  <2>5. Executed' = AnsweredEntries
    BY <1>2, <2>1, <2>2 DEF Executed, CurrentEntries, Entries
  <2>6. ResultsSoFar'
    BY <2>1, <2>2, <2>3 DEF ResultsSoFar
  <2>. QED
    BY <2>1, <2>2, <2>4, <2>5, <2>6 DEF UpdatesInv
<1>6. CASE ExecuteOperation
  BY <1>6, ExecutingAddsEntry
<1>7. CASE Commit
  <2>1. /\ workerPc = "execute" /\ workerPc' = "resolve" /\ ~Failed(results)
        /\ Len(results) = Len(Head(newTasks).operations) /\ savepoint' = storage
        /\ UNCHANGED <<futures, storage, results, newTasks>>
    BY <1>7 DEF Commit
  <2>2. Committed' = Executed
    BY <1>2, <2>1 DEF Committed, Executed, CurrentEntries, Entries
  <2>3. Explains(Executed, storage)
    BY <2>1 DEF UpdatesInv
  <2>. QED
    BY <2>1, <2>2, <2>3 DEF UpdatesInv, ResultsSoFar
<1>8. CASE Rollback
  <2>1. /\ workerPc = "execute" /\ workerPc' = "resolve" /\ Failed(results) /\ savepoint' = savepoint
        /\ UNCHANGED <<futures, results, newTasks>>
    BY <1>8 DEF Rollback
  <2>2. Committed' = AnsweredEntries /\ Committed = AnsweredEntries
    BY <1>2, <2>1 DEF Committed
  <2>. QED
    BY <2>1, <2>2 DEF UpdatesInv, ResultsSoFar
<1>9. CASE Resolve
  <2>1. workerPc' = "task" /\ results' = << >> /\ savepoint' = savepoint
    BY <1>9 DEF Resolve
  <2>2. Committed' = Committed
    <3>1. Committed' = AnsweredEntries'
      BY <2>1 DEF Committed
    <3>. QED
      BY <1>9, <3>1, AnsweringKeepsCommitted
  <2>. QED
    BY <2>1, <2>2 DEF UpdatesInv, ResultsSoFar
<1>10. \/ \E batch \in Batches : QueueOperations(batch)
       \/ TakeTasks \/ BeginTransaction \/ ExecuteOperation \/ Commit \/ Rollback \/ Resolve
       \/ /\ UNCHANGED <<storage, savepoint, newTasks, results, futures>>
          /\ \/ workerPc' = workerPc
             \/ workerPc \notin {"execute", "resolve"} /\ workerPc' \notin {"execute", "resolve"}
  BY DEF Next, Client, Worker, Terminated, vars, CreateStream, ResetHandle, Notify, Woken, ApplyStreamChanges,
         Stop, Join, Loop, ActivateStreams, LoadStream, AnnounceInitialized, StreamsInitialized,
         TasksDone, SpuriousWakeup
<1>. QED
  BY <1>1, <1>2, <1>3, <1>4, <1>5, <1>6, <1>7, <1>8, <1>9, <1>10

\* What the revisions in the storage say of the batches executed, in every reachable state.
THEOREM UpdatesInvariant == Spec => []UpdatesInv
<1>1. Init => UpdatesInv
  <2>. SUFFICES ASSUME Init PROVE UpdatesInv
    OBVIOUS
  <2>1. workerPc = "loop" /\ results = << >> /\ DOMAIN futures = {}
    BY EmptySeq DEF Init
  <2>2. Committed = {}
    BY <2>1 DEF Committed, AnsweredEntries
  <2>. QED
    BY <2>1, <2>2 DEF UpdatesInv, ResultsSoFar, Explains, RaisedIn, NoConflict
<1>2. TypeOK /\ WorkerState /\ BatchesAccountedFor /\ UpdatesInv /\ [Next]_vars => UpdatesInv'
  BY NextUpdates
<1>. QED
  BY <1>1, <1>2, TypeCorrect, BatchesAreAccountedFor, PTL DEF Spec

\* Of the successful updates of one revision of an object the second has an erasure of all
\* data between itself and the first: no client overwrites what it has not seen.
THEOREM UpdatesDoNotConflict == Spec => []NoConflictingUpdates
<1>1. TypeOK /\ WorkerState /\ BatchesAccountedFor /\ UpdatesInv => NoConflictingUpdates
  BY ExplainedNoConflict
<1>. QED
  BY <1>1, TypeCorrect, BatchesAreAccountedFor, UpdatesInvariant, PTL

-----------------------------------------------------------------------------
(***************************************************************************)
(* What the streams show                                                   *)
(*                                                                         *)
(* A log that shows what the storage holds still does so after an          *)
(* operation has changed the storage and the log has got what the          *)
(* operation means to its stream (OperationFollowed).  The changes of an   *)
(* open transaction belong to the log of the storage that the transaction  *)
(* writes to, and the others to the storage as it was committed.           *)
(***************************************************************************)

(* What a log shows *)

\* An operation that stores or updates a reservation gives it an atom.
HasAtoms(op) ==
  op.op \in {"StoreNew", "Update"} /\ op.item.type = "Reservation" => op.item.parts # << >>

\* Every item shown is one of the database, in its revision there.
ShowsNoStaleItem(log, db, e) ==
  \A i \in Contents(log) : \E j \in Loaded(db, e) : SameItem(i, j)

\* Every item of the database is shown, unless its update was ignored.
ShowsEveryItem(log, db, e) ==
  \A j \in Loaded(db, e) : (\E i \in Contents(log) : SameItem(i, j)) \/ IgnoredUpdate(log, j.id)

\* What is added was not shown before.
AddsOnce(log) ==
  \A n \in DOMAIN log : log[n].kind = "added" =>
    \A i \in View(log)[n - 1], j \in log[n].items : i.id # j.id

\* A log shows what the database holds for an endpoint.
Shows(log, db, e) ==
  /\ Contents(log) \subseteq Item
  /\ ShowsNoStaleItem(log, db, e)
  /\ ShowsEveryItem(log, db, e)
  /\ AddsOnce(log)

\* The stream of endpoint e carries the row of a table with an id.
Concerns(e, table, id) ==
  /\ table \in Tables /\ e.type = table
  /\ HasHandler(e)
  /\ e.service = "by_id" => e.id = id

\* SameItem compares everything of two items but the parts of a hotel.
LEMMA SameItemMeans ==
  ASSUME NEW a \in Item, NEW b \in Item
  PROVE  SameItem(a, b) <=> /\ a.type = b.type /\ a.id = b.id /\ a.revision = b.revision
                            /\ a.fields = b.fields
                            /\ a.type = "Reservation" => a.parts = b.parts
<1>1. /\ a = [type |-> a.type, id |-> a.id, revision |-> a.revision, fields |-> a.fields, parts |-> a.parts]
      /\ b = [type |-> b.type, id |-> b.id, revision |-> b.revision, fields |-> b.fields, parts |-> b.parts]
  BY DEF Item
<1>2. /\ [a EXCEPT !.parts = << >>] = [type |-> a.type, id |-> a.id, revision |-> a.revision,
                                       fields |-> a.fields, parts |-> << >>]
      /\ [b EXCEPT !.parts = << >>] = [type |-> b.type, id |-> b.id, revision |-> b.revision,
                                       fields |-> b.fields, parts |-> << >>]
  BY <1>1
<1>. QED
  BY <1>2 DEF SameItem

\* The items of a stream are the rows it carries, but for reservations without atoms.
LEMMA LoadedRows ==
  ASSUME NEW db \in Database, NEW e \in Endpoint, NEW j
  PROVE  j \in Loaded(db, e) <=>
           /\ e.type \in Tables
           /\ \E id \in DOMAIN db[e.type] :
                /\ Concerns(e, e.type, id)
                /\ e.type = "Reservation" => db[e.type][id].parts # << >>
                /\ j = ItemAt(db, e.type, id)
<1>1. CASE e.type \notin Tables \/ ~HasHandler(e)
  BY <1>1 DEF Loaded, Concerns
<1>2. CASE e.type \in Tables /\ HasHandler(e) /\ e.service = "by_id"
  <2>1. Loaded(db, e) = LoadById(db, e.type, e.id)
    BY <1>2 DEF Loaded
  <2>2. j \in LoadById(db, e.type, e.id) <=> IsLoadable(db, e.type, e.id) /\ j = ItemAt(db, e.type, e.id)
    BY DEF LoadById
  <2>. QED
    BY <1>2, <2>1, <2>2 DEF IsLoadable, Concerns
<1>3. CASE e.type \in Tables /\ HasHandler(e) /\ e.service # "by_id"
  <2>1. Loaded(db, e) = LoadAll(db, e.type)
    BY <1>3 DEF Loaded
  <2>2. j \in LoadAll(db, e.type) <=>
          \E id \in DOMAIN db[e.type] : IsLoadable(db, e.type, id) /\ j = ItemAt(db, e.type, id)
    BY DEF LoadAll
  <2>. QED
    BY <1>3, <2>1, <2>2 DEF IsLoadable, Concerns
<1>. QED
  BY <1>1, <1>2, <1>3

\* Each item is loaded from the row with its id.
LEMMA LoadedItem ==
  ASSUME NEW db \in Database, NEW e \in Endpoint, NEW j \in Loaded(db, e)
  PROVE  /\ j \in Item /\ e.type \in Tables /\ j.type = e.type /\ j.id \in DOMAIN db[e.type]
         /\ Concerns(e, e.type, j.id)
         /\ e.type = "Reservation" => db[e.type][j.id].parts # << >>
         /\ j = ItemAt(db, e.type, j.id)
<1>1. j \in Item
  BY LoadedType
<1>. QED
  BY <1>1, LoadedRows DEF ItemAt

-----------------------------------------------------------------------------
(* One more change on a log *)

\* Changes may be appended one by one or together.
LEMMA ChangesAssociative ==
  \A a, b, c \in Seq(Change) : a \o (b \o c) = (a \o b) \o c
<1>. DEFINE C == Change
<1>. HIDE DEF C
<1>1. \A a, b, c \in Seq(C) : a \o (b \o c) = (a \o b) \o c
  BY ConcatAssociative, SMTT(20)
<1>. QED
  BY <1>1 DEF C

\* An ignored update stays ignored until the stream is cleared.
LEMMA StaysIgnored ==
  ASSUME NEW log \in Seq(Change), NEW c \in Change, c.kind # "cleared",
         NEW id, IgnoredUpdate(log, id)
  PROVE  IgnoredUpdate(log \o <<c>>, id)
<1>. DEFINE longer == log \o <<c>>
<1>1. PICK n \in DOMAIN log : /\ log[n].kind = "updated" /\ \E i \in log[n].items : i.id = id
                              /\ \A i \in View(log)[n - 1] : i.id # id
                              /\ \A m \in n .. Len(log) : log[m].kind # "cleared"
  BY DEF IgnoredUpdate
<1>2. /\ Len(log) \in Nat /\ DOMAIN log = 1 .. Len(log)
      /\ Len(longer) = Len(log) + 1 /\ DOMAIN longer = DOMAIN log \cup {Len(log) + 1}
      /\ \A m \in DOMAIN log : longer[m] = log[m]
      /\ longer[Len(log) + 1] = c
      /\ \A m \in 0 .. Len(log) : View(longer)[m] = View(log)[m]
  BY OneMoreChange, LenProperties
<1>. HIDE DEF longer
<1>3. n \in DOMAIN longer /\ longer[n] = log[n] /\ View(longer)[n - 1] = View(log)[n - 1]
  BY <1>2
<1>4. \A m \in n .. Len(longer) : longer[m].kind # "cleared"
  <2>1. ASSUME NEW m \in n .. Len(longer) PROVE longer[m].kind # "cleared"
    <3>1. CASE m = Len(log) + 1
      BY <1>2, <3>1
    <3>2. CASE m # Len(log) + 1
      BY <1>1, <1>2, <3>2
    <3>. QED
      BY <3>1, <3>2
  <2>. QED
    BY <2>1
<1>5. IgnoredUpdate(longer, id)
  BY <1>1, <1>3, <1>4 DEF IgnoredUpdate
<1>. QED
  BY <1>5 DEF longer

\* An update of an item that is not shown is ignored.
LEMMA BecomesIgnored ==
  ASSUME NEW log \in Seq(Change), NEW item \in Item, \A i \in Contents(log) : i.id # item.id
  PROVE  IgnoredUpdate(log \o <<Updated({item})>>, item.id)
<1>. DEFINE c == Updated({item})
            longer == log \o <<c>>
            n == Len(log) + 1
<1>1. c \in Change /\ c.kind = "updated" /\ c.items = {item}
  BY DEF Updated, Change
<1>2. /\ Len(log) \in Nat
      /\ Len(longer) = n /\ n \in DOMAIN longer /\ longer[n] = c
      /\ View(longer)[Len(log)] = View(log)[Len(log)]
  <2>. HIDE DEF c
  <2>. QED
    BY <1>1, OneMoreChange, LenProperties
<1>3. n - 1 = Len(log) /\ \A m \in n .. Len(longer) : m = n
  BY <1>2
<1>4. \A i \in View(longer)[n - 1] : i.id # item.id
  BY <1>2, <1>3 DEF Contents
<1>. HIDE DEF c, longer, n
<1>5. IgnoredUpdate(longer, item.id)
  BY <1>1, <1>2, <1>3, <1>4 DEF IgnoredUpdate
<1>. QED
  BY <1>5 DEF longer, c

\* A change that adds nothing that is shown keeps items from being added twice.
LEMMA AddsOnceMore ==
  ASSUME NEW log \in Seq(Change), NEW c \in Change, AddsOnce(log),
         c.kind = "added" => \A i \in Contents(log), j \in c.items : i.id # j.id
  PROVE  AddsOnce(log \o <<c>>)
<1>. DEFINE longer == log \o <<c>>
<1>1. /\ Len(log) \in Nat /\ DOMAIN log = 1 .. Len(log)
      /\ DOMAIN longer = DOMAIN log \cup {Len(log) + 1}
      /\ \A m \in DOMAIN log : longer[m] = log[m]
      /\ longer[Len(log) + 1] = c
      /\ \A m \in 0 .. Len(log) : View(longer)[m] = View(log)[m]
  BY OneMoreChange, LenProperties
<1>. HIDE DEF longer
<1>2. ASSUME NEW n \in DOMAIN longer, longer[n].kind = "added",
             NEW i \in View(longer)[n - 1], NEW j \in longer[n].items
      PROVE  i.id # j.id
  <2>1. CASE n = Len(log) + 1
    <3>1. n - 1 = Len(log) /\ View(longer)[n - 1] = Contents(log)
      BY <1>1, <2>1 DEF Contents
    <3>. QED
      BY <1>1, <1>2, <2>1, <3>1
  <2>2. CASE n \in DOMAIN log
    <3>1. View(longer)[n - 1] = View(log)[n - 1] /\ longer[n] = log[n]
      BY <1>1, <2>2
    <3>. QED
      BY <1>2, <2>2, <3>1 DEF AddsOnce
  <2>. QED
    BY <1>1, <2>1, <2>2
<1>. QED
  BY <1>2 DEF AddsOnce, longer

-----------------------------------------------------------------------------
(* What an operation does to the items of a stream *)

\* Items are their fields.
LEMMA EqualItems ==
  ASSUME NEW x \in Item, NEW y \in Item, x.type = y.type, x.id = y.id,
         x.revision = y.revision, x.fields = y.fields, x.parts = y.parts
  PROVE  x = y
<1>1. /\ x = [type |-> x.type, id |-> x.id, revision |-> x.revision, fields |-> x.fields, parts |-> x.parts]
      /\ y = [type |-> y.type, id |-> y.id, revision |-> y.revision, fields |-> y.fields, parts |-> y.parts]
  BY DEF Item
<1>. QED
  BY <1>1

\* The fields of an object which was given an id and a revision.
LEMMA IdentifiedItemIs ==
  ASSUME NEW item \in Item, NEW k \in Nat, NEW r \in Nat
  PROVE  [item EXCEPT !.id = k, !.revision = r]
           = [type |-> item.type, id |-> k, revision |-> r, fields |-> item.fields, parts |-> item.parts]
<1>. DEFINE changed == [item EXCEPT !.id = k, !.revision = r]
            made == [type |-> item.type, id |-> k, revision |-> r, fields |-> item.fields,
                     parts |-> item.parts]
<1>1. /\ changed.type = item.type /\ changed.id = k /\ changed.revision = r
      /\ changed.fields = item.fields /\ changed.parts = item.parts
      /\ changed \in Item
  BY DEF Item
<1>2. made \in Item
  BY DEF Item
<1>. HIDE DEF changed
<1>3. changed = made
  BY <1>1, <1>2, EqualItems
<1>. QED
  BY <1>3 DEF changed

\* After a store the new row is there, and every other as it was.
LEMMA LoadedAfterStore ==
  ASSUME NEW db \in Database, NEW item \in Item, item.type \in Tables,
         item.type = "Reservation" => item.parts # << >>,
         NEW e \in Endpoint, NEW j
  PROVE  LET stored == StoredItem(db, item)
         IN  /\ stored \in Item /\ stored.type = item.type /\ stored.id \notin DOMAIN db[item.type]
             /\ j \in Loaded(StoreNewItem(db, item), e) <=>
                  j \in Loaded(db, e) \/ (j = stored /\ Concerns(e, stored.type, stored.id))
<1>. DEFINE t == item.type
            n == Len(db[t]) + 1
            row == [revision |-> 1, fields |-> item.fields, parts |-> item.parts]
            stored == StoredItem(db, item)
            after == StoreNewItem(db, item)
<1>1. db[t] \in Seq(Row) /\ DOMAIN db[t] = 1 .. Len(db[t]) /\ Len(db[t]) \in Nat
  BY LenProperties DEF Database
<1>2. item = [type |-> t, id |-> item.id, revision |-> item.revision, fields |-> item.fields,
              parts |-> item.parts]
  BY DEF Item
<1>3. stored = [type |-> t, id |-> n, revision |-> 1, fields |-> item.fields, parts |-> item.parts]
  <2>1. n \in Nat /\ stored = [item EXCEPT !.id = n, !.revision = 1]
    BY <1>1 DEF StoredItem
  <2>. HIDE DEF n, stored
  <2>. QED
    BY <2>1, IdentifiedItemIs
<1>4. stored \in Item
  BY <1>1, <1>3 DEF Item
<1>5. row \in Row
  BY DEF Row, Item
<1>6. /\ after[t] = Append(db[t], row)
      /\ \A u \in Tables : u # t => after[u] = db[u]
      /\ after \in Database
  <2>1. Append(db[t], row) \in Seq(Row)
    BY <1>1, <1>5, AppendProperties
  <2>. QED
    BY <2>1 DEF StoreNewItem, Database
<1>7. /\ DOMAIN after[t] = DOMAIN db[t] \cup {n}
      /\ \A i \in DOMAIN db[t] : after[t][i] = db[t][i]
      /\ after[t][n] = row
  BY <1>1, <1>5, <1>6, AppendProperties, LenProperties
<1>8. ItemAt(after, t, n) = stored
  BY <1>3, <1>7 DEF ItemAt
<1>9. \A i \in DOMAIN db[t] : ItemAt(after, t, i) = ItemAt(db, t, i)
  BY <1>7 DEF ItemAt
<1>10. \A u \in Tables : u # t => \A i : ItemAt(after, u, i) = ItemAt(db, u, i)
  BY <1>6 DEF ItemAt
<1>r. j \in Loaded(after, e) <=>
            /\ e.type \in Tables
            /\ \E i \in DOMAIN after[e.type] :
                 /\ Concerns(e, e.type, i)
                 /\ e.type = "Reservation" => after[e.type][i].parts # << >>
                 /\ j = ItemAt(after, e.type, i)
  <2>1. after \in Database
    BY <1>6
  <2>. HIDE DEF after
  <2>. QED
    BY <2>1, LoadedRows
<1>11. j \in Loaded(after, e) <=> j \in Loaded(db, e) \/ (j = stored /\ Concerns(e, t, n))
  <2>1. CASE e.type = t
    <3>1. j \in Loaded(after, e) <=>
            \E i \in DOMAIN after[t] : /\ Concerns(e, t, i)
                                       /\ t = "Reservation" => after[t][i].parts # << >>
                                       /\ j = ItemAt(after, t, i)
      BY <1>r, <2>1
    <3>2. j \in Loaded(db, e) <=>
            \E i \in DOMAIN db[t] : /\ Concerns(e, t, i)
                                    /\ t = "Reservation" => db[t][i].parts # << >>
                                    /\ j = ItemAt(db, t, i)
      BY <2>1, LoadedRows
    <3>3. t = "Reservation" => after[t][n].parts # << >>
      BY <1>7
    <3>. HIDE DEF after, stored, row, t, n
    <3>. QED
      BY <1>7, <1>8, <1>9, <3>1, <3>2, <3>3
  <2>2. CASE e.type # t
    <3>1. j \in Loaded(after, e) <=> j \in Loaded(db, e)
      <4>1. e.type \in Tables => after[e.type] = db[e.type] /\ \A i : ItemAt(after, e.type, i) = ItemAt(db, e.type, i)
        BY <1>6, <1>10, <2>2
      <4>2. j \in Loaded(db, e) <=>
            /\ e.type \in Tables
            /\ \E i \in DOMAIN db[e.type] :
                 /\ Concerns(e, e.type, i)
                 /\ e.type = "Reservation" => db[e.type][i].parts # << >>
                 /\ j = ItemAt(db, e.type, i)
        BY LoadedRows
      <4>. HIDE DEF after
      <4>. QED
        BY <1>r, <4>1, <4>2
    <3>. QED
      BY <2>2, <3>1 DEF Concerns
  <2>. QED
    BY <2>1, <2>2
<1>12. stored.type = t /\ stored.id = n /\ n \notin DOMAIN db[t]
  BY <1>1, <1>3
<1>. QED
  BY <1>4, <1>11, <1>12

\* After an update that matches, the row has the next revision, and every other is as it was.
LEMMA LoadedAfterUpdate ==
  ASSUME NEW db \in Database, NEW item \in Item, item.type \in Tables, Matches(db, item),
         item.type = "Reservation" => item.parts # << >>,
         NEW e \in Endpoint, NEW j \in Loaded(UpdateItem(db, item), e)
  PROVE  LET updated == [item EXCEPT !.revision = @ + 1]
         IN  IF e.type = item.type /\ j.id = item.id
               THEN SameItem(j, updated)
               ELSE j \in Loaded(db, e)
<1>. DEFINE t == item.type
            n == item.id
            old == db[t][n]
            row == [revision |-> old.revision + 1, fields |-> item.fields,
                    parts |-> IF t = "Hotel" THEN old.parts ELSE item.parts]
            updated == [item EXCEPT !.revision = @ + 1]
            after == UpdateItem(db, item)
<1>1. db[t] \in Seq(Row) /\ n \in DOMAIN db[t] /\ old \in Row /\ old.revision = item.revision
  BY ElementOfSeq, LenProperties DEF Matches, Database
<1>2. row \in Row
  BY <1>1 DEF Row, Item
<1>3. /\ after[t] = [db[t] EXCEPT ![n] = row]
      /\ \A u \in Tables : u # t => after[u] = db[u]
      /\ after \in Database
  <2>1. [db[t] EXCEPT ![n] = row] \in Seq(Row)
    BY <1>1, <1>2, ReplacedInSeq
  <2>. QED
    BY <2>1 DEF UpdateItem, Database
<1>4. /\ DOMAIN after[t] = DOMAIN db[t]
      /\ \A i \in DOMAIN db[t] : i # n => after[t][i] = db[t][i]
      /\ after[t][n] = row
  BY <1>1, <1>3
<1>5. updated = [type |-> t, id |-> n, revision |-> item.revision + 1, fields |-> item.fields,
                 parts |-> item.parts]
  BY DEF Item
<1>6. updated \in Item
  BY <1>5 DEF Item
<1>7. /\ j \in Item /\ e.type \in Tables /\ j.type = e.type /\ j.id \in DOMAIN after[e.type]
      /\ Concerns(e, e.type, j.id)
      /\ e.type = "Reservation" => after[e.type][j.id].parts # << >>
      /\ j = ItemAt(after, e.type, j.id)
  <2>. HIDE DEF after
  <2>. QED
    BY <1>3, LoadedItem DEF after
<1>8. CASE e.type = t /\ j.id = n
  <2>1. j = [type |-> t, id |-> n, revision |-> item.revision + 1, fields |-> item.fields,
             parts |-> row.parts]
    BY <1>1, <1>4, <1>7, <1>8 DEF ItemAt
  <2>2. t # "Hotel" => row.parts = item.parts
    OBVIOUS
  <2>. HIDE DEF updated, row
  <2>3. SameItem(j, updated)
    BY <1>5, <1>6, <1>7, <2>1, <2>2, SameItemMeans
  <2>. QED
    BY <1>8, <2>3 DEF updated
<1>9. CASE ~(e.type = t /\ j.id = n)
  <2>1. /\ after[e.type][j.id] = db[e.type][j.id]
        /\ j.id \in DOMAIN db[e.type]
    <3>1. CASE e.type = t
      BY <1>4, <1>7, <1>9, <3>1
    <3>2. CASE e.type # t
      BY <1>3, <1>7, <3>2
    <3>. QED
      BY <3>1, <3>2
  <2>2. ItemAt(after, e.type, j.id) = ItemAt(db, e.type, j.id)
    BY <2>1 DEF ItemAt
  <2>3. j \in Loaded(db, e)
    <3>. HIDE DEF after
    <3>. QED
      BY <1>7, <2>1, <2>2, LoadedRows
  <2>. QED
    BY <1>9, <2>3
<1>. QED
  BY <1>8, <1>9

\* ... and no row is lost.
LEMMA LoadedBeforeUpdate ==
  ASSUME NEW db \in Database, NEW item \in Item, item.type \in Tables, Matches(db, item),
         item.type = "Reservation" => item.parts # << >>,
         NEW e \in Endpoint, NEW j \in Loaded(db, e)
  PROVE  IF e.type = item.type /\ j.id = item.id
           THEN \E k \in Loaded(UpdateItem(db, item), e) : k.id = item.id
           ELSE j \in Loaded(UpdateItem(db, item), e)
<1>. DEFINE t == item.type
            n == item.id
            old == db[t][n]
            row == [revision |-> old.revision + 1, fields |-> item.fields,
                    parts |-> IF t = "Hotel" THEN old.parts ELSE item.parts]
            after == UpdateItem(db, item)
<1>1. db[t] \in Seq(Row) /\ n \in DOMAIN db[t] /\ old \in Row
  BY ElementOfSeq, LenProperties DEF Matches, Database
<1>2. row \in Row
  BY <1>1 DEF Row, Item
<1>3. /\ after[t] = [db[t] EXCEPT ![n] = row]
      /\ \A u \in Tables : u # t => after[u] = db[u]
      /\ after \in Database
  <2>1. [db[t] EXCEPT ![n] = row] \in Seq(Row)
    BY <1>1, <1>2, ReplacedInSeq
  <2>. QED
    BY <2>1 DEF UpdateItem, Database
<1>4. /\ DOMAIN after[t] = DOMAIN db[t]
      /\ \A i \in DOMAIN db[t] : i # n => after[t][i] = db[t][i]
      /\ after[t][n] = row
  BY <1>1, <1>3
<1>5. /\ e.type \in Tables /\ j.type = e.type /\ j.id \in DOMAIN db[e.type]
      /\ Concerns(e, e.type, j.id)
      /\ e.type = "Reservation" => db[e.type][j.id].parts # << >>
      /\ j = ItemAt(db, e.type, j.id)
  BY LoadedItem
<1>6. CASE e.type = t /\ j.id = n
  <2>1. t = "Reservation" => after[t][n].parts # << >>
    BY <1>4
  <2>2. ItemAt(after, t, n).id = n
    BY DEF ItemAt
  <2>3. ItemAt(after, t, n) \in Loaded(after, e)
    <3>. HIDE DEF after, t, n
    <3>. QED
      BY <1>1, <1>3, <1>4, <1>5, <1>6, <2>1, LoadedRows
  <2>. QED
    BY <1>6, <2>2, <2>3
<1>7. CASE ~(e.type = t /\ j.id = n)
  <2>1. /\ after[e.type][j.id] = db[e.type][j.id]
        /\ j.id \in DOMAIN after[e.type]
    <3>1. CASE e.type = t
      BY <1>4, <1>5, <1>7, <3>1
    <3>2. CASE e.type # t
      BY <1>3, <1>5, <3>2
    <3>. QED
      BY <3>1, <3>2
  <2>2. ItemAt(after, e.type, j.id) = ItemAt(db, e.type, j.id)
    BY <2>1 DEF ItemAt
  <2>3. j \in Loaded(after, e)
    <3>. DEFINE id == j.id
    <3>1. /\ e.type \in Tables /\ after \in Database /\ id \in DOMAIN after[e.type]
          /\ Concerns(e, e.type, id) /\ j = ItemAt(after, e.type, id)
          /\ e.type = "Reservation" => after[e.type][id].parts # << >>
      BY <1>3, <1>5, <2>1, <2>2
    <3>. HIDE DEF after, id
    <3>. QED
      BY <3>1, LoadedRows
  <2>. QED
    BY <1>7, <2>3
<1>. QED
  BY <1>6, <1>7

\* After a deletion the reservation has no atoms: it is not loaded any more.
LEMMA LoadedAfterDelete ==
  ASSUME NEW db \in Database, NEW id \in Nat, NEW e \in Endpoint, NEW j
  PROVE  j \in Loaded(DeleteReservationById(db, id), e) <=>
           j \in Loaded(db, e) /\ ~(e.type = "Reservation" /\ j.id = id)
<1>. DEFINE t == "Reservation"
            after == DeleteReservationById(db, id)
            row == [db[t][id] EXCEPT !.parts = << >>]
<1>1. CASE id \notin DOMAIN db[t]
  <2>1. after = db
    BY <1>1 DEF DeleteReservationById
  <2>2. j \in Loaded(db, e) /\ e.type = t => j.id # id
    BY <1>1, LoadedItem
  <2>. QED
    BY <2>1, <2>2
<1>2. CASE id \in DOMAIN db[t]
  <2>1. db[t] \in Seq(Row) /\ db[t][id] \in Row
    BY <1>2, ElementOfSeq, LenProperties DEF Database, Tables
  <2>2. row \in Row /\ row.parts = << >>
    <3>1. << >> \in Seq(Part)
      BY EmptySeq
    <3>2. \A r \in Row, p \in Seq(Part) : [r EXCEPT !.parts = p] \in Row /\ [r EXCEPT !.parts = p].parts = p
      BY DEF Row
    <3>. QED
      BY <2>1, <3>1, <3>2
  <2>3. /\ after[t] = [db[t] EXCEPT ![id] = row]
        /\ after["Hotel"] = db["Hotel"]
        /\ after \in Database
    <3>1. [db[t] EXCEPT ![id] = row] \in Seq(Row)
      BY <2>1, <2>2, ReplacedInSeq
    <3>2. after = [db EXCEPT ![t] = [db[t] EXCEPT ![id] = row]]
      BY <1>2 DEF DeleteReservationById
    <3>. HIDE DEF row, after
    <3>. QED
      BY <3>1, <3>2 DEF Database, Tables
  <2>4. /\ DOMAIN after[t] = DOMAIN db[t]
        /\ \A i \in DOMAIN db[t] : i # id => after[t][i] = db[t][i]
        /\ after[t][id].parts = << >>
    BY <1>2, <2>1, <2>2, <2>3
  <2>r. /\ j \in Loaded(after, e) <=>
            /\ e.type \in Tables
            /\ \E i \in DOMAIN after[e.type] :
                 /\ Concerns(e, e.type, i)
                 /\ e.type = "Reservation" => after[e.type][i].parts # << >>
                 /\ j = ItemAt(after, e.type, i)
        /\ j \in Loaded(db, e) <=>
            /\ e.type \in Tables
            /\ \E i \in DOMAIN db[e.type] :
                 /\ Concerns(e, e.type, i)
                 /\ e.type = "Reservation" => db[e.type][i].parts # << >>
                 /\ j = ItemAt(db, e.type, i)
    <3>1. after \in Database
      BY <2>3
    <3>. HIDE DEF after
    <3>. QED
      BY <3>1, LoadedRows, SMTT(20)
  <2>5. CASE e.type # t
    <3>1. e.type \in Tables => after[e.type] = db[e.type] /\ \A i : ItemAt(after, e.type, i) = ItemAt(db, e.type, i)
      BY <2>3, <2>5 DEF Tables, ItemAt
    <3>2. j \in Loaded(after, e) <=> j \in Loaded(db, e)
      <4>. HIDE DEF after
      <4>. QED
        BY <2>5, <2>r, <3>1
    <3>. QED
      BY <2>5, <3>2
  <2>6. CASE e.type = t
    <3>1. \A i \in DOMAIN db[t] : i # id => ItemAt(after, t, i) = ItemAt(db, t, i)
      BY <2>4 DEF ItemAt
    <3>2. \A i : ItemAt(after, t, i).id = i /\ ItemAt(db, t, i).id = i
      BY DEF ItemAt
    <3>3. /\ j \in Loaded(after, e) <=>
                \E i \in DOMAIN after[t] : /\ Concerns(e, t, i) /\ after[t][i].parts # << >>
                                           /\ j = ItemAt(after, t, i)
          /\ j \in Loaded(db, e) <=>
                \E i \in DOMAIN db[t] : /\ Concerns(e, t, i) /\ db[t][i].parts # << >>
                                        /\ j = ItemAt(db, t, i)
      <4>. HIDE DEF after
      <4>. QED
        BY <2>6, <2>r DEF Tables
    <3>4. j \in Loaded(after, e) <=> j \in Loaded(db, e) /\ j.id # id
      <4>. HIDE DEF after
      <4>. QED
        BY <1>2, <2>4, <2>6, <3>1, <3>2, <3>3
    <3>. QED
      BY <2>6, <3>4
  <2>. QED
    BY <2>5, <2>6
<1>. QED
  BY <1>1, <1>2

\* After the erasure there is nothing to load.
LEMMA LoadedAfterErase ==
  ASSUME NEW e \in Endpoint
  PROVE  Loaded(DeleteAll, e) = {}
<1>1. DeleteAll \in Database /\ \A t \in Tables : DOMAIN DeleteAll[t] = {}
  BY EmptySeq DEF DeleteAll, EmptyDatabase, Database
<1>2. ASSUME NEW j \in Loaded(DeleteAll, e) PROVE FALSE
  BY <1>1, LoadedItem
<1>. QED
  BY <1>2

-----------------------------------------------------------------------------
(* A log that shows the database follows an operation on it *)

\* Assigning an item keeps what SameItem compares.
LEMMA AssignedItem ==
  ASSUME NEW old \in Item, NEW new \in Item
  PROVE  AssignItem(old, new) \in Item /\ SameItem(AssignItem(old, new), new)
<1>1. CASE new.type = "Hotel"
  <2>. DEFINE assigned == [new EXCEPT !.parts = old.parts \o new.parts]
  <2>1. old.parts \o new.parts \in Seq(Part)
    BY ConcatProperties DEF Item
  <2>2. /\ assigned \in Item
        /\ assigned.type = new.type /\ assigned.id = new.id /\ assigned.revision = new.revision
        /\ assigned.fields = new.fields
    BY <2>1 DEF Item
  <2>3. AssignItem(old, new) = assigned
    BY <1>1 DEF AssignItem
  <2>. HIDE DEF assigned
  <2>4. SameItem(assigned, new)
    BY <1>1, <2>2, SameItemMeans
  <2>. QED
    BY <2>2, <2>3, <2>4
<1>2. CASE new.type # "Hotel"
  BY <1>2 DEF AssignItem, SameItem
<1>. QED
  BY <1>1, <1>2

\* An update of one item replaces the item with its id and no other.
LEMMA ReplacedItems ==
  ASSUME NEW view, NEW new, NEW i
  PROVE  i \in ReplaceItems(view, {new}) <=>
           \E old \in view : i = IF old.id = new.id THEN AssignItem(old, new) ELSE old
<1>1. ASSUME NEW old
      PROVE  (IF \E n \in {new} : n.id = old.id
                THEN AssignItem(old, CHOOSE n \in {new} : n.id = old.id) ELSE old)
             = IF old.id = new.id THEN AssignItem(old, new) ELSE old
  <2>1. CASE old.id = new.id
    <3>1. (CHOOSE n \in {new} : n.id = old.id) = new
      BY <2>1
    <3>. QED
      BY <2>1, <3>1
  <2>2. CASE old.id # new.id
    BY <2>2
  <2>. QED
    BY <2>1, <2>2
<1>. QED
  BY <1>1 DEF ReplaceItems

\* The changes of an operation that a stream does not carry, or that failed.
LEMMA ShowsTheSame ==
  ASSUME NEW db, NEW after, NEW e, NEW log \in Seq(Change), Shows(log, db, e),
         \A j : j \in Loaded(after, e) <=> j \in Loaded(db, e)
  PROVE  Shows(log \o << >>, after, e)
<1>1. log \o << >> = log
  BY ConcatEmptySeq
<1>. QED
  BY <1>1 DEF Shows, ShowsNoStaleItem, ShowsEveryItem

\* A new row is added to the streams that carry it.
LEMMA StoreFollowed ==
  ASSUME NEW db \in Database, NEW item \in Item, item.type \in Tables,
         item.type = "Reservation" => item.parts # << >>,
         NEW e \in Endpoint, NEW log \in Seq(Change), Shows(log, db, e)
  PROVE  LET stored == StoredItem(db, item)
         IN  Shows(log \o ItemChanges(e, stored, Added({stored})), StoreNewItem(db, item), e)
<1>. DEFINE stored == StoredItem(db, item)
            after == StoreNewItem(db, item)
            c == Added({stored})
            longer == log \o <<c>>
<1>1. /\ stored \in Item /\ stored.type = item.type /\ stored.id \notin DOMAIN db[item.type]
      /\ \A j : j \in Loaded(after, e) <=>
                j \in Loaded(db, e) \/ (j = stored /\ Concerns(e, stored.type, stored.id))
  BY LoadedAfterStore
<1>. HIDE DEF stored, after
<1>2. c \in Change /\ c.kind = "added" /\ c.items = {stored}
  BY <1>1 DEF Added, Change
<1>3. ItemChanges(e, stored, c) = IF Concerns(e, stored.type, stored.id) THEN <<c>> ELSE << >>
  BY <1>1 DEF ItemChanges, Concerns
<1>4. CASE ~Concerns(e, stored.type, stored.id)
  <2>1. Shows(log \o << >>, after, e)
    BY <1>1, <1>4, ShowsTheSame
  <2>. QED
    BY <1>3, <1>4, <2>1 DEF after, stored
<1>5. CASE Concerns(e, stored.type, stored.id)
  <2>. HIDE DEF c
  <2>1. Contents(longer) = Contents(log) \cup {stored}
    <3>1. Contents(longer) = ApplyChange(Contents(log), c)
      BY <1>2, OneMoreChange
    <3>. QED
      BY <1>2, <3>1 DEF ApplyChange
  <2>2. \A j : j \in Loaded(after, e) <=> j \in Loaded(db, e) \/ j = stored
    BY <1>1, <1>5
  <2>3. \A i \in Contents(log), j \in c.items : i.id # j.id
    <3>1. ASSUME NEW i \in Contents(log) PROVE i.id # stored.id
      <4>1. PICK j \in Loaded(db, e) : SameItem(i, j)
        BY DEF Shows, ShowsNoStaleItem
      <4>2. j \in Item /\ i \in Item /\ j.id \in DOMAIN db[item.type]
        BY <1>1, <1>5, LoadedItem DEF Concerns, Shows
      <4>. QED
        BY <1>1, <4>1, <4>2, SameItemMeans
    <3>. QED
      BY <1>2, <3>1
  <2>4. AddsOnce(longer)
    BY <1>2, <2>3, AddsOnceMore DEF Shows
  <2>5. \A id : IgnoredUpdate(log, id) => IgnoredUpdate(longer, id)
    BY <1>2, StaysIgnored
  <2>. HIDE DEF longer
  <2>6. SameItem(stored, stored)
    BY DEF SameItem
  <2>7. Shows(longer, after, e)
    BY <1>1, <2>1, <2>2, <2>4, <2>5, <2>6 DEF Shows, ShowsNoStaleItem, ShowsEveryItem
  <2>. QED
    BY <1>3, <1>5, <2>7 DEF longer, c, after, stored
<1>. QED
  BY <1>4, <1>5

\* An updated row is replaced in the streams that show it; the others ignore it.
LEMMA UpdateFollowed ==
  ASSUME NEW db \in Database, NEW item \in Item, item.type \in Tables, Matches(db, item),
         item.type = "Reservation" => item.parts # << >>,
         NEW e \in Endpoint, NEW log \in Seq(Change), Shows(log, db, e)
  PROVE  LET updated == [item EXCEPT !.revision = @ + 1]
         IN  Shows(log \o ItemChanges(e, updated, Updated({updated})), UpdateItem(db, item), e)
<1>. DEFINE updated == [item EXCEPT !.revision = @ + 1]
            after == UpdateItem(db, item)
            c == Updated({updated})
            longer == log \o <<c>>
<1>1. updated \in Item /\ updated.type = item.type /\ updated.id = item.id
  BY DEF Item
<1>2. /\ \A j \in Loaded(after, e) :
           IF e.type = item.type /\ j.id = item.id THEN SameItem(j, updated) ELSE j \in Loaded(db, e)
      /\ \A j \in Loaded(db, e) :
           IF e.type = item.type /\ j.id = item.id
             THEN \E k \in Loaded(after, e) : k.id = item.id
             ELSE j \in Loaded(after, e)
  BY LoadedAfterUpdate, LoadedBeforeUpdate
<1>a. after \in Database
  <2>. DEFINE op == [op |-> "Update", item |-> item]
  <2>1. op \in Operation
    BY DEF Operation
  <2>2. CASE item.id # 0
    <3>1. Effect(db, op) = after
      BY <2>2 DEF Effect, Succeeds
    <3>. HIDE DEF op, after
    <3>. QED
      BY <2>1, <3>1, EffectType
  <2>3. CASE item.id = 0
    <3>1. db[item.type] \in Seq(Row)
      BY DEF Database
    <3>. QED
      BY <2>3, <3>1, LenProperties DEF Matches
  <2>. QED
    BY <2>2, <2>3
<1>. HIDE DEF updated, after
<1>3. c \in Change /\ c.kind = "updated" /\ c.items = {updated}
  BY <1>1 DEF Updated, Change
<1>4. ItemChanges(e, updated, c) = IF Concerns(e, item.type, item.id) THEN <<c>> ELSE << >>
  BY <1>1 DEF ItemChanges, Concerns
<1>5. CASE ~Concerns(e, item.type, item.id)
  <2>1. ASSUME NEW j PROVE j \in Loaded(after, e) <=> j \in Loaded(db, e)
    <3>1. j \in Loaded(after, e) => ~(e.type = item.type /\ j.id = item.id)
      BY <1>5, <1>a, LoadedItem
    <3>2. j \in Loaded(db, e) => ~(e.type = item.type /\ j.id = item.id)
      BY <1>5, LoadedItem
    <3>. QED
      BY <1>2, <3>1, <3>2
  <2>2. Shows(log \o << >>, after, e)
    BY <2>1, ShowsTheSame
  <2>. QED
    BY <1>4, <1>5, <2>2 DEF after, updated
<1>6. CASE Concerns(e, item.type, item.id)
  <2>. HIDE DEF c
  <2>0. e.type = item.type
    BY <1>6 DEF Concerns
  <2>1. \A i : i \in Contents(longer) <=>
          \E old \in Contents(log) : i = IF old.id = item.id THEN AssignItem(old, updated) ELSE old
    <3>1. Contents(longer) = ApplyChange(Contents(log), c)
      BY <1>3, OneMoreChange
    <3>2. Contents(longer) = ReplaceItems(Contents(log), {updated})
      BY <1>3, <3>1 DEF ApplyChange
    <3>. QED
      BY <1>1, <3>2, ReplacedItems
  <2>2. \A old \in Contents(log) :
          AssignItem(old, updated) \in Item /\ SameItem(AssignItem(old, updated), updated)
    BY <1>1, AssignedItem DEF Shows
  <2>3. AddsOnce(longer)
    BY <1>3, AddsOnceMore DEF Shows
  <2>4. \A id : IgnoredUpdate(log, id) => IgnoredUpdate(longer, id)
    BY <1>3, StaysIgnored
  <2>5. (\A i \in Contents(log) : i.id # item.id) => IgnoredUpdate(longer, item.id)
    BY <1>1, BecomesIgnored DEF c
  <2>. HIDE DEF longer
  <2>6. Contents(longer) \subseteq Item
    BY <2>1, <2>2 DEF Shows
  <2>7. ASSUME NEW i \in Contents(longer) PROVE \E j \in Loaded(after, e) : SameItem(i, j)
    <3>1. PICK old \in Contents(log) : i = IF old.id = item.id THEN AssignItem(old, updated) ELSE old
      BY <2>1
    <3>2. PICK j \in Loaded(db, e) : SameItem(old, j)
      BY DEF Shows, ShowsNoStaleItem
    <3>3. old \in Item /\ j \in Item /\ old.id = j.id
      BY <3>2, LoadedItem, SameItemMeans DEF Shows
    <3>4. CASE old.id = item.id
      <4>1. PICK k \in Loaded(after, e) : k.id = item.id
        BY <1>2, <2>0, <3>3, <3>4
      <4>2. k \in Item /\ SameItem(k, updated)
        BY <1>2, <1>a, <2>0, <4>1, LoadedItem
      <4>3. SameItem(i, updated) /\ i \in Item
        BY <2>2, <3>1, <3>4
      <4>. QED
        BY <1>1, <4>2, <4>3, SameItemMeans
    <3>5. CASE old.id # item.id
      BY <1>2, <3>1, <3>2, <3>3, <3>5
    <3>. QED
      BY <3>4, <3>5
  <2>8. ASSUME NEW j \in Loaded(after, e)
        PROVE  (\E i \in Contents(longer) : SameItem(i, j)) \/ IgnoredUpdate(longer, j.id)
    <3>1. j \in Item
      BY <1>a, LoadedItem
    <3>2. CASE j.id = item.id
      <4>1. SameItem(j, updated)
        BY <1>2, <2>0, <3>2
      <4>2. CASE \E old \in Contents(log) : old.id = item.id
        <5>1. PICK old \in Contents(log) : old.id = item.id
          BY <4>2
        <5>2. AssignItem(old, updated) \in Contents(longer)
          BY <2>1, <5>1
        <5>3. SameItem(AssignItem(old, updated), j)
          BY <1>1, <2>2, <3>1, <4>1, SameItemMeans
        <5>. QED
          BY <5>2, <5>3
      <4>3. CASE ~ \E old \in Contents(log) : old.id = item.id
        BY <2>5, <3>2, <4>3
      <4>. QED
        BY <4>2, <4>3
    <3>3. CASE j.id # item.id
      <4>1. j \in Loaded(db, e)
        BY <1>2, <3>3
      <4>2. CASE \E i \in Contents(log) : SameItem(i, j)
        <5>1. PICK i \in Contents(log) : SameItem(i, j)
          BY <4>2
        <5>2. i.id = j.id
          BY <3>1, <5>1, SameItemMeans DEF Shows
        <5>3. i \in Contents(longer)
          BY <2>1, <3>3, <5>2
        <5>. QED
          BY <5>1, <5>3
      <4>3. CASE IgnoredUpdate(log, j.id)
        BY <2>4, <4>3
      <4>. QED
        BY <4>1, <4>2, <4>3 DEF Shows, ShowsEveryItem
    <3>. QED
      BY <3>2, <3>3
  <2>9. Shows(longer, after, e)
    BY <2>3, <2>6, <2>7, <2>8 DEF Shows, ShowsNoStaleItem, ShowsEveryItem
  <2>. QED
    BY <1>4, <1>6, <2>9 DEF longer, c, after, updated
<1>. QED
  BY <1>5, <1>6

\* A deleted reservation is taken from the streams that carry it.
LEMMA DeleteFollowed ==
  ASSUME NEW db \in Database, NEW id \in Nat,
         NEW e \in Endpoint, NEW log \in Seq(Change), Shows(log, db, e)
  PROVE  Shows(log \o RemoveChanges(e, id), DeleteReservationById(db, id), e)
<1>. DEFINE after == DeleteReservationById(db, id)
            c == Removed({id})
            longer == log \o <<c>>
<1>1. \A j : j \in Loaded(after, e) <=> j \in Loaded(db, e) /\ ~(e.type = "Reservation" /\ j.id = id)
  BY LoadedAfterDelete
<1>. HIDE DEF after
<1>2. c \in Change /\ c.kind = "removed" /\ c.ids = {id}
  BY DEF Removed, Change
<1>3. RemoveChanges(e, id) = IF Concerns(e, "Reservation", id) THEN <<c>> ELSE << >>
  BY DEF RemoveChanges, Concerns, Tables
<1>4. CASE ~Concerns(e, "Reservation", id)
  <2>1. \A j : j \in Loaded(after, e) <=> j \in Loaded(db, e)
    BY <1>1, <1>4, LoadedItem
  <2>2. Shows(log \o << >>, after, e)
    BY <2>1, ShowsTheSame
  <2>. QED
    BY <1>3, <1>4, <2>2 DEF after
<1>5. CASE Concerns(e, "Reservation", id)
  <2>. HIDE DEF c
  <2>1. Contents(longer) = {i \in Contents(log) : i.id # id}
    <3>1. Contents(longer) = ApplyChange(Contents(log), c)
      BY <1>2, OneMoreChange
    <3>. QED
      BY <1>2, <3>1 DEF ApplyChange
  <2>2. AddsOnce(longer)
    BY <1>2, AddsOnceMore DEF Shows
  <2>3. \A k : IgnoredUpdate(log, k) => IgnoredUpdate(longer, k)
    BY <1>2, StaysIgnored
  <2>4. \A j : j \in Loaded(after, e) <=> j \in Loaded(db, e) /\ j.id # id
    BY <1>1, <1>5 DEF Concerns
  <2>5. \A i \in Contents(log), j \in Loaded(db, e) : SameItem(i, j) => i.id = j.id
    BY LoadedItem, SameItemMeans DEF Shows
  <2>. HIDE DEF longer
  <2>6. Shows(longer, after, e)
    BY <2>1, <2>2, <2>3, <2>4, <2>5 DEF Shows, ShowsNoStaleItem, ShowsEveryItem
  <2>. QED
    BY <1>3, <1>5, <2>6 DEF longer, c, after
<1>. QED
  BY <1>4, <1>5

\* The erasure clears the streams of all tables.
LEMMA EraseFollowed ==
  ASSUME NEW db \in Database, NEW e \in Endpoint, NEW log \in Seq(Change), Shows(log, db, e)
  PROVE  Shows(log \o ClearChanges(e), DeleteAll, e)
<1>. DEFINE longer == log \o <<Cleared>>
<1>1. Loaded(DeleteAll, e) = {}
  BY LoadedAfterErase
<1>2. CASE ~(HasHandler(e) /\ e.type \in Tables)
  <2>1. Loaded(db, e) = {}
    BY <1>2 DEF Loaded
  <2>2. Shows(log \o << >>, DeleteAll, e)
    BY <1>1, <2>1, ShowsTheSame
  <2>. QED
    BY <1>2, <2>2 DEF ClearChanges
<1>3. CASE HasHandler(e) /\ e.type \in Tables
  <2>0. Cleared \in Change /\ Cleared.kind = "cleared"
    BY DEF Cleared, Change
  <2>1. Contents(longer) = {}
    <3>1. Contents(longer) = ApplyChange(Contents(log), Cleared)
      BY <2>0, OneMoreChange
    <3>. QED
      BY <2>0, <3>1 DEF ApplyChange
  <2>2. AddsOnce(longer)
    BY <2>0, AddsOnceMore DEF Shows
  <2>. HIDE DEF longer
  <2>3. Shows(longer, DeleteAll, e)
    BY <1>1, <2>1, <2>2 DEF Shows, ShowsNoStaleItem, ShowsEveryItem
  <2>. QED
    BY <1>3, <2>3 DEF ClearChanges, longer
<1>. QED
  BY <1>2, <1>3

\* executeOperation: what each operation puts on a stream is what it does to the items of the
\* stream in the database.
LEMMA OperationFollowed ==
  ASSUME NEW db \in Database, NEW op \in Operation, HasAtoms(op),
         NEW e \in Endpoint, NEW log \in Seq(Change), Shows(log, db, e)
  PROVE  Shows(log \o ChangesFor(db, op, e), Effect(db, op), e)
<1>1. CASE ~Succeeds(db, op)
  BY <1>1, ShowsTheSame DEF ChangesFor, Effect
<1>2. CASE Succeeds(db, op) /\ op.op = "EraseAllData"
  BY <1>2, EraseFollowed DEF ChangesFor, Effect
<1>3. CASE Succeeds(db, op) /\ op.op = "StoreNew"
  <2>1. CASE op.item.type = "Null"
    BY <1>3, <2>1, ShowsTheSame DEF ChangesFor, Effect
  <2>2. CASE op.item.type # "Null"
    <3>1. op.item \in Item /\ op.item.type \in Tables
      BY <1>3, <2>2 DEF Operation, Succeeds, Item, ItemTypes
    <3>2. op.item.type = "Reservation" => op.item.parts # << >>
      BY <1>3 DEF HasAtoms
    <3>3. Effect(db, op) = StoreNewItem(db, op.item)
      BY <1>3, <2>2 DEF Effect
    <3>4. ChangesFor(db, op, e) = ItemChanges(e, StoredItem(db, op.item), Added({StoredItem(db, op.item)}))
      BY <1>3, <2>2 DEF ChangesFor
    <3>. QED
      BY <3>1, <3>2, <3>3, <3>4, StoreFollowed
  <2>. QED
    BY <2>1, <2>2
<1>4. CASE Succeeds(db, op) /\ op.op = "Update"
  <2>1. op.item \in Item /\ op.item.type \in Tables /\ Matches(db, op.item)
    BY <1>4 DEF Operation, Succeeds
  <2>2. op.item.type = "Reservation" => op.item.parts # << >>
    BY <1>4 DEF HasAtoms
  <2>3. Effect(db, op) = UpdateItem(db, op.item)
    BY <1>4 DEF Effect
  <2>. DEFINE updated == [op.item EXCEPT !.revision = @ + 1]
  <2>4. ChangesFor(db, op, e) = ItemChanges(e, updated, Updated({updated}))
    BY <1>4 DEF ChangesFor
  <2>5. Shows(log \o ItemChanges(e, updated, Updated({updated})), UpdateItem(db, op.item), e)
    BY <2>1, <2>2, UpdateFollowed
  <2>. HIDE DEF updated
  <2>. QED
    BY <2>3, <2>4, <2>5
<1>5. CASE Succeeds(db, op) /\ op.op = "Delete"
  <2>1. op.id \in Nat /\ Effect(db, op) = DeleteReservationById(db, op.id)
        /\ ChangesFor(db, op, e) = RemoveChanges(e, op.id)
    BY <1>5 DEF Operation, Effect, ChangesFor
  <2>. QED
    BY <2>1, DeleteFollowed
<1>. QED
  BY <1>1, <1>2, <1>3, <1>4, <1>5 DEF Operation
-----------------------------------------------------------------------------
(* The inductive invariant *)

\* The batches that wait are those that clients may queue.
KnownBatches ==
  /\ \A i \in DOMAIN operationsQueue : operationsQueue[i].operations \in Batches
  /\ \A i \in DOMAIN newTasks : newTasks[i].operations \in Batches

\* Where the streams are: new or active while their handle is kept, and taken over by
\* initialize() only while it runs.
StreamPlaces ==
  /\ connected = uninitializedStreams \cup activeStreams
  /\ uninitializedStreams \cap activeStreams = {}
  /\ toInitialize \cap uninitializedStreams = {}
  /\ connected \subseteq tracked
  /\ workerPc \notin {"load", "announce"} => toInitialize = {}

\* No results and no changes are kept from one batch to the next.
TransactionStart ==
  workerPc \notin {"execute", "resolve"} => results = << >> /\ transactionChanges = NoChanges

\* Nothing was put on a stream.
Untouched(s) ==
  observed[s] = << >> /\ streamChanges[s] = << >> /\ transactionChanges[s] = << >>

\* After the initial items the stream was announced to be initialized, once.
Opened(log) ==
  InitializedFirst(log) /\ \E m \in {1, 2} : m \in DOMAIN log /\ log[m] = Initialized

\* A stream that follows the storage, or does not do so yet.
Follows(s) ==
  /\ s \notin DOMAIN streams \/ (s \in connected /\ ~IsLoaded(s)) => Untouched(s)
  /\ s \in connected /\ IsLoaded(s) =>
       /\ Shows(Log(s), savepoint, streams[s])
       /\ IF s \in toInitialize
            THEN \A n \in DOMAIN Log(s) : n = 1 /\ Log(s)[n].kind = "added"
            ELSE Opened(Log(s))
       /\ \A n \in DOMAIN transactionChanges[s] : transactionChanges[s][n] # Initialized
       /\ workerPc = "execute" /\ ~Failed(results)
            => Shows(Log(s) \o transactionChanges[s], storage, streams[s])

StreamsFollow == \A s \in StreamIds : Follows(s)

\* The parts of the invariant that only speak of places and queues.
LEMMA NextKnownBatches ==
  ASSUME TypeOK, WorkerState, KnownBatches, [Next]_vars
  PROVE  KnownBatches'
<1>. USE DEF taskVars, clientVars
<1>1. ASSUME NEW batch \in Batches, QueueOperations(batch) PROVE KnownBatches'
  <2>. DEFINE entry == [operations |-> batch, promise |-> Len(futures) + 1]
  <2>1. /\ operationsQueue' = Append(operationsQueue, entry)
        /\ newTasks' = newTasks
        /\ entry.operations = batch
    BY <1>1 DEF QueueOperations, PushedBack
  <2>2. entry \in QueuedOperation
    BY <1>1, BackendAssumption, LenProperties DEF TypeOK, QueuedOperation
  <2>. HIDE DEF entry
  <2>3. \A i \in DOMAIN operationsQueue' :
          \/ i \in DOMAIN operationsQueue /\ operationsQueue'[i] = operationsQueue[i]
          \/ operationsQueue'[i] = entry
    BY <2>1, <2>2, AppendProperties, LenProperties DEF TypeOK
  <2>. QED
    BY <2>1, <2>3 DEF KnownBatches
<1>2. CASE TakeTasks
  BY <1>2 DEF TakeTasks, KnownBatches
<1>3. CASE Resolve
  <2>1. newTasks # << >> /\ newTasks' = Tail(newTasks) /\ operationsQueue' = operationsQueue
    BY <1>3 DEF Resolve, WorkerState
  <2>2. \A i \in DOMAIN newTasks' : i + 1 \in DOMAIN newTasks /\ newTasks'[i] = newTasks[i + 1]
    BY <2>1, HeadAndRest, HeadTailProperties, LenProperties DEF TypeOK
  <2>. QED
    BY <2>1, <2>2 DEF KnownBatches
<1>4. CASE UNCHANGED <<newTasks, operationsQueue>>
  BY <1>4 DEF KnownBatches
<1>5. \/ \E batch \in Batches : QueueOperations(batch)
      \/ TakeTasks
      \/ Resolve
      \/ UNCHANGED <<newTasks, operationsQueue>>
  BY DEF Next, Client, Worker, Terminated, vars, CreateStream, ResetHandle, Notify, ApplyStreamChanges,
         Stop, Join, Loop, ActivateStreams, LoadStream, AnnounceInitialized, StreamsInitialized,
         BeginTransaction, ExecuteOperation, Commit, Rollback, TasksDone, SpuriousWakeup
<1>. QED
  BY <1>1, <1>2, <1>3, <1>4, <1>5

\* Resolve forgets the results and the changes of a batch.
LEMMA NextTransactionStart ==
  ASSUME TransactionStart, [Next]_vars
  PROVE  TransactionStart'
<1>. USE DEF TransactionStart, taskVars, clientVars
<1>1. ASSUME NEW batch \in Batches, QueueOperations(batch) PROVE TransactionStart'
  BY <1>1 DEF QueueOperations, PushedBack
<1>2. ASSUME NEW e \in Endpoints, CreateStream(e) PROVE TransactionStart'
  BY <1>2 DEF CreateStream
<1>3. ASSUME NEW s \in StreamIds, ResetHandle(s) PROVE TransactionStart'
  BY <1>3 DEF ResetHandle
<1>4. CASE Notify
  BY <1>4 DEF Notify, Woken
<1>5. CASE ApplyStreamChanges
  BY <1>5 DEF ApplyStreamChanges
<1>6. CASE Stop
  BY <1>6 DEF Stop, Woken
<1>7. CASE Join
  BY <1>7 DEF Join
<1>8. CASE Loop
  BY <1>8 DEF Loop
<1>9. CASE TakeTasks
  BY <1>9 DEF TakeTasks, NothingToDo
<1>10. CASE ActivateStreams
  BY <1>10 DEF ActivateStreams
<1>11. ASSUME NEW s \in StreamIds, LoadStream(s) PROVE TransactionStart'
  BY <1>11 DEF LoadStream
<1>12. ASSUME NEW s \in StreamIds, AnnounceInitialized(s) PROVE TransactionStart'
  BY <1>12 DEF AnnounceInitialized
<1>13. CASE StreamsInitialized
  BY <1>13 DEF StreamsInitialized
<1>14. CASE BeginTransaction
  BY <1>14 DEF BeginTransaction
<1>15. CASE ExecuteOperation
  BY <1>15 DEF ExecuteOperation
<1>16. CASE Commit
  BY <1>16 DEF Commit
<1>17. CASE Rollback
  BY <1>17 DEF Rollback
<1>18. CASE Resolve
  BY <1>18 DEF Resolve
<1>19. CASE TasksDone
  BY <1>19 DEF TasksDone
<1>20. CASE SpuriousWakeup
  BY <1>20 DEF SpuriousWakeup
<1>21. CASE UNCHANGED vars
  BY <1>21 DEF vars
<1>. QED
  BY <1>1, <1>2, <1>3, <1>4, <1>5, <1>6, <1>7, <1>8, <1>9, <1>10, <1>11, <1>12, <1>13, <1>14,
     <1>15, <1>16, <1>17, <1>18, <1>19, <1>20, <1>21 DEF Next, Client, Worker, Terminated

\* The id of a new stream is that of no other.
LEMMA NewStream ==
  ASSUME TypeOK, NEW e \in Endpoints, CreateStream(e)
  PROVE  /\ Len(streams) + 1 \notin DOMAIN streams
         /\ DOMAIN streams' = DOMAIN streams \cup {Len(streams) + 1}
         /\ \A s \in DOMAIN streams : streams'[s] = streams[s]
<1>1. e \in Endpoint /\ streams \in Seq(Endpoint) /\ streams' = Append(streams, e)
  BY BackendAssumption DEF TypeOK, CreateStream
<1>. QED
  BY <1>1, AppendProperties, LenProperties

\* Each step leaves every stream in one place.
LEMMA NextPlaces ==
  ASSUME TypeOK, StreamPlaces, [Next]_vars
  PROVE  StreamPlaces'
<1>. USE DEF StreamPlaces, taskVars, clientVars
<1>1. ASSUME NEW batch \in Batches, QueueOperations(batch) PROVE StreamPlaces'
  BY <1>1 DEF QueueOperations, PushedBack
<1>2. ASSUME NEW e \in Endpoints, CreateStream(e) PROVE StreamPlaces'
  <2>1. Len(streams) + 1 \notin DOMAIN streams
    BY <1>2, NewStream
  <2>. QED
    BY <1>2, <2>1 DEF TypeOK, CreateStream
<1>3. ASSUME NEW s \in StreamIds, ResetHandle(s) PROVE StreamPlaces'
  BY <1>3 DEF ResetHandle
<1>4. CASE Notify
  BY <1>4 DEF Notify, Woken
<1>5. CASE ApplyStreamChanges
  BY <1>5 DEF ApplyStreamChanges
<1>6. CASE Stop
  BY <1>6 DEF Stop, Woken
<1>7. CASE Join
  BY <1>7 DEF Join
<1>8. CASE Loop
  BY <1>8 DEF Loop
<1>9. CASE TakeTasks
  BY <1>9 DEF TakeTasks, NothingToDo
<1>10. CASE ActivateStreams
  BY <1>10 DEF ActivateStreams
<1>11. ASSUME NEW s \in StreamIds, LoadStream(s) PROVE StreamPlaces'
  BY <1>11 DEF LoadStream
<1>12. ASSUME NEW s \in StreamIds, AnnounceInitialized(s) PROVE StreamPlaces'
  BY <1>12 DEF AnnounceInitialized
<1>13. CASE StreamsInitialized
  BY <1>13 DEF StreamsInitialized
<1>14. CASE BeginTransaction
  BY <1>14 DEF BeginTransaction
<1>15. CASE ExecuteOperation
  BY <1>15 DEF ExecuteOperation
<1>16. CASE Commit
  BY <1>16 DEF Commit
<1>17. CASE Rollback
  BY <1>17 DEF Rollback
<1>18. CASE Resolve
  BY <1>18 DEF Resolve
<1>19. CASE TasksDone
  BY <1>19 DEF TasksDone
<1>20. CASE SpuriousWakeup
  BY <1>20 DEF SpuriousWakeup
<1>21. CASE UNCHANGED vars
  BY <1>21 DEF vars
<1>. QED
  BY <1>1, <1>2, <1>3, <1>4, <1>5, <1>6, <1>7, <1>8, <1>9, <1>10, <1>11, <1>12, <1>13, <1>14,
     <1>15, <1>16, <1>17, <1>18, <1>19, <1>20, <1>21 DEF Next, Client, Worker, Terminated

-----------------------------------------------------------------------------
(* Every step keeps the streams following the storage *)

\* A step that does not concern a stream or the storage.
LEMMA FollowsStays ==
  ASSUME NEW s \in StreamIds, Follows(s),
         observed'[s] = observed[s], streamChanges'[s] = streamChanges[s],
         transactionChanges'[s] = transactionChanges[s],
         UNCHANGED <<storage, savepoint, results>>,
         s \in DOMAIN streams' => s \in DOMAIN streams /\ streams'[s] = streams[s],
         s \in DOMAIN streams => s \in DOMAIN streams',
         s \in connected' => s \in connected /\ (IsLoaded(s)' <=> IsLoaded(s))
                               /\ (s \in toInitialize' <=> s \in toInitialize),
         connected \subseteq DOMAIN streams,
         workerPc' = "execute" => workerPc = "execute"
  PROVE  Follows(s)'
<1>1. Log(s)' = Log(s)
  BY DEF Log
<1>2. Untouched(s) => Untouched(s)'
  BY DEF Untouched
<1>3. s \in connected => s \in DOMAIN streams /\ s \in DOMAIN streams' /\ streams'[s] = streams[s]
  OBVIOUS
<1>4. CASE s \in connected' /\ IsLoaded(s)'
  <2>1. s \in connected /\ IsLoaded(s)
    BY <1>4
  <2>. QED
    BY <1>1, <1>3, <1>4, <2>1 DEF Follows
<1>5. CASE ~(s \in connected' /\ IsLoaded(s)')
  <2>1. s \notin DOMAIN streams' \/ (s \in connected' /\ ~IsLoaded(s)') => Untouched(s)
    BY <1>5 DEF Follows
  <2>. QED
    BY <1>2, <1>5, <2>1 DEF Follows
<1>. QED
  BY <1>4, <1>5

\* The steps of both threads that put nothing on a stream.
LEMMA OtherStepsFollow ==
  ASSUME TypeOK, StreamPlaces, StreamsFollow,
         \/ \E batch \in Batches : QueueOperations(batch)
         \/ \E e \in Endpoints : CreateStream(e)
         \/ \E r \in StreamIds : ResetHandle(r)
         \/ Notify \/ Stop \/ Join \/ Loop \/ TakeTasks \/ SpuriousWakeup
         \/ StreamsInitialized \/ TasksDone \/ UNCHANGED vars
  PROVE  StreamsFollow'
<1>. USE DEF taskVars, clientVars
<1>0. connected \subseteq DOMAIN streams
  BY DEF TypeOK
<1>1. ASSUME NEW e \in Endpoints, CreateStream(e), NEW s \in StreamIds PROVE Follows(s)'
  <2>. DEFINE new == Len(streams) + 1
  <2>1. /\ new \notin DOMAIN streams /\ DOMAIN streams' = DOMAIN streams \cup {new}
        /\ \A r \in DOMAIN streams : streams'[r] = streams[r]
    BY <1>1, NewStream
  <2>2. /\ connected' = connected \cup {new}
        /\ UNCHANGED <<observed, streamChanges, transactionChanges, storage, savepoint, results,
                       activeStreams, toInitialize, workerPc>>
    BY <1>1 DEF CreateStream
  <2>. HIDE DEF new
  <2>3. CASE s = new
    <3>1. Untouched(s)
      BY <2>1, <2>3 DEF StreamsFollow, Follows
    <3>2. ~IsLoaded(s)'
      BY <2>1, <2>2, <2>3 DEF TypeOK, IsLoaded
    <3>. QED
      BY <2>2, <3>1, <3>2 DEF Follows, Untouched
  <2>4. CASE s # new
    <3>1. IsLoaded(s)' <=> IsLoaded(s)
      BY <2>2 DEF IsLoaded, IsNext
    <3>. QED
      BY <1>0, <2>1, <2>2, <2>4, <3>1, FollowsStays DEF StreamsFollow
  <2>. QED
    BY <2>3, <2>4
<1>2. ASSUME NEW r \in StreamIds, ResetHandle(r), NEW s \in StreamIds PROVE Follows(s)'
  <2>1. /\ connected' = connected \ {r} /\ activeStreams' = activeStreams \ {r}
        /\ UNCHANGED <<streams, observed, streamChanges, transactionChanges, storage, savepoint, results,
                       toInitialize, workerPc>>
    BY <1>2 DEF ResetHandle
  <2>2. s \in connected' => (IsLoaded(s)' <=> IsLoaded(s))
    BY <2>1 DEF IsLoaded, IsNext
  <2>. QED
    BY <1>0, <2>1, <2>2, FollowsStays DEF StreamsFollow
<1>3. ASSUME UNCHANGED <<streams, connected, activeStreams, toInitialize, observed, streamChanges,
                         transactionChanges, storage, savepoint, results>>,
             \/ workerPc' = workerPc
             \/ workerPc \notin {"announce"} /\ workerPc' \notin {"announce", "execute"},
             NEW s \in StreamIds
      PROVE  Follows(s)'
  <2>1. IsLoaded(s)' <=> IsLoaded(s)
    BY <1>3 DEF IsLoaded, IsNext
  <2>. QED
    BY <1>0, <1>3, <2>1, FollowsStays DEF StreamsFollow
<1>4. ASSUME \/ \E batch \in Batches : QueueOperations(batch)
             \/ Notify \/ Stop \/ Join \/ Loop \/ TakeTasks \/ SpuriousWakeup
             \/ StreamsInitialized \/ TasksDone \/ UNCHANGED vars
      PROVE  /\ UNCHANGED <<streams, connected, activeStreams, toInitialize, observed, streamChanges,
                            transactionChanges, storage, savepoint, results>>
             /\ \/ workerPc' = workerPc
                \/ workerPc \notin {"announce"} /\ workerPc' \notin {"announce", "execute"}
  BY <1>4 DEF QueueOperations, Notify, Woken, Stop, Join, Loop, TakeTasks, SpuriousWakeup,
              StreamsInitialized, TasksDone, vars, Idle
<1>. QED
  BY <1>1, <1>2, <1>3, <1>4 DEF StreamsFollow

\* applyStreamChanges hands the changes over and loses none of a stream with an observer.
LEMMA ApplyFollows ==
  ASSUME TypeOK, StreamPlaces, StreamsFollow, ApplyStreamChanges
  PROVE  StreamsFollow'
<1>. USE DEF taskVars, clientVars
<1>. SUFFICES ASSUME NEW s \in StreamIds PROVE Follows(s)'
  BY DEF StreamsFollow
<1>1. /\ UNCHANGED <<streams, connected, activeStreams, toInitialize, transactionChanges, storage,
                     savepoint, results, workerPc>>
      /\ streamChanges'[s] = << >>
      /\ observed'[s] = IF s \in tracked' THEN observed[s] \o streamChanges[s] ELSE observed[s]
      /\ s \in connected => s \in tracked'
  BY DEF ApplyStreamChanges, NoChanges, StreamPlaces
<1>2. observed[s] \in Seq(Change) /\ streamChanges[s] \in Seq(Change)
  BY DEF TypeOK
<1>3. s \in connected => Log(s)' = Log(s)
  <2>1. (observed[s] \o streamChanges[s]) \o << >> = observed[s] \o streamChanges[s]
    BY <1>2, ConcatProperties, ConcatEmptySeq
  <2>. QED
    BY <1>1, <2>1 DEF Log
<1>4. Untouched(s) => Untouched(s)'
  BY <1>1 DEF Untouched
<1>5. IsLoaded(s)' <=> IsLoaded(s)
  BY <1>1 DEF IsLoaded, IsNext
<1>6. Follows(s)
  BY DEF StreamsFollow
<1>7. CASE s \in connected /\ IsLoaded(s)
  <2>1. s \in connected' /\ s \in DOMAIN streams' /\ IsLoaded(s)'
    BY <1>1, <1>5, <1>7 DEF TypeOK
  <2>. QED
    BY <1>1, <1>3, <1>6, <1>7, <2>1 DEF Follows
<1>8. CASE ~(s \in connected /\ IsLoaded(s))
  BY <1>1, <1>4, <1>5, <1>6, <1>8 DEF Follows
<1>. QED
  BY <1>7, <1>8

\* Activating the new streams: they have no items yet.
LEMMA ActivateFollows ==
  ASSUME TypeOK, StreamPlaces, StreamsFollow, ActivateStreams
  PROVE  StreamsFollow'
<1>. USE DEF taskVars, clientVars
<1>. SUFFICES ASSUME NEW s \in StreamIds PROVE Follows(s)'
  BY DEF StreamsFollow
<1>1. /\ UNCHANGED <<streams, connected, observed, streamChanges, transactionChanges, storage,
                     savepoint, results>>
      /\ toInitialize = {} /\ toInitialize' = uninitializedStreams
      /\ activeStreams' = activeStreams \cup uninitializedStreams
      /\ workerPc = "initialize" /\ workerPc' = "load"
  BY DEF ActivateStreams, StreamPlaces
<1>2. Follows(s)
  BY DEF StreamsFollow
<1>3. CASE s \in uninitializedStreams
  <2>1. s \in connected /\ ~IsLoaded(s) /\ ~IsLoaded(s)'
    BY <1>1, <1>3 DEF IsLoaded, StreamPlaces
  <2>. QED
    BY <1>1, <1>2, <2>1 DEF Follows, Untouched
<1>4. CASE s \notin uninitializedStreams
  <2>1. s \in connected => IsLoaded(s) /\ IsLoaded(s)'
    BY <1>1, <1>4 DEF IsLoaded, StreamPlaces
  <2>. QED
    BY <1>1, <1>2, <1>4, <2>1, FollowsStays DEF TypeOK
<1>. QED
  BY <1>3, <1>4

\* The initial items of a stream are the items of the storage.
LEMMA InitialShown ==
  ASSUME NEW db \in Database, NEW e \in Endpoint
  PROVE  /\ Shows(InitialChanges(db, e), db, e)
         /\ \A n \in DOMAIN InitialChanges(db, e) : n = 1 /\ InitialChanges(db, e)[n].kind = "added"
<1>. DEFINE c == Added(Loaded(db, e))
<1>0. Loaded(db, e) \subseteq Item
  BY LoadedType
<1>1. c \in Change /\ c.kind = "added" /\ c.items = Loaded(db, e)
  BY <1>0 DEF Added, Change
<1>2. \A i : SameItem(i, i)
  BY DEF SameItem
<1>3. AddsOnce(<< >>) /\ << >> \in Seq(Change) /\ Contents(<< >>) = {}
  BY EmptyLog, EmptySeq DEF AddsOnce
<1>4. CASE InitialChanges(db, e) = << >>
  <2>1. Loaded(db, e) = {} \/ InitialChanges(db, e) = <<c>>
    BY DEF InitialChanges, Loaded
  <2>2. << >> # <<c>>
    OBVIOUS
  <2>3. Loaded(db, e) = {}
    BY <1>4, <2>1, <2>2
  <2>. QED
    BY <1>3, <1>4, <2>3 DEF Shows, ShowsNoStaleItem, ShowsEveryItem
<1>5. CASE InitialChanges(db, e) = <<c>>
  <2>. HIDE DEF c
  <2>1. << >> \o <<c>> = <<c>>
    BY <1>1, ConcatEmptySeq
  <2>2. Contents(<<c>>) = Loaded(db, e)
    <3>0. \A log \in Seq(Change) : Contents(log \o <<c>>) = ApplyChange(Contents(log), c)
      BY <1>1, OneMoreChange
    <3>1. Contents(<< >> \o <<c>>) = ApplyChange(Contents(<< >>), c)
      BY <1>3, <3>0
    <3>. QED
      BY <1>1, <1>3, <2>1, <3>1 DEF ApplyChange
  <2>3. AddsOnce(<<c>>)
    <3>1. AddsOnce(<< >> \o <<c>>)
      BY <1>1, <1>3, AddsOnceMore
    <3>. QED
      BY <2>1, <3>1
  <2>4. \A n \in DOMAIN <<c>> : n = 1 /\ <<c>>[n].kind = "added"
    BY <1>1
  <2>. QED
    BY <1>0, <1>2, <1>5, <2>2, <2>3, <2>4 DEF Shows, ShowsNoStaleItem, ShowsEveryItem
<1>. QED
  BY <1>4, <1>5 DEF InitialChanges

\* initialize() puts the items of the storage on a stream ...
LEMMA LoadFollows ==
  ASSUME TypeOK, WorkerState, StreamPlaces, TransactionStart, StreamsFollow,
         NEW r \in StreamIds, LoadStream(r)
  PROVE  StreamsFollow'
<1>. USE DEF taskVars, clientVars
<1>. SUFFICES ASSUME NEW s \in StreamIds PROVE Follows(s)'
  BY DEF StreamsFollow
<1>1. /\ UNCHANGED <<streams, connected, observed, transactionChanges, storage, savepoint, results,
                     activeStreams, toInitialize>>
      /\ workerPc = "load" /\ workerPc' = "announce" /\ storage = savepoint
      /\ streamChanges' = [streamChanges EXCEPT ![r] = @ \o InitialChanges(storage, streams[r])]
      /\ r \in toInitialize /\ IsNext(r) /\ IsNext(r)'
  BY DEF LoadStream, WorkerState, IsNext
<1>2. Follows(s)
  BY DEF StreamsFollow
<1>3. CASE s = r /\ s \in connected
  <2>. DEFINE initial == InitialChanges(storage, streams[s])
  <2>0. s \in DOMAIN streams /\ streams[s] \in Endpoint /\ storage \in Database
    BY <1>3, ElementOfSeq, LenProperties DEF TypeOK
  <2>1. s \in activeStreams /\ ~IsLoaded(s) /\ IsLoaded(s)'
    BY <1>1, <1>3 DEF StreamPlaces, IsLoaded
  <2>2. Untouched(s)
    BY <1>2, <1>3, <2>1 DEF Follows
  <2>3. initial \in Seq(Change) /\ Shows(initial, storage, streams[s])
        /\ \A n \in DOMAIN initial : n = 1 /\ initial[n].kind = "added"
    BY <2>0, InitialChangesType, InitialShown
  <2>4. Log(s)' = initial
    <3>1. streamChanges'[s] = << >> \o initial
      BY <1>1, <1>3, <2>2 DEF TypeOK, Untouched
    <3>2. << >> \o initial = initial
      BY <2>3, ConcatEmptySeq
    <3>. HIDE DEF initial
    <3>. QED
      BY <1>1, <2>2, <2>3, <3>1, <3>2, ConcatEmptySeq DEF Log, Untouched
  <2>5. transactionChanges'[s] = << >>
    BY <1>1, <2>2 DEF Untouched
  <2>. HIDE DEF initial
  <2>. QED
    BY <1>1, <1>3, <2>0, <2>1, <2>3, <2>4, <2>5 DEF Follows
<1>4. CASE s = r /\ s \notin connected
  <2>1. s \in DOMAIN streams
    BY <1>1, <1>4 DEF TypeOK
  <2>. QED
    BY <1>1, <1>4, <2>1 DEF Follows
<1>5. CASE s # r
  <2>1. streamChanges'[s] = streamChanges[s]
    BY <1>1, <1>5 DEF TypeOK
  <2>2. IsLoaded(s)' <=> IsLoaded(s)
    <3>1. ~IsNext(s)'
      BY <1>1, <1>5 DEF IsNext, StreamIds
    <3>. QED
      BY <1>1, <3>1 DEF IsLoaded
  <2>. QED
    BY <1>1, <1>2, <2>1, <2>2, FollowsStays DEF TypeOK
<1>. QED
  BY <1>3, <1>4, <1>5

\* Being initialized is announced once, after the items that were there.
LEMMA InitializedOnce ==
  ASSUME NEW log \in Seq(Change), \A n \in DOMAIN log : n = 1 /\ log[n].kind = "added"
  PROVE  Opened(log \o <<Initialized>>)
<1>. DEFINE longer == log \o <<Initialized>>
<1>0. Initialized \in Change /\ Initialized.kind = "initialized"
  BY DEF Initialized, Change
<1>1. /\ Len(log) \in Nat /\ DOMAIN log = 1 .. Len(log)
      /\ DOMAIN longer = DOMAIN log \cup {Len(log) + 1}
      /\ \A n \in DOMAIN log : longer[n] = log[n]
      /\ longer[Len(log) + 1] = Initialized
  BY <1>0, OneMoreChange, LenProperties
<1>. HIDE DEF longer
<1>2. Len(log) \in {0, 1}
  <2>1. Len(log) >= 2 => 2 \in DOMAIN log
    BY <1>1
  <2>. QED
    BY <1>1, <2>1
<1>3. \A n \in DOMAIN longer : longer[n] = Initialized <=> n = Len(log) + 1
  BY <1>0, <1>1
<1>4. \A n \in DOMAIN longer : n # Len(log) + 1 => n = 1 /\ longer[1].kind = "added"
  BY <1>1
<1>5. Opened(longer)
  BY <1>1, <1>2, <1>3, <1>4 DEF Opened, InitializedFirst
<1>. QED
  BY <1>5 DEF longer

\* Any other change leaves that so.
LEMMA StaysOpened ==
  ASSUME NEW log \in Seq(Change), NEW more \in Seq(Change), Opened(log),
         \A n \in DOMAIN more : more[n] # Initialized
  PROVE  Opened(log \o more)
<1>. DEFINE longer == log \o more
<1>1. /\ Len(log) \in Nat /\ DOMAIN log = 1 .. Len(log)
      /\ Len(more) \in Nat /\ DOMAIN more = 1 .. Len(more)
      /\ DOMAIN longer = 1 .. Len(log) + Len(more)
      /\ \A n \in DOMAIN log : longer[n] = log[n]
      /\ \A n \in DOMAIN longer : n \notin DOMAIN log => n - Len(log) \in DOMAIN more
                                                     /\ longer[n] = more[n - Len(log)]
  BY ConcatProperties, LenProperties
<1>. HIDE DEF longer
<1>2. \A n \in DOMAIN longer : n \notin DOMAIN log => longer[n] # Initialized
  BY <1>1
<1>3. DOMAIN log \subseteq DOMAIN longer
  BY <1>1
<1>4. PICK m \in {1, 2} : m \in DOMAIN log /\ log[m] = Initialized
  BY DEF Opened
<1>5. \A n \in DOMAIN longer : \/ n = 1 /\ longer[1].kind = "added"
                               \/ \E k \in {1, 2} : k <= n /\ longer[k] = Initialized
  <2>1. ASSUME NEW n \in DOMAIN log
        PROVE  \/ n = 1 /\ longer[1].kind = "added"
               \/ \E k \in {1, 2} : k <= n /\ longer[k] = Initialized
    <3>1. CASE n = 1 /\ log[1].kind = "added"
      BY <1>1, <2>1, <3>1
    <3>2. CASE \E k \in {1, 2} : k <= n /\ log[k] = Initialized
      <4>1. PICK k \in {1, 2} : k <= n /\ log[k] = Initialized
        BY <3>2
      <4>2. k \in DOMAIN log
        BY <1>1, <2>1, <4>1
      <4>. QED
        BY <1>1, <4>1, <4>2
    <3>. QED
      BY <2>1, <3>1, <3>2 DEF Opened, InitializedFirst
  <2>2. ASSUME NEW n \in DOMAIN longer, n \notin DOMAIN log
        PROVE  m <= n /\ longer[m] = Initialized
    BY <1>1, <1>4, <2>2
  <2>. QED
    BY <2>1, <2>2
<1>6. \A k, n \in DOMAIN longer : longer[k] = Initialized /\ longer[n] = Initialized => k = n
  BY <1>1, <1>2 DEF Opened, InitializedFirst
<1>7. Opened(longer)
  BY <1>1, <1>3, <1>4, <1>5, <1>6 DEF Opened, InitializedFirst
<1>. QED
  BY <1>7 DEF longer

\* ... and then announces it.
LEMMA AnnounceFollows ==
  ASSUME TypeOK, WorkerState, StreamPlaces, TransactionStart, StreamsFollow,
         NEW r \in StreamIds, AnnounceInitialized(r)
  PROVE  StreamsFollow'
<1>. USE DEF taskVars, clientVars
<1>. SUFFICES ASSUME NEW s \in StreamIds PROVE Follows(s)'
  BY DEF StreamsFollow
<1>1. /\ UNCHANGED <<streams, connected, observed, transactionChanges, storage, savepoint, results,
                     activeStreams>>
      /\ workerPc = "announce" /\ workerPc' = "load"
      /\ streamChanges' = [streamChanges EXCEPT ![r] = Append(@, Initialized)]
      /\ r \in toInitialize /\ IsNext(r) /\ toInitialize' = toInitialize \ {r}
  BY DEF AnnounceInitialized, IsNext
<1>2. Follows(s)
  BY DEF StreamsFollow
<1>3. CASE s = r /\ s \in connected
  <2>0. s \in DOMAIN streams /\ streams[s] \in Endpoint
    BY <1>3, ElementOfSeq, LenProperties DEF TypeOK
  <2>1. IsLoaded(s) /\ IsLoaded(s)' /\ s \notin toInitialize'
    BY <1>1, <1>3 DEF StreamPlaces, IsLoaded
  <2>2. /\ Initialized \in Change /\ Initialized.kind = "initialized"
        /\ observed[s] \in Seq(Change) /\ streamChanges[s] \in Seq(Change) /\ Log(s) \in Seq(Change)
    BY ConcatProperties DEF TypeOK, Initialized, Change, Log
  <2>3. Log(s)' = Log(s) \o <<Initialized>>
    <3>1. streamChanges'[s] = streamChanges[s] \o <<Initialized>>
      BY <1>1, <1>3, <2>2, AppendIsConcat DEF TypeOK
    <3>2. <<Initialized>> \in Seq(Change)
      BY <2>2
    <3>3. observed[s] \o (streamChanges[s] \o <<Initialized>>)
            = (observed[s] \o streamChanges[s]) \o <<Initialized>>
      BY <2>2, <3>2, ChangesAssociative
    <3>. QED
      BY <1>1, <3>1, <3>3 DEF Log
  <2>4. Shows(Log(s), savepoint, streams[s]) /\ \A n \in DOMAIN Log(s) : n = 1 /\ Log(s)[n].kind = "added"
    BY <1>1, <1>2, <1>3, <2>1 DEF Follows
  <2>5. Opened(Log(s) \o <<Initialized>>)
    BY <2>2, <2>4, InitializedOnce
  <2>6. Shows(Log(s) \o <<Initialized>>, savepoint, streams[s])
    <3>1. Contents(Log(s) \o <<Initialized>>) = Contents(Log(s))
      <4>1. Contents(Log(s) \o <<Initialized>>) = ApplyChange(Contents(Log(s)), Initialized)
        BY <2>2, OneMoreChange
      <4>. QED
        BY <2>2, <4>1 DEF ApplyChange
    <3>2. AddsOnce(Log(s) \o <<Initialized>>)
      BY <2>2, <2>4, AddsOnceMore DEF Shows
    <3>3. \A id : IgnoredUpdate(Log(s), id) => IgnoredUpdate(Log(s) \o <<Initialized>>, id)
      BY <2>2, StaysIgnored
    <3>. QED
      BY <2>4, <3>1, <3>2, <3>3 DEF Shows, ShowsNoStaleItem, ShowsEveryItem
  <2>7. \A n \in DOMAIN transactionChanges'[s] : transactionChanges'[s][n] # Initialized
    BY <1>1, <1>2, <1>3, <2>1 DEF Follows
  <2>. QED
    BY <1>1, <1>3, <2>0, <2>1, <2>3, <2>5, <2>6, <2>7 DEF Follows
<1>4. CASE s = r /\ s \notin connected
  <2>1. s \in DOMAIN streams
    BY <1>1, <1>4 DEF TypeOK
  <2>. QED
    BY <1>1, <1>4, <2>1 DEF Follows
<1>5. CASE s # r
  <2>1. streamChanges'[s] = streamChanges[s]
    BY <1>1, <1>5 DEF TypeOK
  <2>2. IsLoaded(s)' <=> IsLoaded(s)
    <3>1. ~IsNext(s)
      BY <1>1, <1>5 DEF IsNext, StreamIds
    <3>. QED
      BY <1>1, <1>5, <3>1 DEF IsLoaded
  <2>. QED
    BY <1>1, <1>2, <1>5, <2>1, <2>2, FollowsStays DEF TypeOK
<1>. QED
  BY <1>3, <1>4, <1>5

\* While batches are executed, every stream with an observer is new or follows the storage.
LEMMA NewOrLoaded ==
  ASSUME TypeOK, StreamPlaces, workerPc \in {"task", "execute", "resolve"}, NEW s \in connected
  PROVE  /\ s \in activeStreams => IsLoaded(s) /\ s \notin toInitialize
         /\ s \notin activeStreams => ~IsLoaded(s)
         /\ s \in DOMAIN streams /\ s \in StreamIds /\ streams[s] \in Endpoint
<1>1. s \in DOMAIN streams /\ s \in StreamIds
  BY StreamsAreNumbered DEF TypeOK
<1>2. streams[s] \in Endpoint
  BY <1>1, StreamsAreNumbered
<1>. QED
  BY <1>1, <1>2 DEF IsLoaded, StreamPlaces

\* A transaction begins with the storage as it was committed.
LEMMA BeginFollows ==
  ASSUME TypeOK, WorkerState, StreamPlaces, TransactionStart, StreamsFollow, BeginTransaction
  PROVE  StreamsFollow'
<1>. USE DEF taskVars, clientVars
<1>. SUFFICES ASSUME NEW s \in StreamIds PROVE Follows(s)'
  BY DEF StreamsFollow
<1>1. /\ UNCHANGED <<streams, connected, observed, streamChanges, transactionChanges, storage, savepoint,
                     results, activeStreams, toInitialize>>
      /\ workerPc = "task" /\ workerPc' = "execute"
      /\ storage = savepoint /\ transactionChanges[s] = << >>
  BY DEF BeginTransaction, WorkerState, TransactionStart, NoChanges
<1>2. Follows(s)
  BY DEF StreamsFollow
<1>3. IsLoaded(s)' <=> IsLoaded(s)
  BY <1>1 DEF IsLoaded, IsNext
<1>4. Log(s)' = Log(s) /\ Log(s) \o << >> = Log(s)
  <2>1. Log(s) \in Seq(Change)
    BY ConcatProperties DEF TypeOK, Log
  <2>. QED
    BY <1>1, <2>1, ConcatEmptySeq DEF Log
<1>5. CASE s \in connected /\ IsLoaded(s)
  <2>1. s \in DOMAIN streams
    BY <1>5 DEF TypeOK
  <2>. QED
    BY <1>1, <1>2, <1>3, <1>4, <1>5, <2>1 DEF Follows
<1>6. CASE ~(s \in connected /\ IsLoaded(s))
  BY <1>1, <1>2, <1>3, <1>6 DEF Follows, Untouched
<1>. QED
  BY <1>5, <1>6

\* No operation announces an initialization.
LEMMA NotInitialized ==
  ASSUME NEW db, NEW op \in Operation, NEW e
  PROVE  \A n \in DOMAIN ChangesFor(db, op, e) : ChangesFor(db, op, e)[n] # Initialized
<1>1. \A items : Added(items) # Initialized /\ Updated(items) # Initialized /\ Removed(items) # Initialized
  <2>1. \A items : /\ Added(items).kind = "added" /\ Updated(items).kind = "updated"
                   /\ Removed(items).kind = "removed"
    BY DEF Added, Updated, Removed
  <2>2. Initialized.kind = "initialized"
    BY DEF Initialized
  <2>. QED
    BY <2>1, <2>2
<1>2. Cleared # Initialized
  BY DEF Cleared, Initialized
<1>3. \A c : c # Initialized =>
        /\ \A n \in DOMAIN <<c>> : <<c>>[n] # Initialized
        /\ \A item : \A n \in DOMAIN ItemChanges(e, item, c) : ItemChanges(e, item, c)[n] # Initialized
  BY DEF ItemChanges
<1>4. \A n \in DOMAIN << >> : << >>[n] # Initialized
  OBVIOUS
<1>5. CASE ~Succeeds(db, op)
  BY <1>4, <1>5 DEF ChangesFor
<1>6. CASE Succeeds(db, op) /\ op.op = "EraseAllData"
  BY <1>2, <1>3, <1>4, <1>6 DEF ChangesFor, ClearChanges
<1>7. CASE Succeeds(db, op) /\ op.op = "StoreNew"
  <2>1. CASE op.item.type = "Null"
    BY <1>4, <1>7, <2>1 DEF ChangesFor
  <2>2. CASE op.item.type # "Null"
    <3>1. ChangesFor(db, op, e) = ItemChanges(e, StoredItem(db, op.item), Added({StoredItem(db, op.item)}))
      BY <1>7, <2>2 DEF ChangesFor
    <3>. QED
      BY <1>1, <1>3, <3>1
  <2>. QED
    BY <2>1, <2>2
<1>8. CASE Succeeds(db, op) /\ op.op = "Update"
  <2>. DEFINE item == [op.item EXCEPT !.revision = @ + 1]
  <2>1. ChangesFor(db, op, e) = ItemChanges(e, item, Updated({item}))
    BY <1>8 DEF ChangesFor
  <2>. HIDE DEF item
  <2>. QED
    BY <1>1, <1>3, <2>1
<1>9. CASE Succeeds(db, op) /\ op.op = "Delete"
  BY <1>1, <1>3, <1>4, <1>9 DEF ChangesFor, RemoveChanges
<1>. QED
  BY <1>5, <1>6, <1>7, <1>8, <1>9 DEF Operation

\* The operation that threadMain executes next is one of a known batch.
LEMMA NextOperation ==
  ASSUME TypeOK, WorkerState, KnownBatches, workerPc = "execute",
         Len(results) < Len(Head(newTasks).operations)
  PROVE  LET op == Head(newTasks).operations[Len(results) + 1]
         IN  op \in Operation /\ HasAtoms(op)
<1>1. newTasks # << >>
  BY DEF WorkerState
<1>2. Head(newTasks) = newTasks[1] /\ 1 \in DOMAIN newTasks
  BY <1>1, HeadAndRest, LenProperties DEF TypeOK
<1>. DEFINE batch == Head(newTasks).operations
            n == Len(results) + 1
<1>3. batch \in Batches
  BY <1>2 DEF KnownBatches
<1>4. batch \in Seq(Operation)
  BY <1>3, BackendAssumption
<1>5. n \in DOMAIN batch
  BY <1>4, LenProperties DEF TypeOK
<1>6. batch[n] \in Operation
  BY <1>4, <1>5, ElementOfSeq, LenProperties
<1>7. HasAtoms(batch[n])
  BY <1>3, <1>5, AtomsAssumption DEF HasAtoms
<1>. QED
  BY <1>6, <1>7

\* Executing an operation: what it does to the storage, the changes of the transaction tell.
LEMMA ExecuteFollows ==
  ASSUME TypeOK, WorkerState, KnownBatches, StreamPlaces, StreamsFollow, ExecuteOperation
  PROVE  StreamsFollow'
<1>. USE DEF taskVars, clientVars
<1>. SUFFICES ASSUME NEW s \in StreamIds PROVE Follows(s)'
  BY DEF StreamsFollow
<1>. DEFINE op == Head(newTasks).operations[Len(results) + 1]
            changes == ChangesFor(storage, op, streams[s])
<1>1. /\ UNCHANGED <<streams, connected, observed, streamChanges, savepoint, activeStreams, toInitialize,
                     workerPc>>
      /\ workerPc = "execute" /\ ~Failed(results)
      /\ storage' = Effect(storage, op)
      /\ transactionChanges'[s] = IF s \in activeStreams THEN transactionChanges[s] \o changes
                                                        ELSE transactionChanges[s]
  BY DEF ExecuteOperation, ForeachStream
<1>2. op \in Operation /\ HasAtoms(op)
  BY <1>1, NextOperation DEF ExecuteOperation
<1>. HIDE DEF op
<1>3. Follows(s)
  BY DEF StreamsFollow
<1>4. IsLoaded(s)' <=> IsLoaded(s)
  BY <1>1 DEF IsLoaded, IsNext
<1>5. Log(s)' = Log(s) /\ Log(s) \in Seq(Change) /\ transactionChanges[s] \in Seq(Change)
  BY <1>1, ConcatProperties DEF TypeOK, Log
<1>6. CASE s \in connected /\ IsLoaded(s)
  <2>1. s \in activeStreams /\ s \in DOMAIN streams /\ streams[s] \in Endpoint /\ s \notin toInitialize
    BY <1>1, <1>6, NewOrLoaded
  <2>2. changes \in Seq(Change) /\ \A n \in DOMAIN changes : changes[n] # Initialized
    BY <1>2, <2>1, ChangesForType, NotInitialized DEF TypeOK
  <2>3. Shows(Log(s) \o transactionChanges[s], storage, streams[s])
    BY <1>1, <1>3, <1>6 DEF Follows
  <2>4. Log(s) \o transactionChanges[s] \in Seq(Change)
    BY <1>5, ConcatProperties
  <2>5. Shows((Log(s) \o transactionChanges[s]) \o changes, storage', streams[s])
    BY <1>1, <1>2, <2>1, <2>3, <2>4, OperationFollowed DEF TypeOK
  <2>. HIDE DEF changes
  <2>6. transactionChanges'[s] = transactionChanges[s] \o changes
    BY <1>1, <2>1
  <2>7. (Log(s) \o transactionChanges[s]) \o changes = Log(s) \o transactionChanges'[s]
    <3>1. Log(s) \o (transactionChanges[s] \o changes) = (Log(s) \o transactionChanges[s]) \o changes
      BY <1>5, <2>2, ChangesAssociative
    <3>. QED
      BY <2>6, <3>1
  <2>8. \A n \in DOMAIN transactionChanges'[s] : transactionChanges'[s][n] # Initialized
    <3>1. \A n \in DOMAIN transactionChanges[s] : transactionChanges[s][n] # Initialized
      BY <1>3, <1>6 DEF Follows
    <3>2. ASSUME NEW n \in DOMAIN transactionChanges'[s]
          PROVE  \/ n \in DOMAIN transactionChanges[s] /\ transactionChanges'[s][n] = transactionChanges[s][n]
                 \/ \E m \in DOMAIN changes : transactionChanges'[s][n] = changes[m]
      <4>. DEFINE a == transactionChanges[s]
                  b == a \o changes
      <4>1. a \in Seq(Change)
        BY <1>5
      <4>. HIDE DEF a
      <4>2. /\ DOMAIN b = 1 .. Len(a) + Len(changes)
            /\ \A i \in 1 .. Len(a) : b[i] = a[i]
            /\ \A i \in Len(a) + 1 .. Len(a) + Len(changes) : b[i] = changes[i - Len(a)]
            /\ DOMAIN a = 1 .. Len(a) /\ DOMAIN changes = 1 .. Len(changes)
            /\ Len(a) \in Nat /\ Len(changes) \in Nat
        BY <2>2, <4>1, ConcatProperties, LenProperties
      <4>3. transactionChanges'[s] = b
        BY <2>6 DEF a
      <4>. HIDE DEF b
      <4>4. n \in 1 .. Len(a) \/ n - Len(a) \in DOMAIN changes
        BY <3>2, <4>2, <4>3
      <4>5. CASE n \in 1 .. Len(a)
        BY <4>2, <4>3, <4>5 DEF a
      <4>6. CASE n \notin 1 .. Len(a)
        BY <3>2, <4>2, <4>3, <4>4, <4>6
      <4>. QED
        BY <4>5, <4>6
    <3>. QED
      BY <2>2, <3>1, <3>2
  <2>9. Shows(Log(s), savepoint, streams[s]) /\ Opened(Log(s))
    BY <1>3, <1>6, <2>1 DEF Follows
  <2>. QED
    BY <1>1, <1>4, <1>5, <1>6, <2>1, <2>5, <2>7, <2>8, <2>9 DEF Follows
<1>7. CASE ~(s \in connected /\ IsLoaded(s))
  <2>1. Untouched(s) /\ (s \notin DOMAIN streams \/ s \in connected) => Untouched(s)'
    <3>1. s \notin DOMAIN streams \/ s \in connected => s \notin activeStreams
      BY <1>1, <1>7, NewOrLoaded DEF TypeOK
    <3>. QED
      BY <1>1, <3>1 DEF Untouched
  <2>. QED
    BY <1>1, <1>3, <1>4, <1>7, <2>1 DEF Follows
<1>. QED
  BY <1>6, <1>7

\* Committing: the changes of the transaction follow those of the streams.
LEMMA CommitFollows ==
  ASSUME TypeOK, StreamPlaces, StreamsFollow, Commit
  PROVE  StreamsFollow'
<1>. USE DEF taskVars, clientVars
<1>. SUFFICES ASSUME NEW s \in StreamIds PROVE Follows(s)'
  BY DEF StreamsFollow
<1>1. /\ UNCHANGED <<streams, connected, observed, transactionChanges, storage, activeStreams, toInitialize,
                     results>>
      /\ workerPc = "execute" /\ workerPc' = "resolve" /\ ~Failed(results)
      /\ savepoint' = storage
      /\ streamChanges'[s] = streamChanges[s] \o transactionChanges[s]
  BY DEF Commit
<1>2. Follows(s)
  BY DEF StreamsFollow
<1>3. IsLoaded(s)' <=> IsLoaded(s)
  BY <1>1 DEF IsLoaded, IsNext
<1>4. /\ observed[s] \in Seq(Change) /\ streamChanges[s] \in Seq(Change)
      /\ transactionChanges[s] \in Seq(Change) /\ Log(s) \in Seq(Change)
  BY ConcatProperties DEF TypeOK, Log
<1>5. Log(s)' = Log(s) \o transactionChanges[s]
  <2>1. observed[s] \o (streamChanges[s] \o transactionChanges[s])
          = (observed[s] \o streamChanges[s]) \o transactionChanges[s]
    BY <1>4, ChangesAssociative
  <2>. QED
    BY <1>1, <2>1 DEF Log
<1>6. CASE s \in connected /\ IsLoaded(s)
  <2>1. s \in DOMAIN streams /\ s \notin toInitialize
    BY <1>1, <1>6, NewOrLoaded
  <2>2. /\ Shows(Log(s) \o transactionChanges[s], storage, streams[s])
        /\ Opened(Log(s))
        /\ \A n \in DOMAIN transactionChanges[s] : transactionChanges[s][n] # Initialized
    BY <1>1, <1>2, <1>6, <2>1 DEF Follows
  <2>3. Opened(Log(s) \o transactionChanges[s])
    BY <1>4, <2>2, StaysOpened
  <2>. QED
    BY <1>1, <1>3, <1>5, <1>6, <2>1, <2>2, <2>3 DEF Follows
<1>7. CASE ~(s \in connected /\ IsLoaded(s))
  <2>1. Untouched(s) => Untouched(s)'
    BY <1>1, ConcatEmptySeq DEF Untouched
  <2>. QED
    BY <1>1, <1>2, <1>3, <1>7, <2>1 DEF Follows
<1>. QED
  BY <1>6, <1>7

\* Rolling back, and answering: the streams have nothing of a transaction that is not committed.
LEMMA EndFollows ==
  ASSUME TypeOK, StreamPlaces, StreamsFollow, Rollback \/ Resolve
  PROVE  StreamsFollow'
<1>. USE DEF taskVars, clientVars
<1>. SUFFICES ASSUME NEW s \in StreamIds PROVE Follows(s)'
  BY DEF StreamsFollow
<1>1. /\ UNCHANGED <<streams, connected, observed, streamChanges, savepoint, activeStreams, toInitialize>>
      /\ workerPc \in {"execute", "resolve"} /\ workerPc' \in {"resolve", "task"}
      /\ transactionChanges'[s] = transactionChanges[s] \/ transactionChanges'[s] = << >>
  BY DEF Rollback, Resolve, NoChanges
<1>2. Follows(s)
  BY DEF StreamsFollow
<1>3. IsLoaded(s)' <=> IsLoaded(s)
  BY <1>1 DEF IsLoaded, IsNext
<1>4. Log(s)' = Log(s)
  BY <1>1 DEF Log
<1>5. Untouched(s) => Untouched(s)'
  BY <1>1 DEF Untouched
<1>6. CASE s \in connected /\ IsLoaded(s)
  <2>1. s \in DOMAIN streams
    BY <1>6 DEF TypeOK
  <2>2. \A n \in DOMAIN transactionChanges'[s] : transactionChanges'[s][n] # Initialized
    BY <1>1, <1>2, <1>6 DEF Follows
  <2>. QED
    BY <1>1, <1>2, <1>3, <1>4, <1>6, <2>1, <2>2 DEF Follows
<1>7. CASE ~(s \in connected /\ IsLoaded(s))
  BY <1>1, <1>2, <1>3, <1>5, <1>7 DEF Follows
<1>. QED
  BY <1>6, <1>7

-----------------------------------------------------------------------------
(* Theorems *)

\* The parts of the invariant of the streams.
StreamInv == KnownBatches /\ StreamPlaces /\ TransactionStart /\ StreamsFollow

\* At first there is no stream, batch or transaction.
LEMMA InitStreams == Init => StreamInv
<1>. SUFFICES ASSUME Init PROVE StreamInv
  OBVIOUS
<1>1. KnownBatches
  BY DEF Init, KnownBatches
<1>2. StreamPlaces /\ TransactionStart
  BY DEF Init, StreamPlaces, TransactionStart
<1>3. ASSUME NEW s \in StreamIds PROVE Follows(s)
  BY DEF Init, Follows, Untouched, NoChanges
<1>. QED
  BY <1>1, <1>2, <1>3 DEF StreamInv, StreamsFollow

\* Whatever the client and the worker do, in every state a stream that was opened and not
\* closed is new, or its log shows what the storage held when the last batch was committed;
\* and inside a transaction, what the storage holds then.
THEOREM StreamInvariant == Spec => []StreamInv
<1>1. TypeOK /\ WorkerState /\ StreamInv /\ [Next]_vars => StreamInv'
  <2>. SUFFICES ASSUME TypeOK, WorkerState, StreamInv, [Next]_vars PROVE StreamInv'
    OBVIOUS
  <2>. USE DEF StreamInv
  <2>1. KnownBatches' /\ StreamPlaces' /\ TransactionStart'
    BY NextKnownBatches, NextPlaces, NextTransactionStart
  <2>2. StreamsFollow'
    BY OtherStepsFollow, ApplyFollows, ActivateFollows, LoadFollows, AnnounceFollows, BeginFollows,
       ExecuteFollows, CommitFollows, EndFollows DEF Next, Client, Worker, Terminated
  <2>. QED
    BY <2>1, <2>2
<1>. QED
  BY InitStreams, <1>1, TypeCorrect, PTL DEF Spec

\* datastream.h: no observer is left with an item, or a revision of it, that the storage does
\* not hold once the changes which wait for it are applied.
THEOREM NoItemIsStale == Spec => []NoStaleItem
<1>1. TypeOK /\ StreamInv => NoStaleItem
  <2>1. ASSUME TypeOK, StreamInv, NEW s \in connected, IsLoaded(s)
        PROVE  ShowsNoStaleItem(Log(s), savepoint, streams[s])
    <3>1. s \in StreamIds
      BY <2>1, StreamsAreNumbered DEF TypeOK
    <3>. QED
      BY <2>1, <3>1 DEF StreamInv, StreamsFollow, Follows, Shows
  <2>. QED
    BY <2>1 DEF NoStaleItem, ShowsNoStaleItem
<1>. QED
  BY <1>1, TypeCorrect, StreamInvariant, PTL

\* ... or without an item that the storage holds, but for a deleted reservation which a late
\* update has brought back.
THEOREM NoItemIsMissing == Spec => []NoMissingItem
<1>1. TypeOK /\ StreamInv => NoMissingItem
  <2>1. ASSUME TypeOK, StreamInv, NEW s \in connected, IsLoaded(s)
        PROVE  ShowsEveryItem(Log(s), savepoint, streams[s])
    <3>1. s \in StreamIds
      BY <2>1, StreamsAreNumbered DEF TypeOK
    <3>. QED
      BY <2>1, <3>1 DEF StreamInv, StreamsFollow, Follows, Shows
  <2>. QED
    BY <2>1 DEF NoMissingItem, ShowsEveryItem
<1>. QED
  BY <1>1, TypeCorrect, StreamInvariant, PTL

\* VectorDataStreamObserver appends what is added: nothing is added to a stream that shows it,
\* and a stream is initialized once, after its first items.
THEOREM ItemsAreAddedOnce == Spec => []ItemsAddedOnce
<1>1. TypeOK /\ StreamInv => ItemsAddedOnce
  <2>1. ASSUME TypeOK, StreamInv, NEW s \in connected
        PROVE  InitializedFirst(Log(s)) /\ AddsOnce(Log(s))
    <3>1. s \in StreamIds /\ Follows(s)
      <4>1. s \in StreamIds
        BY <2>1, StreamsAreNumbered DEF TypeOK
      <4>. QED
        BY <2>1, <4>1 DEF StreamInv, StreamsFollow
    <3>2. CASE ~IsLoaded(s)
      <4>1. Log(s) = << >>
        BY <2>1, <3>1, <3>2, ConcatEmptySeq DEF Follows, Untouched, Log
      <4>. QED
        BY <4>1 DEF InitializedFirst, AddsOnce
    <3>3. CASE IsLoaded(s)
      <4>1. CASE s \in toInitialize
        <5>1. \A n \in DOMAIN Log(s) : n = 1 /\ Log(s)[n].kind = "added"
          BY <2>1, <3>1, <3>3, <4>1 DEF Follows
        <5>2. InitializedFirst(Log(s))
          BY <5>1 DEF InitializedFirst
        <5>. QED
          BY <2>1, <3>1, <3>3, <5>2 DEF Follows, Shows
      <4>2. CASE s \notin toInitialize
        BY <2>1, <3>1, <3>3, <4>2 DEF Follows, Shows, Opened
      <4>. QED
        BY <4>1, <4>2
    <3>. QED
      BY <3>2, <3>3
  <2>. QED
    BY <2>1 DEF ItemsAddedOnce, AddsOnce
<1>. QED
  BY <1>1, TypeCorrect, StreamInvariant, PTL

-----------------------------------------------------------------------------
(* The store and the backend share the operations and the endpoints *)

\* An operation succeeds in the store when it does so in the backend.
LEMMA SameSucceeds ==
  ASSUME NEW data, NEW op
  PROVE  Store!Succeeds(data, op) <=> Succeeds(data, op)
  BY DEF Store!Succeeds, Succeeds, Store!Matches, Matches, Store!Tables, Tables

\* It has the same effect.
LEMMA SameEffect ==
  ASSUME NEW data, NEW op \in Operation
  PROVE  Store!Effect(data, op) = Effect(data, op)
<1>1. Store!Succeeds(data, op) <=> Succeeds(data, op)
  BY SameSucceeds
<1>2. Store!DeleteAll = DeleteAll
  BY DEF Store!DeleteAll, DeleteAll, Store!EmptyDatabase, EmptyDatabase, Store!Tables, Tables
<1>3. \A item : Store!StoreNewItem(data, item) = StoreNewItem(data, item)
  BY DEF Store!StoreNewItem, StoreNewItem
<1>4. \A item : Store!UpdateItem(data, item) = UpdateItem(data, item)
  BY DEF Store!UpdateItem, UpdateItem
<1>5. \A id : Store!DeleteReservationById(data, id) = DeleteReservationById(data, id)
  BY DEF Store!DeleteReservationById, DeleteReservationById
<1>6. op.op \in {"EraseAllData", "StoreNew", "Update", "Delete"}
  BY DEF Operation
<1>7. CASE ~Succeeds(data, op)
  BY <1>1, <1>7 DEF Store!Effect, Effect
<1>8. CASE Succeeds(data, op) /\ op.op = "EraseAllData"
  BY <1>1, <1>2, <1>8 DEF Store!Effect, Effect
<1>9. CASE Succeeds(data, op) /\ op.op = "StoreNew"
  BY <1>1, <1>3, <1>9 DEF Store!Effect, Effect
<1>10. CASE Succeeds(data, op) /\ op.op = "Update"
  BY <1>1, <1>4, <1>10 DEF Store!Effect, Effect
<1>11. CASE Succeeds(data, op) /\ op.op = "Delete"
  BY <1>1, <1>5, <1>11 DEF Store!Effect, Effect
<1>. QED
  BY <1>6, <1>7, <1>8, <1>9, <1>10, <1>11

\* A batch fails by its results.
LEMMA SameFailed ==
  ASSUME NEW rs
  PROVE  Store!Failed(rs) <=> Failed(rs)
  BY DEF Store!Failed, Failed

\* The items of an endpoint are the same.
LEMMA SameLoaded ==
  ASSUME NEW data, NEW e
  PROVE  Store!Loaded(data, e) = Loaded(data, e)
<1>1. \A t, id : /\ Store!ItemAt(data, t, id) = ItemAt(data, t, id)
                 /\ Store!IsLoadable(data, t, id) <=> IsLoadable(data, t, id)
  BY DEF Store!ItemAt, ItemAt, Store!IsLoadable, IsLoadable
<1>2. \A t, id : /\ Store!LoadAll(data, t) = LoadAll(data, t)
                 /\ Store!LoadById(data, t, id) = LoadById(data, t, id)
  BY <1>1 DEF Store!LoadAll, LoadAll, Store!LoadById, LoadById
<1>. QED
  BY <1>2 DEF Store!Loaded, Loaded, Store!Tables, Tables, Store!HasHandler, HasHandler

\* Items are compared the same way.
LEMMA SameSameItem ==
  ASSUME NEW a, NEW b
  PROVE  Store!SameItem(a, b) <=> SameItem(a, b)
  BY DEF Store!SameItem, SameItem

\* One more operation, in the words of the backend.
LEMMA StoreOperation ==
  ASSUME NEW run, NEW op \in Operation
  PROVE  Store!AfterOperation(run, op) =
           IF Failed(run.results) THEN run
           ELSE [db      |-> Effect(run.db, op),
                 results |-> Append(run.results, IF Succeeds(run.db, op) THEN "Successful" ELSE "Error")]
  BY SameSucceeds, SameEffect, SameFailed DEF Store!AfterOperation

-----------------------------------------------------------------------------
(* How the store runs a batch *)

\* The recursive definition of Runs defines a function.
LEMMA RunsDefined ==
  ASSUME NEW data, NEW batch, Len(batch) \in Nat
  PROVE  Store!Runs(data, batch) =
           [n \in 0 .. Len(batch) |->
              IF n = 0 THEN [db |-> data, results |-> << >>]
              ELSE Store!AfterOperation(Store!Runs(data, batch)[n - 1], batch[n])]
<1>. DEFINE first == [db |-> data, results |-> << >>]
            Upto(m, v) == v = [n \in 0 .. m |-> IF n = 0 THEN first
                                                ELSE Store!AfterOperation(v[n - 1], batch[n])]
            N == {m \in Nat : \E v : Upto(m, v)}
<1>1. 0 \in N
  <2>1. Upto(0, [n \in 0 .. 0 |-> first])
    <3>. HIDE DEF first
    <3>. QED
      OBVIOUS
  <2>. HIDE DEF Upto
  <2>. QED
    BY <2>1
<1>2. ASSUME NEW m \in Nat, m \in N PROVE m + 1 \in N
  <2>. HIDE DEF first
  <2>1. PICK v : Upto(m, v)
    BY <1>2
  <2>. DEFINE w == [n \in 0 .. m + 1 |-> IF n = m + 1 THEN Store!AfterOperation(v[m], batch[m + 1]) ELSE v[n]]
  <2>2. ASSUME NEW n \in 0 .. m + 1
        PROVE  w[n] = IF n = 0 THEN first ELSE Store!AfterOperation(w[n - 1], batch[n])
    <3>1. CASE n = m + 1
      <4>1. n # 0 /\ n - 1 = m /\ w[m] = v[m]
        BY <3>1
      <4>. QED
        BY <3>1, <4>1
    <3>2. CASE n # m + 1
      <4>1. n \in 0 .. m /\ w[n] = v[n] /\ (n # 0 => n - 1 \in 0 .. m /\ w[n - 1] = v[n - 1])
        BY <3>2
      <4>2. v[n] = IF n = 0 THEN first ELSE Store!AfterOperation(v[n - 1], batch[n])
        BY <2>1, <4>1
      <4>. QED
        BY <4>1, <4>2
    <3>. QED
      BY <3>1, <3>2
  <2>3. Upto(m + 1, w)
    <3>. HIDE DEF N
    <3>1. w = [n \in 0 .. m + 1 |-> w[n]]
      OBVIOUS
    <3>. QED
      BY <2>2, <3>1
  <2>. HIDE DEF Upto, w
  <2>. QED
    BY <2>3
<1>3. Len(batch) \in N
  <2>. HIDE DEF N
  <2>. QED
    BY <1>1, <1>2, SetInduction
<1>4. \E v : Upto(Len(batch), v)
  BY <1>3
<1>5. Store!Runs(data, batch) = CHOOSE v : Upto(Len(batch), v)
  BY DEF Store!Runs
<1>6. Upto(Len(batch), Store!Runs(data, batch))
  <2>. HIDE DEF Upto
  <2>. QED
    BY <1>4, <1>5
<1>. QED
  BY <1>6

\* A transaction starts from the data, and goes on from operation to operation.
LEMMA RunsSteps ==
  ASSUME NEW data, NEW batch, Len(batch) \in Nat
  PROVE  /\ Store!Runs(data, batch)[0] = [db |-> data, results |-> << >>]
         /\ \A n \in 1 .. Len(batch) :
              Store!Runs(data, batch)[n] = Store!AfterOperation(Store!Runs(data, batch)[n - 1], batch[n])
<1>. DEFINE runs == Store!Runs(data, batch)
            first == [db |-> data, results |-> << >>]
<1>1. runs = [n \in 0 .. Len(batch) |-> IF n = 0 THEN first ELSE Store!AfterOperation(runs[n - 1], batch[n])]
  BY RunsDefined
<1>. HIDE DEF runs, first
<1>2. /\ runs[0] = first
      /\ \A n \in 1 .. Len(batch) : runs[n] = Store!AfterOperation(runs[n - 1], batch[n])
  BY <1>1
<1>. QED
  BY <1>2 DEF runs, first

\* A transaction that failed is over.
LEMMA RunsEndAtFailure ==
  ASSUME NEW data, NEW batch, Len(batch) \in Nat, NEW m \in 0 .. Len(batch),
         Failed(Store!Runs(data, batch)[m].results)
  PROVE  Store!Run(data, batch) = Store!Runs(data, batch)[m]
<1>. DEFINE runs == Store!Runs(data, batch)
            N == {n \in Nat : m + n <= Len(batch) => runs[m + n] = runs[m]}
<1>1. 0 \in N
  OBVIOUS
<1>2. ASSUME NEW n \in Nat, n \in N PROVE n + 1 \in N
  <2>. SUFFICES ASSUME m + (n + 1) <= Len(batch) PROVE runs[m + (n + 1)] = runs[m]
    OBVIOUS
  <2>1. m + (n + 1) \in 1 .. Len(batch) /\ (m + (n + 1)) - 1 = m + n /\ m + n <= Len(batch)
    OBVIOUS
  <2>2. runs[m + n] = runs[m]
    BY <1>2, <2>1
  <2>3. runs[m + (n + 1)] = Store!AfterOperation(runs[m + n], batch[m + (n + 1)])
    <3>1. \A k \in 1 .. Len(batch) : runs[k] = Store!AfterOperation(runs[k - 1], batch[k])
      BY RunsSteps
    <3>. DEFINE k == m + (n + 1)
    <3>2. k \in 1 .. Len(batch) /\ k - 1 = m + n
      BY <2>1
    <3>. HIDE DEF runs, k
    <3>3. runs[k] = Store!AfterOperation(runs[m + n], batch[k])
      BY <3>1, <3>2
    <3>. QED
      BY <3>3 DEF k
  <2>. QED
    BY <2>2, <2>3, SameFailed DEF Store!AfterOperation
<1>3. Len(batch) - m \in N
  <2>1. \A n \in Nat : n \in N
    <3>. HIDE DEF N
    <3>. QED
      BY <1>1, <1>2, SetInduction
  <2>2. Len(batch) - m \in Nat
    OBVIOUS
  <2>. QED
    BY <2>1, <2>2
<1>4. m + (Len(batch) - m) = Len(batch)
  OBVIOUS
<1>. QED
  BY <1>3, <1>4 DEF Store!Run

-----------------------------------------------------------------------------
(* What a stream that follows the storage may miss *)

Ids(view) == {i.id : i \in view}

\* Every row was stored, which gave it a revision.
IsStored(db) == \A t \in Tables : \A id \in DOMAIN db[t] : db[t][id].revision >= 1

\* The rows that an endpoint's stream carries and a view does not show.
Unseen(view, db, e) ==
  {id \in DOMAIN db[e.type] : Concerns(e, e.type, id) /\ id \notin Ids(view)}

\* What a view misses was updated after it was stored.
MissedWereUpdated(view, db, e) ==
  e.type \in Tables =>
    \A id \in Unseen(view, db, e) : IsLoadable(db, e.type, id) => db[e.type][id].revision > 1

\* What a view does not show and an older one did is among the deleted.
GoneWereDeleted(old, view, db, e, deleted) ==
  e.type \in Tables => \A id \in Unseen(view, db, e) : id \in deleted \/ id \notin Ids(old)

\* The ids which the first n operations of a batch delete.
DeletedBy(batch, n) == {batch[i].id : i \in {k \in 1 .. n : batch[k].op = "Delete"}}

\* What the invariants of the backend say of the streams inside a transaction and outside.
StreamMisses(s) ==
  s \in connected /\ IsLoaded(s) =>
    /\ MissedWereUpdated(Contents(Log(s)), savepoint, streams[s])
    /\ workerPc = "execute" /\ ~Failed(results) =>
         /\ MissedWereUpdated(Contents(Log(s) \o transactionChanges[s]), storage, streams[s])
         /\ GoneWereDeleted(Contents(Log(s)), Contents(Log(s) \o transactionChanges[s]), storage,
                            streams[s], DeletedBy(Head(newTasks).operations, Len(results)))

\* The open transaction is the store's run of the batch, as far as it is.
TransactionRuns ==
  workerPc = "execute" =>
    /\ Len(results) <= Len(Head(newTasks).operations)
    /\ Store!Runs(savepoint, Head(newTasks).operations)[Len(results)]
         = [db |-> storage, results |-> results]

\* The inductive invariant that the implementation needs beyond those of the other modules.
StoreInv ==
  /\ IsStored(storage) /\ IsStored(savepoint)
  /\ TransactionRuns
  /\ \A s \in StreamIds : StreamMisses(s)

-----------------------------------------------------------------------------
(* One more operation *)

\* Each row after an operation is as before, or is the one that was stored, updated or deleted.
LEMMA RowsAfter ==
  ASSUME NEW db \in Database, NEW op \in Operation,
         NEW t \in Tables, NEW id \in DOMAIN Effect(db, op)[t]
  PROVE  LET after == Effect(db, op)
         IN  \/ id \in DOMAIN db[t] /\ after[t][id] = db[t][id]
             \/ /\ Succeeds(db, op) /\ op.op = "StoreNew" /\ op.item.type = t
                /\ id = Len(db[t]) + 1
                /\ after[t][id].revision = 1
             \/ /\ Succeeds(db, op) /\ op.op = "Update" /\ op.item.type = t /\ op.item.id = id
                /\ id \in DOMAIN db[t]
                /\ after[t][id].revision = db[t][id].revision + 1
             \/ /\ Succeeds(db, op) /\ op.op = "Delete" /\ t = "Reservation" /\ op.id = id
                /\ id \in DOMAIN db[t]
                /\ after[t][id].revision = db[t][id].revision /\ after[t][id].parts = << >>
<1>. DEFINE after == Effect(db, op)
<1>0. DOMAIN db = Tables /\ db[t] \in Seq(Row) /\ DOMAIN db[t] = 1 .. Len(db[t]) /\ Len(db[t]) \in Nat
  BY LenProperties DEF Database
<1>1. CASE after = db
  BY <1>1
<1>2. CASE Succeeds(db, op) /\ op.op = "EraseAllData"
  <2>1. after = DeleteAll
    BY <1>2 DEF Effect
  <2>2. DOMAIN DeleteAll[t] = {}
    BY EmptySeq DEF DeleteAll, EmptyDatabase
  <2>. QED
    BY <2>1, <2>2
<1>3. CASE Succeeds(db, op) /\ op.op = "StoreNew" /\ op.item.type # "Null"
  <2>1. after = StoreNewItem(db, op.item) /\ op.item \in Item /\ op.item.type \in Tables
    BY <1>3 DEF Effect, Operation, Succeeds, Item, ItemTypes
  <2>. DEFINE row == [revision |-> 1, fields |-> op.item.fields, parts |-> op.item.parts]
  <2>2. CASE op.item.type = t
    <3>1. after[t] = Append(db[t], row)
      BY <1>0, <2>1, <2>2 DEF StoreNewItem
    <3>2. row \in Row
      BY <2>1 DEF Row, Item
    <3>3. /\ DOMAIN Append(db[t], row) = DOMAIN db[t] \cup {Len(db[t]) + 1}
          /\ \A i \in DOMAIN db[t] : Append(db[t], row)[i] = db[t][i]
          /\ Append(db[t], row)[Len(db[t]) + 1] = row
      <4>. HIDE DEF row
      <4>. QED
        BY <1>0, <3>2, AppendProperties, LenProperties
    <3>4. row.revision = 1
      OBVIOUS
    <3>. HIDE DEF row
    <3>. QED
      BY <1>3, <2>2, <3>1, <3>3, <3>4
  <2>3. CASE op.item.type # t
    <3>1. after[t] = db[t]
      BY <1>0, <2>1, <2>3 DEF StoreNewItem
    <3>. QED
      BY <3>1
  <2>. QED
    BY <2>2, <2>3
<1>4. CASE Succeeds(db, op) /\ op.op = "Update"
  <2>1. after = UpdateItem(db, op.item)
    BY <1>4 DEF Effect
  <2>2. DOMAIN UpdateItem(db, op.item)[t] = DOMAIN db[t]
    BY <1>0 DEF UpdateItem
  <2>3. CASE op.item.type = t /\ op.item.id = id
    <3>1. UpdateItem(db, op.item)[t][id].revision = db[t][id].revision + 1
      BY <1>0, <2>1, <2>2, <2>3 DEF UpdateItem
    <3>. QED
      BY <1>4, <2>1, <2>2, <2>3, <3>1
  <2>4. CASE ~(op.item.type = t /\ op.item.id = id)
    <3>1. UpdateItem(db, op.item)[t][id] = db[t][id]
      BY <1>0, <2>1, <2>2, <2>4 DEF UpdateItem
    <3>. QED
      BY <2>1, <2>2, <3>1
  <2>. QED
    BY <2>3, <2>4
<1>5. CASE Succeeds(db, op) /\ op.op = "Delete" /\ op.id \in DOMAIN db["Reservation"]
  <2>1. after = [db EXCEPT !["Reservation"][op.id].parts = << >>]
    BY <1>5 DEF Effect, DeleteReservationById
  <2>2. DOMAIN after[t] = DOMAIN db[t]
    BY <1>0, <2>1
  <2>3. CASE t = "Reservation" /\ op.id = id
    <3>1. after[t][id] = [db[t][id] EXCEPT !.parts = << >>]
      BY <1>0, <2>1, <2>2, <2>3
    <3>2. db[t][id] \in Row
      BY <1>0, <2>2, ElementOfSeq
    <3>3. after[t][id].revision = db[t][id].revision /\ after[t][id].parts = << >>
      BY <3>1, <3>2 DEF Row
    <3>. QED
      BY <1>5, <2>2, <2>3, <3>3
  <2>4. CASE ~(t = "Reservation" /\ op.id = id)
    <3>1. after[t][id] = db[t][id]
      BY <1>0, <2>1, <2>2, <2>4
    <3>. QED
      BY <2>2, <3>1
  <2>. QED
    BY <2>3, <2>4
<1>6. \/ after = db
      \/ Succeeds(db, op) /\ op.op = "EraseAllData"
      \/ Succeeds(db, op) /\ op.op = "StoreNew" /\ op.item.type # "Null"
      \/ Succeeds(db, op) /\ op.op = "Update"
      \/ Succeeds(db, op) /\ op.op = "Delete" /\ op.id \in DOMAIN db["Reservation"]
  BY DEF Effect, Operation, DeleteReservationById
<1>. QED
  BY <1>1, <1>2, <1>3, <1>4, <1>5, <1>6

\* Rows keep a revision that storing or updating gave them.
LEMMA StoredStays ==
  ASSUME NEW db \in Database, NEW op \in Operation, IsStored(db)
  PROVE  IsStored(Effect(db, op))
<1>1. ASSUME NEW t \in Tables, NEW id \in DOMAIN Effect(db, op)[t]
      PROVE  Effect(db, op)[t][id].revision >= 1
  <2>1. db[t] \in Seq(Row)
    BY DEF Database
  <2>2. \A i \in DOMAIN db[t] : db[t][i] \in Row
    BY <2>1, ElementOfSeq, LenProperties
  <2>3. \A i \in DOMAIN db[t] : db[t][i].revision >= 1 /\ db[t][i].revision \in Nat
    BY <2>2 DEF IsStored, Row
  <2>. QED
    BY <2>3, RowsAfter
<1>. QED
  BY <1>1 DEF IsStored

\* No operation takes an item from a view but a deletion and the erasure, and a store shows
\* the new row.
LEMMA IdsAfter ==
  ASSUME NEW db \in Database, NEW op \in Operation, op.op # "EraseAllData",
         NEW e \in Endpoint, NEW log \in Seq(Change), Contents(log) \subseteq Item
  PROVE  LET after == Ids(Contents(log \o ChangesFor(db, op, e)))
         IN  /\ \A id \in Ids(Contents(log)) :
                  id \in after \/ (Succeeds(db, op) /\ op.op = "Delete" /\ e.type = "Reservation" /\ op.id = id)
             /\ /\ Succeeds(db, op) /\ op.op = "StoreNew" /\ op.item.type \in Tables
                /\ Concerns(e, op.item.type, Len(db[op.item.type]) + 1)
                => Len(db[op.item.type]) + 1 \in after
<1>. DEFINE changes == ChangesFor(db, op, e)
<1>0. CASE ~Succeeds(db, op) \/ (op.op = "StoreNew" /\ op.item.type \notin Tables)
  <2>1. changes = << >>
    BY <1>0 DEF ChangesFor, Operation, Succeeds, Item, ItemTypes
  <2>2. log \o << >> = log
    BY ConcatEmptySeq
  <2>. QED
    BY <1>0, <2>1, <2>2
<1>1. CASE Succeeds(db, op) /\ op.op = "StoreNew" /\ op.item.type \in Tables
  <2>. DEFINE stored == StoredItem(db, op.item)
              n == Len(db[op.item.type]) + 1
  <2>1. op.item \in Item /\ n \in Nat
    BY <1>1, LenProperties DEF Operation, Database
  <2>2. stored \in Item /\ stored.id = n /\ stored.type = op.item.type
    <3>1. \A k \in Nat : LET i == [op.item EXCEPT !.id = k, !.revision = 1]
                         IN  i \in Item /\ i.id = k /\ i.type = op.item.type
      BY <2>1 DEF Item
    <3>. QED
      BY <2>1, <3>1 DEF StoredItem
  <2>3. changes = ItemChanges(e, stored, Added({stored}))
    BY <1>1 DEF ChangesFor, Tables
  <2>. HIDE DEF stored, n, changes
  <2>4. CASE Concerns(e, stored.type, stored.id)
    <3>1. changes = <<Added({stored})>>
      BY <2>3, <2>4 DEF ItemChanges, Concerns
    <3>2. Added({stored}) \in Change /\ Added({stored}).kind = "added" /\ Added({stored}).items = {stored}
      BY <2>2 DEF Added, Change
    <3>3. Contents(log \o changes) = ApplyChange(Contents(log), Added({stored}))
      BY <3>1, <3>2, OneMoreChange
    <3>4. Contents(log \o changes) = Contents(log) \cup {stored}
      BY <3>2, <3>3 DEF ApplyChange
    <3>. QED
      BY <1>1, <2>2, <3>4 DEF Ids, changes, n
  <2>5. CASE ~Concerns(e, stored.type, stored.id)
    <3>1. changes = << >>
      BY <1>1, <2>2, <2>3, <2>5 DEF ItemChanges, Concerns
    <3>2. log \o << >> = log
      BY ConcatEmptySeq
    <3>. QED
      BY <1>1, <2>2, <2>5, <3>1, <3>2 DEF changes, n
  <2>. QED
    BY <2>4, <2>5
<1>2. CASE Succeeds(db, op) /\ op.op = "Update"
  <2>. DEFINE new == [op.item EXCEPT !.revision = @ + 1]
  <2>1. new \in Item
    BY <1>2 DEF Operation, Item
  <2>2. changes = ItemChanges(e, new, Updated({new}))
    BY <1>2 DEF ChangesFor
  <2>. HIDE DEF new, changes
  <2>3. CASE changes = << >>
    <3>1. log \o << >> = log
      BY ConcatEmptySeq
    <3>. QED
      BY <1>2, <2>3, <3>1 DEF changes
  <2>4. CASE changes = <<Updated({new})>>
    <3>1. Updated({new}) \in Change /\ Updated({new}).kind = "updated" /\ Updated({new}).items = {new}
      BY <2>1 DEF Updated, Change
    <3>2. Contents(log \o changes) = ApplyChange(Contents(log), Updated({new}))
      BY <2>4, <3>1, OneMoreChange
    <3>3. Contents(log \o changes) = ReplaceItems(Contents(log), {new})
      BY <3>1, <3>2 DEF ApplyChange
    <3>4. ASSUME NEW old \in Contents(log)
          PROVE  old.id \in Ids(Contents(log \o changes))
      <4>. DEFINE i == IF old.id = new.id THEN AssignItem(old, new) ELSE old
      <4>1. i \in Contents(log \o changes)
        BY <3>3, ReplacedItems
      <4>2. i.id = old.id
        <5>1. old \in Item
          BY <3>4
        <5>2. AssignItem(old, new) \in Item /\ SameItem(AssignItem(old, new), new)
          BY <2>1, <5>1, AssignedItem
        <5>3. AssignItem(old, new).id = new.id
          BY <2>1, <5>2, SameItemMeans
        <5>. QED
          BY <5>3
      <4>. HIDE DEF i
      <4>. QED
        BY <4>1, <4>2 DEF Ids
    <3>. QED
      BY <1>2, <3>4 DEF Ids, changes
  <2>. QED
    BY <2>2, <2>3, <2>4 DEF ItemChanges
<1>3. CASE Succeeds(db, op) /\ op.op = "Delete"
  <2>1. op.id \in Nat /\ changes = RemoveChanges(e, op.id)
    BY <1>3 DEF Operation, ChangesFor
  <2>. HIDE DEF changes
  <2>2. CASE changes = << >>
    <3>1. log \o << >> = log
      BY ConcatEmptySeq
    <3>. QED
      BY <1>3, <2>2, <3>1 DEF changes
  <2>3. CASE changes = <<Removed({op.id})>> /\ e.type = "Reservation"
    <3>1. /\ Removed({op.id}) \in Change /\ Removed({op.id}).kind = "removed"
          /\ Removed({op.id}).ids = {op.id}
      BY <2>1 DEF Removed, Change
    <3>2. Contents(log \o changes) = ApplyChange(Contents(log), Removed({op.id}))
      BY <2>3, <3>1, OneMoreChange
    <3>3. Contents(log \o changes) = {i \in Contents(log) : i.id \notin {op.id}}
      BY <3>1, <3>2 DEF ApplyChange
    <3>. QED
      BY <1>3, <2>3, <3>3 DEF Ids, changes
  <2>. QED
    BY <2>1, <2>2, <2>3 DEF RemoveChanges
<1>. QED
  BY <1>0, <1>1, <1>2, <1>3 DEF Operation

\* executeOperation: what a view misses after an operation was updated, and what is gone from
\* it was deleted.
LEMMA OperationMisses ==
  ASSUME NEW db \in Database, IsStored(db), NEW op \in Operation,
         NEW e \in Endpoint, NEW log \in Seq(Change), Contents(log) \subseteq Item,
         NEW old, NEW deleted, NEW more,
         op.op = "Delete" => op.id \in more,
         deleted \subseteq more,
         MissedWereUpdated(Contents(log), db, e),
         GoneWereDeleted(old, Contents(log), db, e, deleted)
  PROVE  /\ MissedWereUpdated(Contents(log \o ChangesFor(db, op, e)), Effect(db, op), e)
         /\ GoneWereDeleted(old, Contents(log \o ChangesFor(db, op, e)), Effect(db, op), e, more)
<1>. DEFINE t == e.type
            after == Effect(db, op)
            view == Contents(log)
            seen == Contents(log \o ChangesFor(db, op, e))
<1>1. ASSUME t \in Tables, NEW id \in Unseen(seen, after, e)
      PROVE  /\ IsLoadable(after, t, id) => after[t][id].revision > 1
             /\ id \in more \/ id \notin Ids(old)
  <2>1. id \in DOMAIN after[t] /\ Concerns(e, t, id) /\ id \notin Ids(seen)
    BY <1>1 DEF Unseen
  <2>2. op.op # "EraseAllData"
    <3>1. SUFFICES ASSUME op.op = "EraseAllData" PROVE FALSE
      OBVIOUS
    <3>2. after = DeleteAll
      BY <3>1 DEF Effect, Succeeds
    <3>. QED
      BY <1>1, <2>1, <3>2, EmptySeq DEF DeleteAll, EmptyDatabase
  <2>3. /\ id \in Ids(view) => Succeeds(db, op) /\ op.op = "Delete" /\ t = "Reservation" /\ op.id = id
        /\ ~(Succeeds(db, op) /\ op.op = "StoreNew" /\ op.item.type = t /\ id = Len(db[t]) + 1)
    <3>. HIDE DEF after
    <3>. QED
      BY <1>1, <2>1, <2>2, IdsAfter
  <2>4. ASSUME id \in DOMAIN db[t], id \notin Ids(view)
        PROVE  /\ IsLoadable(db, t, id) => db[t][id].revision > 1
               /\ id \in more \/ id \notin Ids(old)
    <3>1. id \in Unseen(view, db, e)
      BY <2>1, <2>4 DEF Unseen
    <3>. QED
      BY <1>1, <3>1 DEF MissedWereUpdated, GoneWereDeleted
  <2>. HIDE DEF view, seen
  <2>5. CASE id \in DOMAIN db[t] /\ after[t][id] = db[t][id]
    <3>1. IsLoadable(after, t, id) => IsLoadable(db, t, id)
      BY <2>5 DEF IsLoadable
    <3>2. CASE id \in Ids(view)
      <4>1. op.op = "Delete" /\ op.id = id /\ t = "Reservation" /\ Succeeds(db, op)
        BY <2>3, <3>2
      <4>2. after[t][id].parts = << >>
        <5>1. after = [db EXCEPT !["Reservation"][op.id].parts = << >>]
          BY <2>5, <4>1 DEF Effect, DeleteReservationById
        <5>2. db[t] \in Seq(Row) /\ db[t][id] \in Row /\ DOMAIN db = Tables
          BY <1>1, <2>5, ElementOfSeq, LenProperties DEF Database
        <5>3. after[t][id] = [db[t][id] EXCEPT !.parts = << >>]
          BY <2>5, <4>1, <5>1, <5>2, <1>1
        <5>. QED
          BY <5>2, <5>3 DEF Row
      <4>. QED
        BY <4>1, <4>2 DEF IsLoadable
    <3>3. CASE id \notin Ids(view)
      BY <2>4, <2>5, <3>1, <3>3
    <3>. QED
      BY <3>2, <3>3
  <2>6. CASE /\ Succeeds(db, op) /\ op.op = "Update" /\ op.item.type = t /\ op.item.id = id
             /\ id \in DOMAIN db[t]
             /\ after[t][id].revision = db[t][id].revision + 1
    <3>1. db[t][id].revision >= 1 /\ db[t][id].revision \in Nat
      <4>1. db[t] \in Seq(Row) /\ db[t][id] \in Row
        BY <1>1, <2>6, ElementOfSeq, LenProperties DEF Database
      <4>. QED
        BY <1>1, <2>6, <4>1 DEF IsStored, Row
    <3>2. after[t][id].revision > 1
      BY <2>6, <3>1
    <3>. QED
      BY <2>3, <2>4, <2>6, <3>2
  <2>7. CASE /\ Succeeds(db, op) /\ op.op = "Delete" /\ t = "Reservation" /\ op.id = id
             /\ after[t][id].parts = << >>
    BY <2>7 DEF IsLoadable
  <2>. QED
    BY <1>1, <2>1, <2>3, <2>5, <2>6, <2>7, RowsAfter
<1>. QED
  BY <1>1 DEF MissedWereUpdated, GoneWereDeleted

\* What the store calls following: the view is current, and misses only what was deleted and
\* then updated.
LEMMA ViewFollows ==
  ASSUME NEW db \in Database, NEW e \in Endpoint, NEW view, NEW old, NEW batch, NEW deleted,
         \A id \in deleted : Store!Deletes(batch, id),
         view \subseteq Item,
         \A i \in view : \E j \in Loaded(db, e) : SameItem(i, j),
         MissedWereUpdated(view, db, e),
         GoneWereDeleted(old, view, db, e, deleted)
  PROVE  Store!Follows(view, old, db, batch, e)
<1>1. ASSUME NEW i \in view
      PROVE  \E j \in Store!Loaded(db, e) : Store!SameItem(i, j)
  BY SameLoaded, SameSameItem
<1>2. ASSUME NEW j \in Store!Loaded(db, e)
      PROVE  \/ \E i \in view : Store!SameItem(i, j)
             \/ j.revision > 1 /\ (Store!Deletes(batch, j.id) \/ \A i \in old : i.id # j.id)
  <2>1. /\ j \in Loaded(db, e) /\ j \in Item /\ e.type \in Tables /\ j.id \in DOMAIN db[e.type]
        /\ Concerns(e, e.type, j.id)
        /\ e.type = "Reservation" => db[e.type][j.id].parts # << >>
        /\ j = ItemAt(db, e.type, j.id)
    BY SameLoaded, LoadedItem
  <2>2. CASE j.id \in Ids(view)
    <3>1. PICK i \in view : i.id = j.id
      BY <2>2 DEF Ids
    <3>2. PICK k \in Loaded(db, e) : SameItem(i, k)
      OBVIOUS
    <3>3. k.id = j.id
      BY <3>1, <3>2, LoadedItem, SameItemMeans
    <3>4. k = j
      BY <2>1, <3>3, LoadedItem
    <3>. QED
      BY <3>2, <3>4, SameSameItem
  <2>3. CASE j.id \notin Ids(view)
    <3>1. j.id \in Unseen(view, db, e) /\ IsLoadable(db, e.type, j.id)
      BY <2>1, <2>3 DEF Unseen, IsLoadable
    <3>2. db[e.type][j.id].revision > 1 /\ (j.id \in deleted \/ j.id \notin Ids(old))
      BY <2>1, <3>1 DEF MissedWereUpdated, GoneWereDeleted
    <3>3. j.revision = db[e.type][j.id].revision
      BY <2>1 DEF ItemAt
    <3>. QED
      BY <3>2, <3>3 DEF Ids
  <2>. QED
    BY <2>2, <2>3
<1>. QED
  BY <1>1, <1>2 DEF Store!Follows

-----------------------------------------------------------------------------
(* What each step does to the streams, as the store sees them *)

\* Streams which have started are open, and no other shows anything.
LEMMA StreamsSeen ==
  ASSUME TypeOK, StreamInv
  PROVE  /\ Started \in SUBSET connected /\ connected \in SUBSET StreamIds
         /\ \A s \in connected : s \in DOMAIN streams /\ streams[s] \in Endpoint
         /\ \A s \in StreamIds : Log(s) \in Seq(Change)
         /\ \A s \in StreamIds : s \notin DOMAIN streams \/ (s \in connected /\ s \notin Started)
              => Untouched(s) /\ Contents(observed[s]) = {}
<1>1. \A s \in DOMAIN streams : s \in StreamIds /\ streams[s] \in Endpoint
  BY StreamsAreNumbered
<1>2. \A s \in StreamIds : Log(s) \in Seq(Change)
  BY ConcatProperties DEF TypeOK, Log
<1>3. ASSUME NEW s \in StreamIds, s \notin DOMAIN streams \/ (s \in connected /\ s \notin Started)
      PROVE  Untouched(s) /\ Contents(observed[s]) = {}
  <2>1. Follows(s)
    BY DEF StreamInv, StreamsFollow
  <2>2. Untouched(s)
    BY <1>3, <2>1 DEF Follows, Started
  <2>. QED
    BY <2>2, EmptyLog DEF Untouched
<1>. QED
  BY <1>1, <1>2, <1>3 DEF TypeOK, Started

\* A step that leaves the streams alone.
LEMMA QuietStreams ==
  ASSUME UNCHANGED <<streams, connected, activeStreams, toInitialize, observed, streamChanges>>,
         workerPc' = workerPc \/ "announce" \notin {workerPc, workerPc'}
  PROVE  /\ Started' = Started /\ Feed' = Feed /\ Shown' = Shown
         /\ \A s : Log(s)' = Log(s)
<1>1. \A s : IsLoaded(s)' <=> IsLoaded(s)
  BY DEF IsLoaded, IsNext
<1>2. \A s : Log(s)' = Log(s)
  BY DEF Log
<1>3. Started' = Started
  BY <1>1 DEF Started
<1>. QED
  BY <1>2, <1>3 DEF Feed, Shown

\* A new stream shows nothing yet.
LEMMA CreateStreamSeen ==
  ASSUME TypeOK, StreamInv, NEW e \in Endpoints, CreateStream(e)
  PROVE  /\ Started' = Started /\ Feed' = Feed /\ Shown' = Shown
         /\ \A s : Log(s)' = Log(s)
         /\ \A s \in Started : streams'[s] = streams[s]
<1>. DEFINE new == Len(streams) + 1
<1>1. /\ new \notin DOMAIN streams
      /\ \A s \in DOMAIN streams : streams'[s] = streams[s]
  BY NewStream
<1>2. /\ connected' = connected \cup {new}
      /\ UNCHANGED <<observed, streamChanges, activeStreams, toInitialize, workerPc>>
  BY DEF CreateStream
<1>. HIDE DEF new
<1>3. \A s : IsLoaded(s)' <=> IsLoaded(s)
  BY <1>2 DEF IsLoaded, IsNext
<1>4. \A s : Log(s)' = Log(s)
  BY <1>2 DEF Log
<1>5. ~IsLoaded(new)
  BY <1>1 DEF TypeOK, IsLoaded
<1>6. Started' = Started
  BY <1>2, <1>3, <1>5 DEF Started
<1>7. \A s \in StreamIds : s = new => Contents(observed[s]) = {} /\ s \notin connected
  BY <1>1, StreamsSeen DEF TypeOK
<1>8. Shown' = Shown
  BY <1>2, <1>7 DEF Shown
<1>. QED
  BY <1>1, <1>4, <1>6, <1>8, StreamsSeen DEF Feed

\* A stream whose handle was reset shows nothing any more.
LEMMA ResetHandleSeen ==
  ASSUME TypeOK, StreamInv, NEW r \in StreamIds, ResetHandle(r)
  PROVE  /\ Started' = Started \ {r}
         /\ Feed' = [Feed EXCEPT ![r] = {}] /\ Shown' = [Shown EXCEPT ![r] = {}]
         /\ \A s : Log(s)' = Log(s)
<1>1. /\ connected' = connected \ {r} /\ activeStreams' = activeStreams \ {r}
      /\ UNCHANGED <<streams, observed, streamChanges, toInitialize, workerPc>>
  BY DEF ResetHandle
<1>2. \A s : s # r => (IsLoaded(s)' <=> IsLoaded(s))
  BY <1>1 DEF IsLoaded, IsNext
<1>3. \A s : Log(s)' = Log(s)
  BY <1>1 DEF Log
<1>4. Started' = Started \ {r}
  BY <1>1, <1>2 DEF Started
<1>. QED
  BY <1>1, <1>3, <1>4 DEF Feed, Shown

\* applyStreamChanges shows what was to be shown.
LEMMA ApplySeen ==
  ASSUME TypeOK, StreamInv, ApplyStreamChanges
  PROVE  /\ Started' = Started /\ Feed' = Feed /\ Shown' = Feed
         /\ \A s \in Started : Log(s)' = Log(s)
<1>1. /\ UNCHANGED <<streams, connected, activeStreams, toInitialize, workerPc>>
      /\ \A s \in StreamIds : streamChanges'[s] = << >>
      /\ \A s \in connected : s \in StreamIds => observed'[s] = Log(s)
  BY DEF ApplyStreamChanges, NoChanges, StreamInv, StreamPlaces, Log
<1>2. \A s : IsLoaded(s)' <=> IsLoaded(s)
  BY <1>1 DEF IsLoaded, IsNext
<1>3. Started' = Started
  BY <1>1, <1>2 DEF Started
<1>4. \A s \in connected : Log(s)' = Log(s)
  <2>1. \A s \in StreamIds : Log(s) \o << >> = Log(s)
    BY StreamsSeen, ConcatEmptySeq
  <2>2. \A s : Log(s)' = observed'[s] \o streamChanges'[s]
    BY DEF Log
  <2>. QED
    BY <1>1, <2>1, <2>2, StreamsSeen
<1>5. Feed' = Feed
  BY <1>3, <1>4, StreamsSeen DEF Feed
<1>6. ASSUME NEW s \in StreamIds
      PROVE  (IF s \in connected THEN Contents(observed'[s]) ELSE {})
               = IF s \in Started THEN Contents(Log(s)) ELSE {}
  <2>1. CASE s \in Started \/ s \notin connected
    BY <1>1, <2>1, StreamsSeen
  <2>2. CASE s \in connected /\ s \notin Started
    <3>1. Log(s) = << >>
      BY <2>2, StreamsSeen, ConcatEmptySeq DEF Untouched, Log
    <3>. QED
      BY <1>1, <2>2, <3>1, EmptyLog
  <2>. QED
    BY <2>1, <2>2
<1>7. Shown' = Feed
  BY <1>1, <1>6 DEF Shown, Feed
<1>. QED
  BY <1>3, <1>4, <1>5, <1>7, StreamsSeen

\* Activating new streams shows nothing yet.
LEMMA ActivateSeen ==
  ASSUME TypeOK, StreamInv, ActivateStreams
  PROVE  /\ Started' = Started /\ Feed' = Feed /\ Shown' = Shown
         /\ \A s : Log(s)' = Log(s)
<1>1. /\ UNCHANGED <<streams, connected, observed, streamChanges>>
      /\ toInitialize = {} /\ toInitialize' = uninitializedStreams
      /\ activeStreams' = activeStreams \cup uninitializedStreams
      /\ workerPc = "initialize" /\ workerPc' = "load"
      /\ uninitializedStreams \cap activeStreams = {}
  BY DEF ActivateStreams, StreamInv, StreamPlaces, clientVars
<1>2. \A s : IsLoaded(s)' <=> IsLoaded(s)
  BY <1>1 DEF IsLoaded
<1>3. \A s : Log(s)' = Log(s)
  BY <1>1 DEF Log
<1>4. Started' = Started
  BY <1>1, <1>2 DEF Started
<1>. QED
  BY <1>1, <1>3, <1>4 DEF Feed, Shown

\* Loading a stream shows the items of the storage, if its handle is still there.
LEMMA LoadSeen ==
  ASSUME TypeOK, WorkerState, StreamInv, NEW r \in StreamIds, LoadStream(r)
  PROVE  /\ r \in connected => /\ r \notin Started /\ Started' = Started \cup {r}
                               /\ Feed' = [Feed EXCEPT ![r] = Loaded(savepoint, streams[r])]
                               /\ Contents(Log(r)') = Loaded(savepoint, streams[r])
         /\ r \notin connected => Started' = Started /\ Feed' = Feed
         /\ Shown' = Shown
         /\ \A s \in Started : s # r /\ Log(s)' = Log(s)
<1>1. /\ UNCHANGED <<streams, connected, observed, activeStreams, toInitialize>>
      /\ workerPc = "load" /\ workerPc' = "announce" /\ storage = savepoint
      /\ streamChanges' = [streamChanges EXCEPT ![r] = @ \o InitialChanges(storage, streams[r])]
      /\ r \in toInitialize /\ IsNext(r) /\ IsNext(r)'
  BY DEF LoadStream, WorkerState, IsNext, clientVars
<1>2. \A s \in StreamIds : s # r => streamChanges'[s] = streamChanges[s] /\ Log(s)' = Log(s)
  BY <1>1 DEF TypeOK, Log
<1>3. \A s \in StreamIds : s # r => (IsLoaded(s)' <=> IsLoaded(s))
  <2>1. \A s \in StreamIds : s # r /\ s \in toInitialize => ~IsNext(s)'
    BY <1>1 DEF IsNext, StreamIds
  <2>. QED
    BY <1>1, <2>1 DEF IsLoaded
<1>4. ~IsLoaded(r)
  BY <1>1 DEF IsLoaded
<1>5. Shown' = Shown
  BY <1>1 DEF Shown
<1>6. CASE r \in connected
  <2>. DEFINE initial == InitialChanges(savepoint, streams[r])
  <2>1. IsLoaded(r)' /\ r \notin Started
    BY <1>1, <1>4, <1>6 DEF IsLoaded, StreamInv, StreamPlaces, Started
  <2>2. Started' = Started \cup {r}
    BY <1>1, <1>3, <1>6, <2>1, StreamsSeen DEF Started
  <2>3. streams[r] \in Endpoint /\ savepoint \in Database /\ Untouched(r)
    BY <1>6, <2>1, StreamsSeen DEF TypeOK
  <2>4. initial \in Seq(Change)
    BY <2>3, InitialChangesType
  <2>5. Log(r)' = initial
    <3>1. streamChanges'[r] = << >> \o initial
      BY <1>1, <2>3 DEF TypeOK, Untouched
    <3>2. << >> \o initial = initial
      BY <2>4, ConcatEmptySeq
    <3>. HIDE DEF initial
    <3>. QED
      BY <1>1, <2>3, <2>4, <3>1, <3>2, ConcatEmptySeq DEF Log, Untouched
  <2>6. Contents(initial) = Loaded(savepoint, streams[r])
    <3>. DEFINE c == Added(Loaded(savepoint, streams[r]))
    <3>1. c \in Change /\ c.kind = "added" /\ c.items = Loaded(savepoint, streams[r])
      BY <2>3, LoadedType DEF Added, Change
    <3>2. CASE initial = <<c>>
      <4>. HIDE DEF c
      <4>1. << >> \in Seq(Change) /\ << >> \o <<c>> = <<c>>
        BY <3>1
      <4>2. Contents(<< >> \o <<c>>) = ApplyChange(Contents(<< >>), c)
        <5>1. \A log \in Seq(Change) : Contents(log \o <<c>>) = ApplyChange(Contents(log), c)
          BY <3>1, OneMoreChange
        <5>. QED
          BY <4>1, <5>1
      <4>3. ApplyChange({}, c) = Loaded(savepoint, streams[r])
        BY <3>1 DEF ApplyChange
      <4>. QED
        BY <3>2, <4>1, <4>2, <4>3, EmptyLog
    <3>3. CASE initial # <<c>>
      <4>1. initial = << >> /\ Loaded(savepoint, streams[r]) = {}
        BY <3>3 DEF InitialChanges, Loaded
      <4>. QED
        BY <4>1, EmptyLog
    <3>. QED
      BY <3>2, <3>3
  <2>7. Contents(Log(r)') = Loaded(savepoint, streams[r])
    BY <2>5, <2>6
  <2>8. Feed' = [Feed EXCEPT ![r] = Loaded(savepoint, streams[r])]
    <3>1. Feed' = [s \in StreamIds |-> IF s \in Started' THEN Contents(Log(s)') ELSE {}]
      BY DEF Feed, Log, Contents, View
    <3>. QED
      BY <1>2, <2>2, <2>7, <3>1 DEF Feed
  <2>. QED
    BY <1>2, <1>5, <1>6, <2>1, <2>2, <2>7, <2>8, StreamsSeen
<1>7. CASE r \notin connected
  <2>1. Started' = Started
    BY <1>1, <1>3, <1>7, StreamsSeen DEF Started
  <2>2. Feed' = Feed
    BY <1>2, <1>7, <2>1, StreamsSeen DEF Feed
  <2>. QED
    BY <1>2, <1>5, <1>7, <2>1, <2>2, StreamsSeen
<1>. QED
  BY <1>6, <1>7

\* The announcement changes no item.
LEMMA AnnounceSeen ==
  ASSUME TypeOK, StreamInv, NEW r \in StreamIds, AnnounceInitialized(r)
  PROVE  /\ Started' = Started /\ Feed' = Feed /\ Shown' = Shown
         /\ \A s \in Started : Contents(Log(s)') = Contents(Log(s))
<1>1. /\ UNCHANGED <<streams, connected, observed, activeStreams>>
      /\ workerPc = "announce" /\ workerPc' = "load"
      /\ streamChanges' = [streamChanges EXCEPT ![r] = Append(@, Initialized)]
      /\ r \in toInitialize /\ IsNext(r) /\ toInitialize' = toInitialize \ {r}
  BY DEF AnnounceInitialized, IsNext, clientVars
<1>2. \A s \in StreamIds : IsLoaded(s)' <=> IsLoaded(s)
  <2>1. \A s \in StreamIds : s # r /\ s \in toInitialize => ~IsNext(s)
    BY <1>1 DEF IsNext, StreamIds
  <2>. QED
    BY <1>1, <2>1 DEF IsLoaded
<1>3. Started' = Started
  BY <1>1, <1>2, StreamsSeen DEF Started
<1>4. ASSUME NEW s \in StreamIds
      PROVE  Contents(Log(s)') = Contents(Log(s))
  <2>1. CASE s # r
    BY <1>1, <2>1 DEF TypeOK, Log
  <2>2. CASE s = r
    <3>1. /\ Initialized \in Change /\ Initialized.kind = "initialized"
          /\ observed[s] \in Seq(Change) /\ streamChanges[s] \in Seq(Change) /\ Log(s) \in Seq(Change)
          /\ <<Initialized>> \in Seq(Change)
      <4>1. Initialized \in Change /\ Initialized.kind = "initialized"
        BY DEF Initialized, Change
      <4>2. observed[s] \in Seq(Change) /\ streamChanges[s] \in Seq(Change) /\ Log(s) \in Seq(Change)
        BY StreamsSeen DEF TypeOK
      <4>. QED
        BY <4>1, <4>2
    <3>2. streamChanges'[s] = streamChanges[s] \o <<Initialized>>
      BY <1>1, <2>2, <3>1, AppendIsConcat DEF TypeOK
    <3>3. Log(s)' = Log(s) \o <<Initialized>>
      <4>1. observed[s] \o (streamChanges[s] \o <<Initialized>>)
              = (observed[s] \o streamChanges[s]) \o <<Initialized>>
        BY <3>1, ChangesAssociative
      <4>. QED
        BY <1>1, <3>2, <4>1 DEF Log
    <3>4. Contents(Log(s) \o <<Initialized>>) = ApplyChange(Contents(Log(s)), Initialized)
      BY <3>1, OneMoreChange
    <3>. QED
      BY <3>1, <3>3, <3>4 DEF ApplyChange
  <2>. QED
    BY <2>1, <2>2
<1>5. Feed' = Feed
  <2>1. Feed' = [s \in StreamIds |-> IF s \in Started' THEN Contents(Log(s)') ELSE {}]
    BY DEF Feed, Log, Contents, View
  <2>. QED
    BY <1>3, <1>4, <2>1 DEF Feed
<1>. QED
  BY <1>1, <1>3, <1>4, <1>5, StreamsSeen DEF Shown

\* Committing adds the changes of the transaction to those of the streams.
LEMMA CommitSeen ==
  ASSUME TypeOK, StreamInv, Commit
  PROVE  /\ Started' = Started /\ Shown' = Shown
         /\ \A s \in StreamIds : Log(s)' = Log(s) \o transactionChanges[s]
         /\ Feed' = [s \in StreamIds |->
                       IF s \in Started THEN Contents(Log(s) \o transactionChanges[s]) ELSE {}]
<1>1. /\ UNCHANGED <<streams, connected, observed, activeStreams, toInitialize>>
      /\ workerPc = "execute" /\ workerPc' = "resolve"
      /\ \A s \in StreamIds : streamChanges'[s] = streamChanges[s] \o transactionChanges[s]
  BY DEF Commit, clientVars
<1>2. \A s : IsLoaded(s)' <=> IsLoaded(s)
  BY <1>1 DEF IsLoaded, IsNext
<1>3. Started' = Started
  BY <1>1, <1>2 DEF Started
<1>4. ASSUME NEW s \in StreamIds
      PROVE  Log(s)' = Log(s) \o transactionChanges[s]
  <2>1. /\ observed[s] \in Seq(Change) /\ streamChanges[s] \in Seq(Change)
        /\ transactionChanges[s] \in Seq(Change)
    BY DEF TypeOK
  <2>2. observed[s] \o (streamChanges[s] \o transactionChanges[s])
          = (observed[s] \o streamChanges[s]) \o transactionChanges[s]
    BY <2>1, ChangesAssociative
  <2>. QED
    BY <1>1, <2>2 DEF Log
<1>5. Feed' = [s \in StreamIds |-> IF s \in Started' THEN Contents(Log(s)') ELSE {}]
  BY DEF Feed, Log, Contents, View
<1>. QED
  BY <1>1, <1>3, <1>4, <1>5 DEF Shown

-----------------------------------------------------------------------------
(* The invariant is preserved *)

\* What the steps outside of a transaction and those of the client leave as it is.
LEMMA MissesStay ==
  ASSUME NEW s \in StreamIds, StreamMisses(s),
         s \in Started' => /\ s \in Started /\ Log(s)' = Log(s) /\ streams'[s] = streams[s]
                           /\ transactionChanges'[s] = transactionChanges[s],
         UNCHANGED savepoint,
         workerPc' = "execute" => workerPc = "execute" /\ UNCHANGED <<storage, results, newTasks>>
  PROVE  StreamMisses(s)'
<1>1. CASE s \in Started'
  <2>1. /\ s \in connected /\ IsLoaded(s)
        /\ Log(s)' = Log(s) /\ streams'[s] = streams[s] /\ transactionChanges'[s] = transactionChanges[s]
    BY <1>1 DEF Started
  <2>2. MissedWereUpdated(Contents(Log(s)), savepoint, streams[s])
    BY <2>1 DEF StreamMisses
  <2>3. CASE workerPc' = "execute"
    BY <2>1, <2>3 DEF StreamMisses
  <2>4. CASE workerPc' # "execute"
    BY <2>1, <2>2, <2>4 DEF StreamMisses
  <2>. QED
    BY <2>3, <2>4
<1>2. CASE s \notin Started'
  BY <1>2 DEF StreamMisses, Started
<1>. QED
  BY <1>1, <1>2

\* A stream that was just loaded misses nothing.
LEMMA LoadedMissesNothing ==
  ASSUME NEW db \in Database, NEW e \in Endpoint
  PROVE  MissedWereUpdated(Loaded(db, e), db, e)
<1>1. ASSUME e.type \in Tables, NEW id \in Unseen(Loaded(db, e), db, e), IsLoadable(db, e.type, id)
      PROVE  FALSE
  <2>1. id \in DOMAIN db[e.type] /\ Concerns(e, e.type, id) /\ id \notin Ids(Loaded(db, e))
    BY <1>1 DEF Unseen
  <2>2. ItemAt(db, e.type, id) \in Loaded(db, e)
    BY <1>1, <2>1, LoadedRows DEF IsLoadable
  <2>3. ItemAt(db, e.type, id).id = id
    BY DEF ItemAt
  <2>. QED
    BY <2>1, <2>2, <2>3 DEF Ids
<1>. QED
  BY <1>1 DEF MissedWereUpdated

\* The steps which neither load, begin, execute, commit nor answer.
LEMMA OtherStepsMiss ==
  ASSUME TypeOK, StreamInv, StoreInv,
         \/ \E batch \in Batches : QueueOperations(batch)
         \/ \E e \in Endpoints : CreateStream(e)
         \/ \E r \in StreamIds : ResetHandle(r)
         \/ Notify \/ ApplyStreamChanges \/ Stop \/ Join \/ Loop \/ TakeTasks \/ SpuriousWakeup
         \/ ActivateStreams \/ StreamsInitialized \/ TasksDone \/ Rollback \/ UNCHANGED vars
  PROVE  \A s \in StreamIds : StreamMisses(s)'
<1>. USE DEF taskVars, clientVars
<1>. SUFFICES ASSUME NEW s \in StreamIds PROVE StreamMisses(s)'
  OBVIOUS
<1>1. /\ UNCHANGED <<savepoint, transactionChanges>>
      /\ workerPc' = "execute" => workerPc = "execute" /\ UNCHANGED <<storage, results, newTasks>>
  BY DEF QueueOperations, CreateStream, ResetHandle, Notify, Woken, ApplyStreamChanges, Stop, Join, Loop,
         TakeTasks, SpuriousWakeup, ActivateStreams, StreamsInitialized, TasksDone, Rollback, vars
<1>2. StreamMisses(s)
  BY DEF StoreInv
<1>3. s \in Started' => s \in Started /\ Log(s)' = Log(s) /\ streams'[s] = streams[s]
  <2>1. ASSUME NEW e \in Endpoints, CreateStream(e) PROVE <1>3!1 => <1>3!2
    BY <2>1, CreateStreamSeen
  <2>2. ASSUME NEW r \in StreamIds, ResetHandle(r) PROVE <1>3!1 => <1>3!2
    BY <2>2, ResetHandleSeen DEF ResetHandle
  <2>3. CASE ApplyStreamChanges
    BY <2>3, ApplySeen DEF ApplyStreamChanges
  <2>4. CASE ActivateStreams
    BY <2>4, ActivateSeen DEF ActivateStreams
  <2>5. CASE \/ \E batch \in Batches : QueueOperations(batch)
             \/ Notify \/ Stop \/ Join \/ Loop \/ TakeTasks \/ SpuriousWakeup
             \/ StreamsInitialized \/ TasksDone \/ Rollback \/ UNCHANGED vars
    <3>1. /\ UNCHANGED <<streams, connected, activeStreams, toInitialize, observed, streamChanges>>
          /\ workerPc' = workerPc \/ "announce" \notin {workerPc, workerPc'}
      BY <2>5 DEF QueueOperations, Notify, Woken, Stop, Join, Loop, TakeTasks, SpuriousWakeup,
                  StreamsInitialized, TasksDone, Rollback, vars
    <3>. QED
      BY <3>1, QuietStreams
  <2>. QED
    BY <2>1, <2>2, <2>3, <2>4, <2>5
<1>. QED
  BY <1>1, <1>2, <1>3, MissesStay

\* The worker's other steps.
LEMMA WorkerStepsMiss ==
  ASSUME TypeOK, WorkerState, StreamInv, StoreInv,
         \/ \E r \in StreamIds : LoadStream(r) \/ AnnounceInitialized(r)
         \/ BeginTransaction \/ ExecuteOperation \/ Commit \/ Resolve
  PROVE  \A s \in StreamIds : StreamMisses(s)'
<1>. USE DEF taskVars, clientVars
<1>. SUFFICES ASSUME NEW s \in StreamIds PROVE StreamMisses(s)'
  OBVIOUS
<1>0. StreamMisses(s) /\ Log(s) \in Seq(Change) /\ Log(s) \o << >> = Log(s)
  BY StreamsSeen, ConcatEmptySeq DEF StoreInv
<1>1. ASSUME NEW r \in StreamIds, LoadStream(r) PROVE StreamMisses(s)'
  <2>1. workerPc' = "announce" /\ UNCHANGED <<savepoint, transactionChanges, streams>>
    BY <1>1 DEF LoadStream
  <2>2. CASE s = r /\ r \in connected
    <3>1. Contents(Log(s)') = Loaded(savepoint, streams[s])
      BY <1>1, <2>2, LoadSeen
    <3>2. streams[s] \in Endpoint /\ savepoint \in Database
      BY <2>2, StreamsSeen DEF TypeOK
    <3>3. MissedWereUpdated(Contents(Log(s)'), savepoint, streams[s])
      BY <3>1, <3>2, LoadedMissesNothing
    <3>. QED
      BY <2>1, <3>3 DEF StreamMisses
  <2>3. CASE ~(s = r /\ r \in connected)
    <3>1. s \in Started' => s \in Started /\ Log(s)' = Log(s)
      BY <1>1, <2>3, LoadSeen
    <3>. QED
      BY <1>0, <2>1, <3>1, MissesStay
  <2>. QED
    BY <2>2, <2>3
<1>2. ASSUME NEW r \in StreamIds, AnnounceInitialized(r) PROVE StreamMisses(s)'
  <2>1. workerPc' = "load" /\ UNCHANGED <<savepoint, streams>>
    BY <1>2 DEF AnnounceInitialized
  <2>2. Started' = Started /\ \A x \in Started : Contents(Log(x)') = Contents(Log(x))
    BY <1>2, AnnounceSeen
  <2>3. s \in Started' => MissedWereUpdated(Contents(Log(s)'), savepoint, streams[s])
    BY <1>0, <2>2 DEF StreamMisses, Started
  <2>. QED
    BY <2>1, <2>3 DEF StreamMisses, Started
<1>3. CASE BeginTransaction
  <2>1. /\ UNCHANGED <<streams, connected, activeStreams, toInitialize, observed, streamChanges,
                       transactionChanges, storage, savepoint, results, newTasks>>
        /\ workerPc = "task" /\ workerPc' = "execute"
        /\ storage = savepoint /\ transactionChanges[s] = << >>
    BY <1>3 DEF BeginTransaction, WorkerState, StreamInv, TransactionStart, NoChanges
  <2>2. Started' = Started /\ Log(s)' = Log(s)
    BY <2>1, QuietStreams
  <2>3. CASE s \in Started
    <3>1. MissedWereUpdated(Contents(Log(s)), savepoint, streams[s])
      BY <1>0, <2>3 DEF StreamMisses, Started
    <3>2. \A deleted : GoneWereDeleted(Contents(Log(s)), Contents(Log(s)), savepoint, streams[s], deleted)
      BY DEF GoneWereDeleted, Unseen
    <3>3. Log(s)' \o transactionChanges'[s] = Log(s)
      BY <1>0, <2>1, <2>2
    <3>. QED
      BY <2>1, <2>2, <3>1, <3>2, <3>3 DEF StreamMisses
  <2>4. CASE s \notin Started
    BY <2>2, <2>4 DEF StreamMisses, Started
  <2>. QED
    BY <2>3, <2>4
<1>4. CASE ExecuteOperation
  <2>. DEFINE batch == Head(newTasks).operations
              n == Len(results) + 1
              op == batch[n]
              log == Log(s) \o transactionChanges[s]
              changes == ChangesFor(storage, op, streams[s])
              before == DeletedBy(batch, Len(results))
              after == DeletedBy(batch, n)
  <2>1. /\ UNCHANGED <<streams, connected, observed, streamChanges, savepoint, activeStreams,
                       toInitialize, newTasks, workerPc>>
        /\ workerPc = "execute" /\ ~Failed(results) /\ Len(results) < Len(batch)
        /\ storage' = Effect(storage, op)
        /\ transactionChanges'[s] = IF s \in activeStreams THEN transactionChanges[s] \o changes
                                                          ELSE transactionChanges[s]
        /\ results' = Append(results, IF Succeeds(storage, op) THEN "Successful" ELSE "Error")
    BY <1>4 DEF ExecuteOperation, ForeachStream
  <2>2. Started' = Started /\ Log(s)' = Log(s)
    BY <2>1, QuietStreams
  <2>3. CASE s \in Started
    <3>1. op \in Operation
      BY <2>1, NextOperation DEF StreamInv
    <3>2. s \in activeStreams /\ streams[s] \in Endpoint /\ s \in connected /\ IsLoaded(s)
      BY <2>3, StreamsSeen DEF Started, IsLoaded
    <3>3. storage \in Database /\ IsStored(storage)
      BY DEF TypeOK, StoreInv
    <3>4. changes \in Seq(Change) /\ transactionChanges[s] \in Seq(Change) /\ log \in Seq(Change)
      BY <1>0, <3>1, <3>2, <3>3, ChangesForType, ConcatProperties DEF TypeOK
    <3>5. /\ MissedWereUpdated(Contents(Log(s)), savepoint, streams[s])
          /\ MissedWereUpdated(Contents(log), storage, streams[s])
          /\ GoneWereDeleted(Contents(Log(s)), Contents(log), storage, streams[s], before)
      BY <1>0, <2>1, <3>2 DEF StreamMisses
    <3>6. Contents(log) \subseteq Item
      BY <2>1, <3>2 DEF StreamInv, StreamsFollow, Follows, Shows
    <3>7. Len(results) \in Nat /\ Len(results') = n
      BY <2>1, AppendProperties, LenProperties DEF TypeOK, Status
    <3>8. before \subseteq after /\ (op.op = "Delete" => op.id \in after)
      BY <3>7 DEF DeletedBy
    <3>9. /\ MissedWereUpdated(Contents(log \o changes), storage', streams[s])
          /\ GoneWereDeleted(Contents(Log(s)), Contents(log \o changes), storage', streams[s], after)
      <4>. HIDE DEF op, log, before, after
      <4>. QED
        BY <2>1, <3>1, <3>2, <3>3, <3>4, <3>5, <3>6, <3>8, OperationMisses
    <3>10. Log(s)' \o transactionChanges'[s] = log \o changes
      <4>1. Log(s) \o (transactionChanges[s] \o changes) = (Log(s) \o transactionChanges[s]) \o changes
        BY <1>0, <3>4, ChangesAssociative
      <4>. QED
        BY <2>1, <2>2, <3>2, <4>1
    <3>11. DeletedBy(Head(newTasks').operations, Len(results')) = after
      BY <2>1, <3>7
    <3>. HIDE DEF log, changes, after
    <3>. QED
      BY <2>1, <2>2, <3>5, <3>9, <3>10, <3>11 DEF StreamMisses
  <2>4. CASE s \notin Started
    BY <2>2, <2>4 DEF StreamMisses, Started
  <2>. QED
    BY <2>3, <2>4
<1>5. CASE Commit
  <2>1. /\ workerPc = "execute" /\ ~Failed(results) /\ workerPc' = "resolve" /\ savepoint' = storage
        /\ UNCHANGED streams
    BY <1>5 DEF Commit
  <2>2. Started' = Started /\ Log(s)' = Log(s) \o transactionChanges[s]
    BY <1>5, CommitSeen
  <2>3. s \in Started => MissedWereUpdated(Contents(Log(s) \o transactionChanges[s]), storage, streams[s])
    BY <1>0, <2>1 DEF StreamMisses, Started
  <2>. QED
    BY <2>1, <2>2, <2>3 DEF StreamMisses, Started
<1>6. CASE Resolve
  <2>1. /\ UNCHANGED <<streams, connected, activeStreams, toInitialize, observed, streamChanges, savepoint>>
        /\ workerPc = "resolve" /\ workerPc' = "task"
    BY <1>6 DEF Resolve
  <2>2. Started' = Started /\ Log(s)' = Log(s)
    BY <2>1, QuietStreams
  <2>. QED
    BY <1>0, <2>1, <2>2 DEF StreamMisses, Started
<1>. QED
  BY <1>1, <1>2, <1>3, <1>4, <1>5, <1>6

\* Whatever executes stores rows, and a transaction begins and ends with rows that are stored.
LEMMA NextStored ==
  ASSUME TypeOK, WorkerState, StreamInv, IsStored(storage), IsStored(savepoint), [Next]_vars
  PROVE  IsStored(storage)' /\ IsStored(savepoint)'
<1>. USE DEF taskVars, clientVars
<1>1. CASE ExecuteOperation
  <2>. DEFINE op == Head(newTasks).operations[Len(results) + 1]
  <2>1. /\ workerPc = "execute" /\ Len(results) < Len(Head(newTasks).operations)
        /\ storage' = Effect(storage, op) /\ savepoint' = savepoint
    BY <1>1 DEF ExecuteOperation
  <2>2. op \in Operation
    BY <2>1, NextOperation DEF StreamInv
  <2>3. IsStored(Effect(storage, op))
    BY <2>2, StoredStays DEF TypeOK
  <2>. QED
    BY <2>1, <2>3 DEF IsStored
<1>2. CASE Commit
  BY <1>2 DEF Commit, IsStored
<1>3. CASE Rollback
  BY <1>3 DEF Rollback, IsStored
<1>4. CASE ~ExecuteOperation /\ ~Commit /\ ~Rollback
  <2>1. UNCHANGED <<storage, savepoint>>
    BY <1>4 DEF Next, Client, Worker, Terminated, QueueOperations, CreateStream, ResetHandle, Notify,
                ApplyStreamChanges, Stop, Join, Loop, TakeTasks, SpuriousWakeup, ActivateStreams, LoadStream,
                AnnounceInitialized, StreamsInitialized, BeginTransaction, Resolve, TasksDone, vars
  <2>. QED
    BY <2>1 DEF IsStored
<1>. QED
  BY <1>1, <1>2, <1>3, <1>4

\* The transaction goes on as the store runs its batch.
LEMMA NextTransactionRuns ==
  ASSUME TypeOK, WorkerState, StreamInv, TransactionRuns, [Next]_vars
  PROVE  TransactionRuns'
<1>. USE DEF taskVars, clientVars
<1>. DEFINE batch == Head(newTasks).operations
<1>0. newTasks # << >> => batch \in Seq(Operation) /\ Len(batch) \in Nat
  <2>1. newTasks # << >> => Head(newTasks) \in QueuedOperation
    BY HeadAndRest, ElementOfSeq, LenProperties DEF TypeOK
  <2>. QED
    BY <2>1, LenProperties DEF QueuedOperation
<1>1. CASE BeginTransaction
  <2>1. /\ workerPc = "task" /\ newTasks # << >>
        /\ UNCHANGED <<storage, savepoint, results, newTasks>>
        /\ results = << >> /\ storage = savepoint
    BY <1>1 DEF BeginTransaction, WorkerState, StreamInv, TransactionStart
  <2>2. Len(results) = 0 /\ Len(results) <= Len(batch)
    BY <1>0, <2>1, EmptySeq
  <2>3. Store!Runs(savepoint, batch)[0] = [db |-> savepoint, results |-> << >>]
    BY <1>0, <2>1, RunsSteps
  <2>4. Store!Runs(savepoint, batch)[Len(results)] = [db |-> storage, results |-> results]
    BY <2>1, <2>2, <2>3
  <2>. QED
    BY <2>1, <2>2, <2>4 DEF TransactionRuns
<1>2. CASE ExecuteOperation
  <2>. DEFINE n == Len(results) + 1
              op == batch[n]
  <2>1. /\ workerPc = "execute" /\ ~Failed(results) /\ Len(results) < Len(batch)
        /\ storage' = Effect(storage, op) /\ savepoint' = savepoint /\ newTasks' = newTasks
        /\ results' = Append(results, IF Succeeds(storage, op) THEN "Successful" ELSE "Error")
    BY <1>2 DEF ExecuteOperation
  <2>2. newTasks # << >> /\ op \in Operation
    BY <2>1, NextOperation DEF StreamInv, WorkerState
  <2>3. Len(results) \in Nat /\ Len(results') = n
    BY <2>1, AppendProperties, LenProperties DEF TypeOK, Status
  <2>4. n \in 1 .. Len(batch) /\ n - 1 = Len(results)
    BY <1>0, <2>1, <2>2, <2>3
  <2>5. Store!Runs(savepoint, batch)[n] = Store!AfterOperation([db |-> storage, results |-> results], op)
    <3>1. Store!Runs(savepoint, batch)[n] = Store!AfterOperation(Store!Runs(savepoint, batch)[n - 1], op)
      <4>. HIDE DEF batch
      <4>1. \A k \in 1 .. Len(batch) :
              Store!Runs(savepoint, batch)[k]
                = Store!AfterOperation(Store!Runs(savepoint, batch)[k - 1], batch[k])
        BY <1>0, <2>2, RunsSteps
      <4>. HIDE DEF n
      <4>. QED
        BY <2>4, <4>1
    <3>2. Store!Runs(savepoint, batch)[n - 1] = [db |-> storage, results |-> results]
      BY <2>1, <2>4 DEF TransactionRuns
    <3>. QED
      BY <3>1, <3>2
  <2>6. Store!AfterOperation([db |-> storage, results |-> results], op)
          = [db |-> storage', results |-> results']
    <3>. DEFINE run == [db |-> storage, results |-> results]
    <3>1. run.db = storage /\ run.results = results
      OBVIOUS
    <3>. HIDE DEF run, op
    <3>2. Store!AfterOperation(run, op) =
            IF Failed(run.results) THEN run
            ELSE [db      |-> Effect(run.db, op),
                  results |-> Append(run.results, IF Succeeds(run.db, op) THEN "Successful" ELSE "Error")]
      BY <2>2, StoreOperation
    <3>3. Store!AfterOperation(run, op) = [db |-> storage', results |-> results']
      BY <2>1, <3>1, <3>2 DEF op
    <3>. QED
      BY <3>3 DEF run
  <2>7. TransactionRuns' <=> (n <= Len(batch) /\ Store!Runs(savepoint, batch)[n] = [db |-> storage', results |-> results'])
    <3>. HIDE DEF n
    <3>1. workerPc' = "execute"
      BY <1>2 DEF ExecuteOperation
    <3>. QED
      BY <2>1, <2>3, <3>1 DEF TransactionRuns
  <2>. QED
    BY <2>4, <2>5, <2>6, <2>7
<1>3. CASE ~BeginTransaction /\ ~ExecuteOperation
  <2>1. workerPc' = "execute" => workerPc = "execute" /\ UNCHANGED <<storage, savepoint, results, newTasks>>
    BY <1>3 DEF Next, Client, Worker, Terminated, QueueOperations, CreateStream, ResetHandle, Notify, Woken,
                ApplyStreamChanges, Stop, Join, Loop, TakeTasks, SpuriousWakeup, ActivateStreams, LoadStream,
                AnnounceInitialized, StreamsInitialized, Commit, Rollback, Resolve, TasksDone, vars
  <2>. QED
    BY <2>1 DEF TransactionRuns
<1>. QED
  BY <1>1, <1>2, <1>3

\* At first nothing is stored, and no stream follows.
LEMMA InitStoreInv == Init => StoreInv
<1>. SUFFICES ASSUME Init PROVE StoreInv
  OBVIOUS
<1>1. IsStored(storage) /\ IsStored(savepoint)
  <2>1. \A t \in Tables : DOMAIN EmptyDatabase[t] = {}
    BY EmptySeq DEF EmptyDatabase
  <2>. QED
    BY <2>1 DEF Init, IsStored
<1>. QED
  BY <1>1 DEF Init, StoreInv, TransactionRuns, StreamMisses

\* What the store promises of executed batches holds of the worker's transaction at each of its
\* steps: it is the run of its batch as far as it is, and what it has put aside for the streams
\* hides nothing from them but deleted items which were then updated.
THEOREM StoreInvariant == Spec => []StoreInv
<1>1. TypeOK /\ WorkerState /\ StreamInv /\ StoreInv /\ [Next]_vars => StoreInv'
  <2>. SUFFICES ASSUME TypeOK, WorkerState, StreamInv, StoreInv, [Next]_vars PROVE StoreInv'
    OBVIOUS
  <2>1. IsStored(storage)' /\ IsStored(savepoint)' /\ TransactionRuns'
    BY NextStored, NextTransactionRuns DEF StoreInv
  <2>2. \A s \in StreamIds : StreamMisses(s)'
    BY OtherStepsMiss, WorkerStepsMiss DEF Next, Client, Worker, Terminated
  <2>. QED
    BY <2>1, <2>2 DEF StoreInv
<1>. QED
  BY InitStoreInv, <1>1, TypeCorrect, StreamInvariant, PTL DEF Spec

-----------------------------------------------------------------------------
(* The requests, as the store sees them *)

\* A longer sequence, as a function.
LEMMA AppendedAt ==
  ASSUME NEW S, NEW seq \in Seq(S), NEW e \in S
  PROVE  Append(seq, e) = [i \in 1 .. Len(seq) + 1 |-> IF i = Len(seq) + 1 THEN e ELSE seq[i]]
<1>. DEFINE app == Append(seq, e)
<1>1. /\ app \in Seq(S) /\ Len(app) = Len(seq) + 1 /\ Len(seq) \in Nat
      /\ \A i \in 1 .. Len(seq) : app[i] = seq[i]
      /\ app[Len(seq) + 1] = e
  BY AppendProperties, LenProperties
<1>2. app = [i \in 1 .. Len(seq) + 1 |-> app[i]]
  <2>. HIDE DEF app
  <2>. QED
    BY <1>1, LenProperties
<1>. QED
  BY <1>1, <1>2

\* Batches which are answered in order are counted by the last of them.
LEMMA CountAnswered ==
  ASSUME NEW fs \in Seq(Future), NEW n \in 0 .. Len(fs), \A f \in DOMAIN fs : fs[f].ready <=> f <= n
  PROVE  Cardinality({f \in DOMAIN fs : fs[f].ready}) = n
<1>1. {f \in DOMAIN fs : fs[f].ready} = 1 .. n
  BY LenProperties
<1>2. Cardinality(1 .. n) = n
  BY FS_Interval
<1>. QED
  BY <1>1, <1>2

\* The batches come in the order answered, taken over, queued.
LEMMA BatchesCounted ==
  ASSUME TypeOK, BatchesAccountedFor
  PROVE  /\ Answered = Len(futures) - Len(newTasks) - Len(operationsQueue)
         /\ Answered \in 0 .. Len(futures) /\ DOMAIN futures = 1 .. Len(futures)
         /\ \A f \in DOMAIN futures : Resolved(f) <=> f <= Answered
         /\ newTasks # << >> => /\ Answered + 1 \in 1 .. Len(futures)
                                /\ Head(newTasks) = [operations |-> futures[Answered + 1].batch,
                                                     promise    |-> Answered + 1]
<1>. DEFINE n == Len(futures) - Len(newTasks) - Len(operationsQueue)
<1>1. /\ Len(futures) \in Nat /\ Len(newTasks) \in Nat /\ Len(operationsQueue) \in Nat
      /\ DOMAIN futures = 1 .. Len(futures) /\ DOMAIN newTasks = 1 .. Len(newTasks)
  BY LenProperties DEF TypeOK
<1>2. /\ n >= 0
      /\ \A f \in DOMAIN futures : Resolved(f) <=> f <= n
      /\ \A i \in DOMAIN newTasks :
           newTasks[i] = [operations |-> futures[n + i].batch, promise |-> n + i]
  BY DEF BatchesAccountedFor
<1>3. n \in 0 .. Len(futures)
  BY <1>1, <1>2
<1>4. newTasks # << >> => n + 1 <= Len(futures) /\ 1 \in DOMAIN newTasks /\ Head(newTasks) = newTasks[1]
  BY <1>1, <1>2, HeadAndRest DEF TypeOK
<1>5. Answered = n
  <2>. HIDE DEF n
  <2>. QED
    BY <1>2, <1>3, CountAnswered DEF TypeOK, Answered, Resolved
<1>. HIDE DEF n
<1>. QED
  BY <1>1, <1>2, <1>3, <1>4, <1>5 DEF n

\* Steps that answer no batch and do not end a transaction.
LEMMA QuietFutures ==
  ASSUME UNCHANGED futures,
         (workerPc' = workerPc /\ results' = results) \/ "resolve" \notin {workerPc, workerPc'}
  PROVE  Requests' = Requests /\ Answered' = Answered /\ Outcomes' = Outcomes
<1>1. Requests' = Requests
  BY DEF Requests
<1>2. Answered' = Answered
  BY DEF Answered, Resolved
<1>. QED
  BY <1>1, <1>2 DEF Outcomes

\* The results known so far: those of the answered batches and of the one to be answered next.
LEMMA OutcomesKnown ==
  ASSUME TypeOK, BatchesAccountedFor
  PROVE  LET known == [f \in 1 .. Answered |-> futures[f].value]
         IN  /\ known \in Seq(Seq(Status)) /\ Len(known) = Answered
             /\ workerPc # "resolve" => Outcomes = known
             /\ workerPc = "resolve" => Outcomes = Append(known, results)
<1>. DEFINE known == [f \in 1 .. Answered |-> futures[f].value]
<1>1. known \in Seq(Seq(Status)) /\ Len(known) = Answered
  <2>1. Answered \in Nat /\ \A f \in 1 .. Answered : futures[f] \in Future
    BY BatchesCounted, ElementOfSeq DEF TypeOK
  <2>2. \A f \in 1 .. Answered : futures[f].value \in Seq(Status)
    BY <2>1 DEF Future
  <2>. QED
    BY <2>1, <2>2
<1>2. known \o << >> = known /\ known \o <<results>> = Append(known, results)
  <2>. HIDE DEF known
  <2>. QED
    BY <1>1, ConcatEmptySeq, AppendIsConcat DEF TypeOK
<1>3. Outcomes = known \o (IF workerPc = "resolve" THEN <<results>> ELSE << >>)
  BY DEF Outcomes
<1>. HIDE DEF known
<1>4. workerPc # "resolve" => Outcomes = known
  BY <1>2, <1>3
<1>5. workerPc = "resolve" => Outcomes = Append(known, results)
  BY <1>2, <1>3
<1>. QED
  BY <1>1, <1>4, <1>5 DEF known

\* queueOperations adds a request.
LEMMA RequestSeen ==
  ASSUME TypeOK, BatchesAccountedFor, NEW batch \in Batches, QueueOperations(batch)
  PROVE  /\ Len(Requests) = Len(futures) /\ Requests' = Append(Requests, batch)
         /\ Answered' = Answered /\ Outcomes' = Outcomes
<1>. DEFINE future == [batch |-> batch, ready |-> FALSE, value |-> << >>]
            n == Len(futures) + 1
<1>1. future \in Future /\ future.batch = batch /\ ~future.ready
  BY BackendAssumption, EmptySeq DEF Future
<1>. HIDE DEF future
<1>2. /\ DOMAIN futures = 1 .. Len(futures) /\ Len(futures) \in Nat
      /\ DOMAIN futures' = 1 .. n /\ futures'[n] = future
      /\ \A f \in 1 .. Len(futures) : futures'[f] = futures[f]
      /\ UNCHANGED <<workerPc, results>>
  <2>1. futures' = Append(futures, future) /\ UNCHANGED <<workerPc, results>>
    BY DEF QueueOperations, taskVars, future
  <2>. QED
    BY <1>1, <2>1, AppendProperties, LenProperties DEF TypeOK
<1>3. Len(Requests) = Len(futures) /\ Requests' = Append(Requests, batch)
  <2>1. /\ Requests = [f \in 1 .. Len(futures) |-> futures[f].batch]
        /\ Requests' = [f \in 1 .. n |-> IF f = n THEN batch ELSE futures[f].batch]
    BY <1>1, <1>2 DEF Requests
  <2>2. Requests \in Seq(Seq(Operation)) /\ Len(Requests) = Len(futures) /\ batch \in Seq(Operation)
    <3>1. \A f \in 1 .. Len(futures) : futures[f] \in Future
      BY <1>2, ElementOfSeq DEF TypeOK
    <3>2. \A f \in 1 .. Len(futures) : futures[f].batch \in Seq(Operation)
      BY <3>1 DEF Future
    <3>. QED
      BY <1>2, <2>1, <3>2, BackendAssumption
  <2>3. Append(Requests, batch) = [f \in 1 .. n |-> IF f = n THEN batch ELSE Requests[f]]
    BY <2>2, AppendedAt
  <2>. QED
    BY <1>2, <2>1, <2>2, <2>3
<1>4. Answered' = Answered
  <2>1. {f \in DOMAIN futures' : futures'[f].ready} = {f \in DOMAIN futures : futures[f].ready}
    BY <1>1, <1>2
  <2>. QED
    BY <2>1 DEF Answered, Resolved
<1>5. Outcomes' = Outcomes
  <2>1. \A f \in 1 .. Answered : futures'[f] = futures[f]
    BY <1>2, BatchesCounted
  <2>. QED
    BY <1>2, <1>4, <2>1 DEF Outcomes
<1>. QED
  BY <1>3, <1>4, <1>5

\* The end of a transaction, either way, adds the results of the next request.
LEMMA EndSeen ==
  ASSUME TypeOK, WorkerState, BatchesAccountedFor, Commit \/ Rollback
  PROVE  /\ Requests' = Requests /\ Answered' = Answered /\ Outcomes' = Append(Outcomes, results)
         /\ Len(Outcomes) < Len(Requests)
         /\ Requests[Len(Outcomes) + 1] = Head(newTasks).operations
<1>1. /\ UNCHANGED <<futures, results>> /\ workerPc = "execute" /\ workerPc' = "resolve"
      /\ newTasks # << >>
  BY DEF Commit, Rollback, taskVars, WorkerState
<1>2. Requests' = Requests /\ Answered' = Answered
  BY <1>1 DEF Requests, Answered, Resolved
<1>. DEFINE known == [f \in 1 .. Answered |-> futures[f].value]
<1>3. known \in Seq(Seq(Status)) /\ Len(known) = Answered /\ Outcomes = known
  BY <1>1, OutcomesKnown
<1>4. Outcomes' = known \o <<results>>
  BY <1>1, <1>2 DEF Outcomes
<1>. HIDE DEF known
<1>5. Outcomes' = Append(Outcomes, results)
  BY <1>3, <1>4, AppendIsConcat DEF TypeOK
<1>6. Requests = [f \in 1 .. Len(futures) |-> futures[f].batch] /\ Len(futures) \in Nat
  BY BatchesCounted, LenProperties DEF Requests, TypeOK
<1>7. Len(Requests) = Len(futures)
  BY <1>6
<1>. QED
  <2>1. /\ Answered \in 0 .. Len(futures) /\ Answered + 1 \in 1 .. Len(futures)
        /\ Head(newTasks).operations = futures[Answered + 1].batch
    BY <1>1, BatchesCounted
  <2>2. Len(Outcomes) = Answered
    BY <1>3
  <2>3. Requests[Answered + 1] = futures[Answered + 1].batch
    BY <1>6, <2>1
  <2>. QED
    BY <1>2, <1>5, <1>6, <1>7, <2>1, <2>2, <2>3

\* Resolving a promise answers the request that was executed last.
LEMMA ResolveSeen ==
  ASSUME TypeOK, WorkerState, BatchesAccountedFor, TypeOK', BatchesAccountedFor', Resolve
  PROVE  /\ Requests' = Requests /\ Outcomes' = Outcomes
         /\ Answered' = Answered + 1 /\ Answered < Len(Outcomes)
<1>. DEFINE n == Answered + 1
            future == [batch |-> futures[n].batch, ready |-> TRUE, value |-> results]
<1>1. /\ workerPc = "resolve" /\ workerPc' = "task" /\ newTasks # << >>
      /\ newTasks' = Tail(newTasks) /\ operationsQueue' = operationsQueue
      /\ futures' = [futures EXCEPT ![Head(newTasks).promise] =
                                  [batch |-> @.batch, ready |-> TRUE, value |-> results]]
  BY DEF Resolve, WorkerState
<1>2. /\ Head(newTasks).promise = n /\ n \in DOMAIN futures /\ DOMAIN futures = 1 .. Len(futures)
      /\ Answered \in Nat
  BY <1>1, BatchesCounted
<1>3. futures' = [futures EXCEPT ![n] = future]
  BY <1>1, <1>2
<1>4. /\ DOMAIN futures' = DOMAIN futures
      /\ \A f \in DOMAIN futures : f # n => futures'[f] = futures[f]
      /\ futures'[n].batch = futures[n].batch /\ futures'[n].value = results
      /\ \A f \in DOMAIN futures : futures'[f].ready <=> (f = n \/ futures[f].ready)
  BY <1>2, <1>3
<1>5. Requests' = Requests
  BY <1>4 DEF Requests
<1>6. Answered' = n
  <2>1. \A f \in DOMAIN futures' : futures'[f].ready <=> f <= n
    BY <1>2, <1>4, BatchesCounted DEF Resolved
  <2>2. futures' \in Seq(Future) /\ n \in 0 .. Len(futures')
    BY <1>2, <1>4, LenProperties DEF TypeOK
  <2>3. Cardinality({f \in DOMAIN futures' : futures'[f].ready}) = n
    <3>. HIDE DEF n
    <3>. QED
      BY <2>1, <2>2, CountAnswered
  <2>. QED
    BY <2>3 DEF Answered, Resolved
<1>. DEFINE known == [f \in 1 .. Answered |-> futures[f].value]
            later == [f \in 1 .. n |-> futures'[f].value]
<1>7. known \in Seq(Seq(Status)) /\ Len(known) = Answered /\ Outcomes = Append(known, results)
  BY <1>1, OutcomesKnown
<1>8. Append(known, results) = [f \in 1 .. n |-> IF f = n THEN results ELSE known[f]]
  <2>. HIDE DEF known
  <2>. QED
    BY <1>7, AppendedAt, SMTT(20) DEF TypeOK
<1>9. later = Append(known, results)
  BY <1>2, <1>4, <1>8
<1>10. later \in Seq(Seq(Status)) /\ later \o << >> = later
  <2>1. later \in Seq(Seq(Status))
    <3>. HIDE DEF known, later
    <3>. QED
      BY <1>7, <1>9, AppendProperties DEF TypeOK
  <2>. HIDE DEF later
  <2>. QED
    BY <2>1, ConcatEmptySeq
<1>11. Outcomes' = later \o << >>
  BY <1>1, <1>6 DEF Outcomes
<1>12. Answered < Len(Outcomes)
  <2>. HIDE DEF known
  <2>. QED
    BY <1>2, <1>7, AppendProperties DEF TypeOK
<1>. HIDE DEF known, later
<1>. QED
  BY <1>5, <1>6, <1>7, <1>9, <1>10, <1>11, <1>12

-----------------------------------------------------------------------------
(* Each step is a step of the store *)

\* The store starts as the backend does.
LEMMA InitIsStore == TypeOK /\ BatchesAccountedFor /\ Init => Store!Init
<1>. SUFFICES ASSUME TypeOK, BatchesAccountedFor, Init PROVE Store!Init
  OBVIOUS
<1>1. savepoint = Store!EmptyDatabase
  BY DEF Init, EmptyDatabase, Store!EmptyDatabase, Tables, Store!Tables
<1>2. Requests = << >>
  BY DEF Init, Requests
<1>3. Answered = 0
  <2>1. Len(futures) = 0 /\ Len(newTasks) = 0 /\ Len(operationsQueue) = 0
    BY DEF Init
  <2>. QED
    BY <2>1, BatchesCounted
<1>4. Outcomes = << >>
  <2>. DEFINE known == [f \in 1 .. Answered |-> futures[f].value]
  <2>1. known \in Seq(Seq(Status)) /\ Len(known) = 0 /\ Outcomes = known
    BY <1>3, OutcomesKnown DEF Init
  <2>. QED
    BY <2>1, EmptySeq
<1>5. Started = {} /\ connected = {} /\ streams = << >>
  BY DEF Init, Started
<1>6. Feed = Store!Nothing /\ Shown = Store!Nothing
  BY <1>5 DEF Feed, Shown, Store!Nothing, Store!StreamIds, StreamIds
<1>. QED
  BY <1>1, <1>2, <1>3, <1>4, <1>5, <1>6 DEF Store!Init

\* The end of a transaction executes a request.
LEMMA EndIsExecute ==
  ASSUME TypeOK, WorkerState, BatchesAccountedFor, StreamInv, StoreInv, Commit \/ Rollback
  PROVE  Store!Execute
<1>. DEFINE batch == Head(newTasks).operations
            run == Store!Run(savepoint, batch)
<1>1. /\ workerPc = "execute" /\ newTasks # << >> /\ Len(results) <= Len(batch)
      /\ Store!Runs(savepoint, batch)[Len(results)] = [db |-> storage, results |-> results]
      /\ UNCHANGED <<streams, connected, observed, activeStreams, toInitialize>>
  BY DEF Commit, Rollback, clientVars, WorkerState, StoreInv, TransactionRuns
<1>2. batch \in Seq(Operation) /\ Len(batch) \in Nat /\ Len(results) \in 0 .. Len(batch)
  <2>1. Head(newTasks) \in QueuedOperation
    BY <1>1, HeadAndRest, ElementOfSeq, LenProperties DEF TypeOK
  <2>2. batch \in Seq(Operation)
    BY <2>1 DEF QueuedOperation
  <2>. QED
    BY <1>1, <2>2, LenProperties DEF TypeOK
<1>3. run = [db |-> storage, results |-> results]
  <2>1. CASE Commit
    BY <1>1, <2>1 DEF Commit, Store!Run
  <2>2. CASE Rollback
    <3>1. Failed(Store!Runs(savepoint, batch)[Len(results)].results)
      BY <1>1, <2>2 DEF Rollback
    <3>. HIDE DEF batch
    <3>. QED
      BY <1>1, <1>2, <3>1, RunsEndAtFailure
  <2>. QED
    BY <2>1, <2>2
<1>4. /\ Requests' = Requests /\ Answered' = Answered /\ Outcomes' = Append(Outcomes, results)
      /\ Len(Outcomes) < Len(Requests) /\ Requests[Len(Outcomes) + 1] = batch
  BY EndSeen
<1>5. CASE Rollback
  <2>1. Failed(results) /\ Store!Failed(run.results) /\ savepoint' = savepoint
    BY <1>3, <1>5, SameFailed DEF Rollback
  <2>2. Started' = Started /\ Feed' = Feed /\ Shown' = Shown
    BY <1>1, <1>5, QuietStreams DEF Rollback
  <2>. HIDE DEF run, batch
  <2>. QED
    BY <1>1, <1>3, <1>4, <2>1, <2>2 DEF Store!Execute, run
<1>6. CASE Commit
  <2>1. ~Failed(results) /\ Len(results) = Len(batch) /\ savepoint' = storage
    BY <1>6 DEF Commit
  <2>2. ~Store!Failed(run.results) /\ run.db = storage /\ run.results = results
    BY <1>3, <2>1, SameFailed
  <2>3. /\ Started' = Started /\ Shown' = Shown
        /\ Feed' = [s \in StreamIds |->
                      IF s \in Started THEN Contents(Log(s) \o transactionChanges[s]) ELSE {}]
    BY <1>6, CommitSeen
  <2>4. ASSUME NEW s \in Started
        PROVE  Store!Follows(Feed'[s], Feed[s], storage, batch, streams[s])
    <3>. DEFINE view == Contents(Log(s) \o transactionChanges[s])
                deleted == DeletedBy(batch, Len(results))
    <3>1. s \in StreamIds /\ s \in connected /\ IsLoaded(s) /\ streams[s] \in Endpoint
      BY StreamsSeen DEF Started
    <3>2. Feed[s] = Contents(Log(s)) /\ Feed'[s] = view
      BY <2>3, <3>1 DEF Feed
    <3>3. /\ MissedWereUpdated(view, storage, streams[s])
          /\ GoneWereDeleted(Contents(Log(s)), view, storage, streams[s], deleted)
      BY <1>1, <2>1, <3>1 DEF StoreInv, StreamMisses
    <3>4. view \subseteq Item /\ \A i \in view : \E j \in Loaded(storage, streams[s]) : SameItem(i, j)
      BY <1>1, <2>1, <3>1 DEF StreamInv, StreamsFollow, Follows, Shows, ShowsNoStaleItem
    <3>5. \A id \in deleted : Store!Deletes(batch, id)
      BY <1>2, <2>1, LenProperties DEF DeletedBy, Store!Deletes
    <3>6. storage \in Database
      BY DEF TypeOK
    <3>. HIDE DEF view, deleted, batch
    <3>. QED
      BY <3>1, <3>2, <3>3, <3>4, <3>5, <3>6, ViewFollows
  <2>5. \A s \in StreamIds \ Started : Feed'[s] = Feed[s]
    BY <2>3 DEF Feed
  <2>6. Store!StreamIds = StreamIds
    BY DEF Store!StreamIds, StreamIds
  <2>. HIDE DEF run, batch
  <2>. QED
    BY <1>1, <1>4, <2>1, <2>2, <2>3, <2>4, <2>5, <2>6 DEF Store!Execute, run
<1>. QED
  BY <1>5, <1>6

\* Each step of either thread is a step of the store, or one which it does not see.
LEMMA StepIsStore ==
  ASSUME TypeOK, WorkerState, BatchesAccountedFor, StreamInv, StoreInv, TypeOK', BatchesAccountedFor',
         [Next]_vars
  PROVE  [Store!Next]_(Store!storeVars)
<1>. USE DEF taskVars, clientVars
<1>0. Store!StreamIds = StreamIds
  BY DEF Store!StreamIds, StreamIds
<1>1. ASSUME NEW batch \in Batches, QueueOperations(batch) PROVE Store!Request(batch)
  <2>1. /\ UNCHANGED <<savepoint, streams, connected, activeStreams, toInitialize, observed, streamChanges,
                       workerPc>>
        /\ Len(futures) < MaxTasks
    BY <1>1 DEF QueueOperations
  <2>. QED
    BY <1>1, <2>1, RequestSeen, QuietStreams DEF Store!Request
<1>2. ASSUME NEW e \in Endpoints, CreateStream(e) PROVE Store!OpenStream(e)
  <2>1. /\ UNCHANGED <<savepoint, futures, workerPc, results>>
        /\ Len(streams) < MaxStreams /\ streams' = Append(streams, e)
        /\ connected' = connected \cup {Len(streams) + 1}
    BY <1>2 DEF CreateStream
  <2>. QED
    BY <1>2, <2>1, CreateStreamSeen, QuietFutures DEF Store!OpenStream
<1>3. ASSUME NEW r \in StreamIds, ResetHandle(r) PROVE Store!CloseStream(r)
  <2>1. /\ UNCHANGED <<savepoint, futures, workerPc, results, streams>>
        /\ r \in connected /\ connected' = connected \ {r}
    BY <1>3 DEF ResetHandle
  <2>. QED
    BY <1>3, <2>1, ResetHandleSeen, QuietFutures DEF Store!CloseStream
<1>4. CASE ApplyStreamChanges
  <2>1. UNCHANGED <<savepoint, futures, workerPc, results, streams, connected>>
    BY <1>4 DEF ApplyStreamChanges
  <2>2. Store!Refresh
    BY <1>4, <2>1, ApplySeen, QuietFutures DEF Store!Refresh
  <2>. QED
    BY <2>2 DEF Store!Next
<1>5. CASE ActivateStreams
  <2>1. UNCHANGED <<savepoint, futures, results, streams, connected>> /\ "resolve" \notin {workerPc, workerPc'}
    BY <1>5 DEF ActivateStreams
  <2>. QED
    BY <1>5, <2>1, ActivateSeen, QuietFutures DEF Store!storeVars
<1>6. ASSUME NEW r \in StreamIds, LoadStream(r) PROVE Store!StartStream(r) \/ UNCHANGED Store!storeVars
  <2>1. UNCHANGED <<savepoint, futures, results, streams, connected>> /\ "resolve" \notin {workerPc, workerPc'}
    BY <1>6 DEF LoadStream
  <2>2. Requests' = Requests /\ Answered' = Answered /\ Outcomes' = Outcomes
    BY <2>1, QuietFutures
  <2>3. CASE r \in connected
    <3>1. Store!Loaded(savepoint, streams[r]) = Loaded(savepoint, streams[r])
      BY SameLoaded
    <3>. QED
      BY <1>6, <2>1, <2>2, <2>3, <3>1, LoadSeen DEF Store!StartStream
  <2>4. CASE r \notin connected
    BY <1>6, <2>1, <2>2, <2>4, LoadSeen DEF Store!storeVars
  <2>. QED
    BY <2>3, <2>4
<1>7. ASSUME NEW r \in StreamIds, AnnounceInitialized(r) PROVE UNCHANGED Store!storeVars
  <2>1. UNCHANGED <<savepoint, futures, results, streams, connected>> /\ "resolve" \notin {workerPc, workerPc'}
    BY <1>7 DEF AnnounceInitialized
  <2>. QED
    BY <1>7, <2>1, AnnounceSeen, QuietFutures DEF Store!storeVars
<1>8. CASE Commit \/ Rollback
  BY <1>8, EndIsExecute DEF Store!Next
<1>9. CASE Resolve
  <2>1. /\ UNCHANGED <<savepoint, streams, connected, activeStreams, toInitialize, observed, streamChanges>>
        /\ "announce" \notin {workerPc, workerPc'}
    BY <1>9 DEF Resolve
  <2>2. Store!Answer
    BY <1>9, <2>1, ResolveSeen, QuietStreams DEF Store!Answer
  <2>. QED
    BY <2>2 DEF Store!Next
<1>10. CASE \/ Notify \/ Stop \/ Join \/ Loop \/ TakeTasks \/ SpuriousWakeup \/ StreamsInitialized
            \/ BeginTransaction \/ ExecuteOperation \/ TasksDone \/ UNCHANGED vars
  <2>1. /\ UNCHANGED <<savepoint, futures, streams, connected, activeStreams, toInitialize, observed,
                       streamChanges>>
        /\ workerPc' = workerPc \/ "announce" \notin {workerPc, workerPc'}
        /\ (workerPc' = workerPc /\ results' = results) \/ "resolve" \notin {workerPc, workerPc'}
    BY <1>10 DEF Notify, Woken, Stop, Join, Loop, TakeTasks, SpuriousWakeup, StreamsInitialized,
                 BeginTransaction, ExecuteOperation, TasksDone, vars
  <2>. QED
    BY <2>1, QuietStreams, QuietFutures DEF Store!storeVars
<1>. QED
  BY <1>0, <1>1, <1>2, <1>3, <1>4, <1>5, <1>6, <1>7, <1>8, <1>9, <1>10
     DEF Next, Client, Worker, Terminated, Store!Next

\* backend.h: for whatever client, the backend's two threads, its queues and its change lists
\* are a store that executes one request after the other, entirely or not at all, whose open
\* streams follow it, and whose answers come after the streams know of their effect.
THEOREM StoreIsImplemented == Spec => ImplementsStore
<1>1. Init /\ TypeOK /\ BatchesAccountedFor => Store!Init
  BY InitIsStore
<1>2. /\ TypeOK /\ WorkerState /\ BatchesAccountedFor /\ StreamInv /\ StoreInv
      /\ (TypeOK /\ WorkerState)' /\ BatchesAccountedFor'
      /\ [Next]_vars
      => [Store!Next]_(Store!storeVars)
  BY StepIsStore
<1>. QED
  BY <1>1, <1>2, TypeCorrect, BatchesAreAccountedFor, StreamInvariant, StoreInvariant, PTL
     DEF Spec, ImplementsStore, Store!Spec
=============================================================================
