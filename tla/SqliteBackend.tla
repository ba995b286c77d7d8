---------------------------- MODULE SqliteBackend ----------------------------
(***************************************************************************)
(* persistence/sqlite/sqlitebackend.cpp with persistence/changequeue.cpp   *)
(* and persistence/datastream.*: a backend whose client queues batches of  *)
(* operations and opens data streams, and whose worker thread executes     *)
(* each batch as a transaction and tells every open stream what changed.   *)
(*                                                                         *)
(* Two threads take steps: the client's (the GUI's or the server's thread) *)
(* and the worker's (threadMain).  A section under _queueMutex or          *)
(* _streamMutex is one step, and so is a stretch of code that touches only *)
(* what its own thread uses: the storage is the worker's alone.            *)
(***************************************************************************)
EXTENDS BackendOperations

CONSTANTS Batches,     \* the batches of operations a client may queue
          Endpoints,   \* the endpoints a client may open a stream on
          MaxTasks,    \* bound: batches queued in a behaviour
          MaxStreams   \* bound: streams opened in a behaviour

ASSUME BackendAssumption ==
  /\ Batches \subseteq Seq(Operation)
  /\ Endpoints \subseteq Endpoint
  /\ MaxTasks \in Nat
  /\ MaxStreams \in Nat

\* Reservation::isValid: the reservations which clients store and update have an atom.  The
\* queries that load reservations join them with their atoms and would not find one without.
ASSUME AtomsAssumption ==
  \A batch \in Batches : \A n \in DOMAIN batch :
    /\ batch[n].op \in {"StoreNew", "Update"}
    /\ batch[n].item.type = "Reservation"
    => batch[n].item.parts # << >>

StreamIds == 1 .. MaxStreams

\* op::Operations and the promise of the future which queueOperations returned
QueuedOperation == [operations : Seq(Operation), promise : Nat]

\* The future which queueOperations returned: the batch it was returned for, and its value.
Future == [batch : Seq(Operation), ready : BOOLEAN, value : Seq(Status)]

NoChanges == [s \in StreamIds |-> << >>]

VARIABLES
  storage,               \* _storage, with the writes of an open transaction
  savepoint,             \* _storage as it was when the last transaction ended
  operationsQueue,       \* _operationsQueue
  quitBackendThread,     \* _quitBackendThread
  uninitializedStreams,  \* DataStreamManager::_uninitializedStreams
  activeStreams,         \* DataStreamManager::_activeStreams
  streams,               \* the endpoint of each stream; its id is its position
  connected,             \* the streams with an observer
  tracked,               \* ChangeQueue::_dataStreams
  streamChanges,         \* ChangeQueue::_changeList, by stream
  observed,              \* the calls made to the observer of each stream
  futures,               \* the futures handed out: batch asked for, and value
  clientPc,              \* where the client's thread is
  workerPc,              \* where the worker's thread is
  newTasks,              \* threadMain: the batches taken over, the current one first
  toInitialize,          \* initialize(): the streams taken over
  transactionChanges,    \* threadMain: the changes of the current batch, by stream
  results                \* threadMain: the results of the current batch

clientVars == <<streams, connected, tracked, observed, clientPc>>
taskVars == <<storage, savepoint, newTasks, transactionChanges, results>>
vars == <<storage, savepoint, operationsQueue, quitBackendThread, uninitializedStreams,
          activeStreams, streams, connected, tracked, streamChanges, observed, futures,
          clientPc, workerPc, newTasks, toInitialize, transactionChanges, results>>

Init ==
  /\ storage = EmptyDatabase
  /\ savepoint = EmptyDatabase
  /\ operationsQueue = << >>
  /\ quitBackendThread = FALSE
  /\ uninitializedStreams = {}
  /\ activeStreams = {}
  /\ streams = << >>
  /\ connected = {}
  /\ tracked = {}
  /\ streamChanges = NoChanges
  /\ observed = NoChanges
  /\ futures = << >>
  /\ clientPc = "idle"
  /\ workerPc = "loop"
  /\ newTasks = << >>
  /\ toInitialize = {}
  /\ transactionChanges = NoChanges
  /\ results = << >>

-----------------------------------------------------------------------------
(* The client's thread *)

Idle == clientPc = "idle"

\* _operationsQueue after push_back.  A mutated form pushes at the front.
PushedFront(operation) == <<operation>> \o operationsQueue
PushedBack(operation) == Append(operationsQueue, operation)

\* Where a notification finds or leaves the worker.  A mutated form never wakes it.
NotWoken == workerPc
Woken == IF workerPc = "waiting" THEN "initialize" ELSE workerPc

QueueOperations(batch) ==
  /\ Idle
  /\ Len(futures) < MaxTasks
  /\ futures' = Append(futures, [batch |-> batch, ready |-> FALSE, value |-> << >>])
  /\ operationsQueue' = PushedBack([operations |-> batch, promise |-> Len(futures) + 1])
  /\ clientPc' = "notify"
  /\ UNCHANGED <<streams, connected, tracked, observed, quitBackendThread, uninitializedStreams,
                 activeStreams, streamChanges, workerPc, toInitialize, taskVars>>

CreateStream(e) ==
  /\ Idle
  /\ Len(streams) < MaxStreams
  /\ streams' = Append(streams, e)
  /\ connected' = connected \cup {Len(streams) + 1}
  /\ tracked' = tracked \cup {Len(streams) + 1}
  /\ uninitializedStreams' = uninitializedStreams \cup {Len(streams) + 1}
  /\ clientPc' = "notify"
  /\ UNCHANGED <<observed, operationsQueue, quitBackendThread, activeStreams, streamChanges,
                 futures, workerPc, toInitialize, taskVars>>

\* notify_one, after the mutex was released
Notify ==
  /\ clientPc = "notify"
  /\ clientPc' = "idle"
  /\ workerPc' = Woken
  /\ UNCHANGED <<streams, connected, tracked, observed, operationsQueue, quitBackendThread,
                 uninitializedStreams, activeStreams, streamChanges, futures, toInitialize, taskVars>>

\* UniqueDataStreamHandle::reset
ResetHandle(s) ==
  /\ Idle
  /\ s \in connected
  /\ connected' = connected \ {s}
  /\ uninitializedStreams' = uninitializedStreams \ {s}
  /\ activeStreams' = activeStreams \ {s}
  /\ UNCHANGED <<streams, tracked, observed, clientPc, operationsQueue, quitBackendThread,
                 streamChanges, futures, workerPc, toInitialize, taskVars>>

ApplyStreamChanges ==
  /\ Idle
  /\ tracked' = tracked \cap connected
  /\ observed' = [s \in StreamIds |->
                    IF s \in tracked' THEN observed[s] \o streamChanges[s] ELSE observed[s]]
  /\ streamChanges' = NoChanges
  /\ UNCHANGED <<streams, connected, clientPc, operationsQueue, quitBackendThread,
                 uninitializedStreams, activeStreams, futures, workerPc, toInitialize, taskVars>>

\* stopAndJoin up to join(): the flag is set and all are notified under the mutex.
Stop ==
  /\ Idle
  /\ quitBackendThread' = TRUE
  /\ workerPc' = Woken
  /\ clientPc' = "joining"
  /\ UNCHANGED <<streams, connected, tracked, observed, operationsQueue, uninitializedStreams,
                 activeStreams, streamChanges, futures, toInitialize, taskVars>>

Join ==
  /\ clientPc = "joining"
  /\ workerPc = "done"
  /\ clientPc' = "stopped"
  /\ UNCHANGED <<streams, connected, tracked, observed, operationsQueue, quitBackendThread,
                 uninitializedStreams, activeStreams, streamChanges, futures, workerPc,
                 toInitialize, taskVars>>

-----------------------------------------------------------------------------
(* The worker's thread *)

\* while (!_quitBackendThread)
Loop ==
  /\ workerPc = "loop"
  /\ workerPc' = IF quitBackendThread THEN "done" ELSE "take"
  /\ UNCHANGED <<clientVars, operationsQueue, quitBackendThread, uninitializedStreams,
                 activeStreams, streamChanges, futures, toInitialize, taskVars>>

\* There is no reason not to wait.  A mutated form forgets the streams.
NoBatches == ~quitBackendThread /\ operationsQueue = << >>
NothingToDo == ~quitBackendThread /\ operationsQueue = << >> /\ uninitializedStreams = {}

\* The section under _queueMutex, up to wait() or unlock().
TakeTasks ==
  /\ workerPc = "take"
  /\ newTasks' = operationsQueue
  /\ operationsQueue' = << >>
  /\ workerPc' = IF NothingToDo THEN "waiting" ELSE "initialize"
  /\ UNCHANGED <<clientVars, storage, savepoint, quitBackendThread, uninitializedStreams,
                 activeStreams, streamChanges, futures, toInitialize, transactionChanges, results>>

\* wait() may return without a notification.
SpuriousWakeup ==
  /\ workerPc = "waiting"
  /\ workerPc' = "initialize"
  /\ UNCHANGED <<clientVars, operationsQueue, quitBackendThread, uninitializedStreams,
                 activeStreams, streamChanges, futures, toInitialize, taskVars>>

\* A mutated form: the new streams stay new.
ActivateStreamsAgain ==
  /\ workerPc = "initialize"
  /\ toInitialize' = uninitializedStreams
  /\ activeStreams' = activeStreams \cup uninitializedStreams
  /\ workerPc' = "load"
  /\ UNCHANGED <<clientVars, operationsQueue, quitBackendThread, uninitializedStreams, streamChanges,
                 futures, taskVars>>

\* DataStreamManager::initialize, the section under _streamMutex
ActivateStreams ==
  /\ workerPc = "initialize"
  /\ toInitialize' = uninitializedStreams
  /\ activeStreams' = activeStreams \cup uninitializedStreams
  /\ uninitializedStreams' = {}
  /\ workerPc' = "load"
  /\ UNCHANGED <<clientVars, operationsQueue, quitBackendThread, streamChanges, futures, taskVars>>

IsNext(s) == s \in toInitialize /\ \A r \in toInitialize : s <= r

LoadStream(s) ==
  /\ workerPc = "load"
  /\ IsNext(s)
  /\ streamChanges' = [streamChanges EXCEPT ![s] = @ \o InitialChanges(storage, streams[s])]
  /\ workerPc' = "announce"
  /\ UNCHANGED <<clientVars, operationsQueue, quitBackendThread, uninitializedStreams,
                 activeStreams, futures, toInitialize, taskVars>>

AnnounceInitialized(s) ==
  /\ workerPc = "announce"
  /\ IsNext(s)
  /\ streamChanges' = [streamChanges EXCEPT ![s] = Append(@, Initialized)]
  /\ toInitialize' = toInitialize \ {s}
  /\ workerPc' = "load"
  /\ UNCHANGED <<clientVars, operationsQueue, quitBackendThread, uninitializedStreams,
                 activeStreams, futures, taskVars>>

StreamsInitialized ==
  /\ workerPc = "load"
  /\ toInitialize = {}
  /\ workerPc' = "task"
  /\ UNCHANGED <<clientVars, operationsQueue, quitBackendThread, uninitializedStreams,
                 activeStreams, streamChanges, futures, toInitialize, taskVars>>

BeginTransaction ==
  /\ workerPc = "task"
  /\ newTasks # << >>
  /\ workerPc' = "execute"
  /\ UNCHANGED <<clientVars, operationsQueue, quitBackendThread, uninitializedStreams,
                 activeStreams, streamChanges, futures, toInitialize, taskVars>>

\* foreachStream: what an operation means to each active stream goes to the batch's changes.
ForeachStream(op) ==
  [s \in StreamIds |-> IF s \in activeStreams
                         THEN transactionChanges[s] \o ChangesFor(storage, op, streams[s])
                         ELSE transactionChanges[s]]

\* The operation executes on the storage, and on the active streams under _streamMutex.
ExecuteOperation ==
  /\ workerPc = "execute"
  /\ ~Failed(results)
  /\ Len(results) < Len(Head(newTasks).operations)
  /\ LET op == Head(newTasks).operations[Len(results) + 1]
     IN  /\ storage' = Effect(storage, op)
         /\ transactionChanges' = ForeachStream(op)
         /\ results' = Append(results, IF Succeeds(storage, op) THEN "Successful" ELSE "Error")
  /\ UNCHANGED <<clientVars, savepoint, operationsQueue, quitBackendThread, uninitializedStreams,
                 activeStreams, streamChanges, futures, workerPc, newTasks, toInitialize>>

\* commitTransaction and addChanges; the changes of the batch appear all at once.
Commit ==
  /\ workerPc = "execute"
  /\ ~Failed(results)
  /\ Len(results) = Len(Head(newTasks).operations)
  /\ savepoint' = storage
  /\ streamChanges' = [s \in StreamIds |-> streamChanges[s] \o transactionChanges[s]]
  /\ workerPc' = "resolve"
  /\ UNCHANGED <<clientVars, storage, operationsQueue, quitBackendThread, uninitializedStreams,
                 activeStreams, futures, newTasks, toInitialize, transactionChanges, results>>

\* A mutated form: a batch that failed keeps what it has written.
NoRollback ==
  /\ workerPc = "execute"
  /\ Failed(results)
  /\ workerPc' = "resolve"
  /\ UNCHANGED <<clientVars, operationsQueue, quitBackendThread, uninitializedStreams,
                 activeStreams, streamChanges, futures, toInitialize, taskVars>>

Rollback ==
  /\ workerPc = "execute"
  /\ Failed(results)
  /\ storage' = savepoint
  /\ workerPc' = "resolve"
  /\ UNCHANGED <<clientVars, savepoint, operationsQueue, quitBackendThread, uninitializedStreams,
                 activeStreams, streamChanges, futures, newTasks, toInitialize, transactionChanges,
                 results>>

Resolve ==
  /\ workerPc = "resolve"
  /\ futures' = [futures EXCEPT ![Head(newTasks).promise] =
                               [batch |-> @.batch, ready |-> TRUE, value |-> results]]
  /\ newTasks' = Tail(newTasks)
  /\ transactionChanges' = NoChanges
  /\ results' = << >>
  /\ workerPc' = "task"
  /\ UNCHANGED <<clientVars, storage, savepoint, operationsQueue, quitBackendThread,
                 uninitializedStreams, activeStreams, streamChanges, toInitialize>>

TasksDone ==
  /\ workerPc = "task"
  /\ newTasks = << >>
  /\ workerPc' = "loop"
  /\ UNCHANGED <<clientVars, operationsQueue, quitBackendThread, uninitializedStreams,
                 activeStreams, streamChanges, futures, toInitialize, taskVars>>

-----------------------------------------------------------------------------
Client ==
  \/ \E batch \in Batches : QueueOperations(batch)
  \/ \E e \in Endpoints : CreateStream(e)
  \/ \E s \in StreamIds : ResetHandle(s)
  \/ Notify
  \/ ApplyStreamChanges
  \/ Stop
  \/ Join

Worker ==
  \/ Loop
  \/ TakeTasks
  \/ ActivateStreams
  \/ \E s \in StreamIds : LoadStream(s) \/ AnnounceInitialized(s)
  \/ StreamsInitialized
  \/ BeginTransaction
  \/ ExecuteOperation
  \/ Commit
  \/ Rollback
  \/ Resolve
  \/ TasksDone

\* The backend was destroyed.
Terminated == clientPc = "stopped" /\ UNCHANGED vars

Next == Client \/ Worker \/ SpuriousWakeup \/ Terminated

Spec == Init /\ [][Next]_vars

\* The worker is a running thread, the client finishes a call it has begun, and the
\* client's event loop applies the changes that wait for it.
Fairness ==
  /\ WF_vars(Worker)
  /\ WF_vars(Notify)
  /\ WF_vars(Join)
  /\ WF_vars(ApplyStreamChanges)

FairSpec == Spec /\ Fairness
-----------------------------------------------------------------------------
(* Properties *)

\* Every variable has its type.
TypeOK ==
  /\ storage \in Database
  /\ savepoint \in Database
  /\ operationsQueue \in Seq(QueuedOperation)
  /\ quitBackendThread \in BOOLEAN
  /\ uninitializedStreams \subseteq DOMAIN streams
  /\ activeStreams \subseteq DOMAIN streams
  /\ streams \in Seq(Endpoint) /\ Len(streams) <= MaxStreams
  /\ connected \subseteq DOMAIN streams
  /\ tracked \subseteq DOMAIN streams
  /\ streamChanges \in [StreamIds -> Seq(Change)]
  /\ observed \in [StreamIds -> Seq(Change)]
  /\ futures \in Seq(Future)
  /\ clientPc \in {"idle", "notify", "joining", "stopped"}
  /\ workerPc \in {"loop", "take", "waiting", "initialize", "load", "announce", "task", "execute",
                   "resolve", "done"}
  /\ newTasks \in Seq(QueuedOperation)
  /\ toInitialize \subseteq DOMAIN streams
  /\ transactionChanges \in [StreamIds -> Seq(Change)]
  /\ results \in Seq(Status)

Resolved(f) == futures[f].ready
Succeeded(f) == Resolved(f) /\ ~Failed(futures[f].value)

\* The worker never sleeps through work: if it waits while there is a batch, a new stream
\* or the order to quit, then the client is about to notify it.
NoLostWakeup ==
  workerPc = "waiting" /\ (operationsQueue # << >> \/ uninitializedStreams # {} \/ quitBackendThread)
    => clientPc = "notify"

\* What the places of the two threads in the code say about what they hold: no transaction
\* is left open, and no batch is taken over while others are.
WorkerState ==
  /\ workerPc \in {"loop", "take", "waiting", "done"} => newTasks = << >>
  /\ workerPc \in {"execute", "resolve"} => newTasks # << >>
  /\ workerPc # "execute" => storage = savepoint
  /\ clientPc = "stopped" => workerPc = "done"

\* No batch is lost, answered twice or answered with the results of another one: the batches
\* are those answered, those threadMain has taken over (newTasks) and those in
\* _operationsQueue, in this order, and each of the latter still holds its own promise.
BatchesAccountedFor ==
  LET answered == Len(futures) - Len(newTasks) - Len(operationsQueue)
      Holds(queue, n) == \A i \in DOMAIN queue :
                           queue[i] = [operations |-> futures[n + i].batch, promise |-> n + i]
  IN  /\ answered >= 0
      /\ \A f \in DOMAIN futures : Resolved(f) <=> f <= answered
      /\ Holds(newTasks, answered)
      /\ Holds(operationsQueue, answered + Len(newTasks))

\* Batches are answered in the order in which they were queued (queueOperations pushes at
\* the back, threadMain serves from the front).
ResolvedInOrder ==
  \A f, g \in DOMAIN futures : f < g /\ Resolved(g) => Resolved(f)

\* When stopAndJoin returns, a batch has been executed and answered as a whole, or it is
\* still in the queue and has left nothing in the storage.
StopLeavesNoHalfBatch ==
  clientPc = "stopped" =>
    /\ \A f \in DOMAIN futures :
         Resolved(f) <=> \A i \in DOMAIN operationsQueue : operationsQueue[i].promise # f
    /\ storage = savepoint

\* An operation of a batch, and those of the first n operations of the f-th batch.
Entries(f, batch, n) == {[batch |-> f, place |-> i, op |-> batch[i]] : i \in 1 .. n}

\* All operations of the batches which succeeded.
AnsweredEntries ==
  UNION {Entries(f, futures[f].batch, Len(futures[f].batch)) : f \in {g \in DOMAIN futures : Succeeded(g)}}

Before(p, q) == p.batch < q.batch \/ (p.batch = q.batch /\ p.place < q.place)

SameRevision(p, q) ==
  /\ p.op.op = "Update" /\ q.op.op = "Update"
  /\ p.op.item.type = q.op.item.type
  /\ p.op.item.id = q.op.item.id
  /\ p.op.item.revision = q.op.item.revision

\* Of two updates of one revision of an object the second comes after an erasure.
NoConflict(entries) ==
  \A p, q \in entries : Before(p, q) /\ SameRevision(p, q) =>
    \E r \in entries : r.op.op = "EraseAllData" /\ Before(p, r) /\ Before(r, q)

\* Optimistic locking (the revision in "WHERE id = ? AND revision = ?"): of all updates of
\* the same revision of an object at most one succeeds, unless the data was erased in between.
NoConflictingUpdates == NoConflict(AnsweredEntries)

-----------------------------------------------------------------------------
(* What streams promise *)

\* All changes of a stream: those its observer was told of, and those it will be told of
\* by the next applyStreamChanges.
Log(s) == observed[s] \o streamChanges[s]

\* The worker has put the initial items on the stream.
IsLoaded(s) ==
  s \in activeStreams /\ (s \in toInitialize => workerPc = "announce" /\ IsNext(s))

\* An observer's copy of a hotel collects rooms and categories with every update.
SameItem(a, b) ==
  [a EXCEPT !.parts = << >>] = [b EXCEPT !.parts = << >>] /\ (a.type = "Reservation" => a.parts = b.parts)

\* An update came for an item which the observer did not have; it was ignored.
IgnoredUpdate(log, id) ==
  \E n \in DOMAIN log :
    /\ log[n].kind = "updated" /\ \E i \in log[n].items : i.id = id
    /\ \A i \in View(log)[n - 1] : i.id # id
    /\ \A m \in n .. Len(log) : log[m].kind # "cleared"

\* No stream shows what the storage does not hold: after the pending changes are applied,
\* each item of an observer is an item of the committed storage, in its committed revision.
\* Any applyStreamChanges therefore brings all streams to the same committed state.
NoStaleItem ==
  \A s \in connected : IsLoaded(s) =>
    \A i \in Contents(Log(s)) : \E j \in Loaded(savepoint, streams[s]) : SameItem(i, j)

\* ... and each item of the committed storage is shown, but for a deleted reservation which
\* a late update brought back (its row is still there to be updated).
NoMissingItem ==
  \A s \in connected : IsLoaded(s) =>
    \A j \in Loaded(savepoint, streams[s]) :
      (\E i \in Contents(Log(s)) : SameItem(i, j)) \/ IgnoredUpdate(Log(s), j.id)

InitializedFirst(log) ==
  /\ \A m, n \in DOMAIN log : log[m] = Initialized /\ log[n] = Initialized => m = n
  /\ \A n \in DOMAIN log : \/ n = 1 /\ log[1].kind = "added"
                           \/ \E m \in {1, 2} : m <= n /\ log[m] = Initialized

\* A vector observer appends what is added: no item is ever added to a stream that shows it.
\* So a stream is initialized once, after its initial items and before any other change.
ItemsAddedOnce ==
  \A s \in connected :
    /\ InitializedFirst(Log(s))
    /\ \A n \in DOMAIN Log(s) : Log(s)[n].kind = "added" =>
         \A i \in View(Log(s))[n - 1], j \in Log(s)[n].items : i.id # j.id

\* Without the exception of NoMissingItem: a successful change is seen by every stream.
StreamsShowStorage ==
  \A s \in connected : IsLoaded(s) =>
    \A j \in Loaded(savepoint, streams[s]) : \E i \in Contents(Log(s)) : SameItem(i, j)

-----------------------------------------------------------------------------
(* Liveness *)

\* Unless the backend is stopped, each queued batch is answered ...
BatchesAnswered ==
  \A f \in 1 .. MaxTasks :
    f \in DOMAIN futures ~> (f \in DOMAIN futures /\ Resolved(f)) \/ quitBackendThread

\* ... and each stream whose handle is kept gets its initial items.
StreamsGetItems ==
  \A s \in StreamIds :
    s \in connected ~> s \notin connected \/ (\E n \in DOMAIN observed[s] : observed[s][n] = Initialized)
                        \/ quitBackendThread

\* stopAndJoin returns.
StopReturns == clientPc = "joining" ~> clientPc = "stopped"
=============================================================================
