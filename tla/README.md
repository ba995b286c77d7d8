# A verification project for decden/hotel

The repository is a property management system in C++: reservations of hotel rooms on a planning
board, kept in an SQLite database by a server that several GUIs share. This directory holds TLA+
modules of its parts, the TLC configurations that check them on small instances, and proofs for
TLAPS. `PROJECT.json` lists the parts of the system, the runs with what they check, for every
property a mutation of the code that breaks it, the lines each definition stands for, the hazards
of the code and the theorems.

    tlc -config MCSqliteBackendStreams.cfg MCSqliteBackend     # one of the runs below
    tlapm SqliteBackendProofs.tla                              # one of the modules of proofs

## 1. The system

| component | source | state | operations | properties that make it correct |
|---|---|---|---|---|
| storage | `persistence/sqlite/sqlitestorage.cpp`, `sqlitestatement.*` | the tables, an open transaction | store, update by id and revision, delete, load, erase all | optimistic locking: one update per revision |
| operations | `persistence/op`, `persistence/taskresult.h` | - | `EraseAllData`, `StoreNew`, `Update`, `Delete` | a batch happens entirely or not at all |
| data streams | `persistence/datastream.*`, `datastreamobserver.h`, `changequeue.*` | open streams, pending changes | add, update, remove, clear, initialized; `applyStreamChanges` | an observer shows what is committed, each item once |
| SQLite backend | `persistence/sqlite/sqlitebackend.*` | queue of batches, new and active streams, worker thread | `queueOperations`, `createStream`, handle reset, `stopAndJoin`, `threadMain` | no lost wakeup, each batch answered once and in order, streams in step with the storage, clean stop |
| reservations | `hotel/reservation.*` | atoms: a room and a period each | add, continue, join, remove atoms | joining keeps the nights |
| planning board | `hotel/planning.*` | reservations, per room a sorted row of atom pointers | add, remove by pointer or id, clear, availability queries | no double booking, rows mirror reservations, queries tell the truth |
| hotels, persons | `hotel/hotel.cpp`, `hotelcollection.cpp`, `person.cpp` | plain records | getters, setters, searches | - |
| futures | `fas/future.*`, `cancellation.h` | value, continuation, token per state | `resolve`, `then`, `reset` | each continuation once and in order, chains end |
| executors | `fas/threadedexecutor.h`, `queueexecutor.h`, `systemexecutor.h`, `fas.cpp` | job queue, thread | `spawn`, `start`, `stop` | no job missed, `stop` returns |
| streams of values | `fas/stream.h` | queue, value in process, continuation per state | `send`, `then`, `get`, `reset` | one runner per continuation, order kept, all arrives |
| network client | `persistence/net/netclientbackend.*` | open tasks, unsent messages, connection | as a backend, over messages | no change lost or reordered on the way, each answer to its task |
| network server | `server/netserver.*`, `netclientsession.*` | sessions, their streams and unsent messages | accept, run commands, send changes and results | as above; stop returns |
| messages | `persistence/net/jsonserializer.*`, `persistence/json/jsonserializer.*` | - | to JSON and back | what must survive a round trip does |
| change integrator | `gui/datasourcechangeintegrator.*` | one flag | coalesce wakeups of the event loop | no change waits without a wakeup |
| planning widget, context, scene | `gui/planningwidget.*`, `gui/planningwidget/context.*`, `planningboardwidget.*`, `planningboardreservationitem.*` | a board fed by a stream, an item for each reservation, the selection | stream callbacks, delete key, mouse | board and scene follow the stream, nothing points to what is gone, no exception ends the GUI |
| tools | `gui/planningwidget/*tool.*` | ghosts: reservations being drawn or moved | mouse and key events | ghosts stay free on a board that changes, what is committed fits |
| edit dialog | `gui/dialogs/editreservation.*` | edited copy, current item, save under way | save, merge, stream callbacks | no edit lost, no newer revision overwritten |
| drawing | the other files of `gui/` | - | painting, layout | - |
| applications, tests | `guiapp`, `serverapp`, `tests`, `fas/tests` | - | - | - |

How they interact. The GUI's main thread calls a `Backend` and gets a future for each batch and a
handle for each stream. A backend runs a thread of its own; what it has to say to streams goes
through its `ChangeQueue`, and the caller's thread hands it to the observers with
`applyStreamChanges`: the GUI when the change integrator has woken its event loop, the server in a
handler of its `io_service`. The GUI's backend is a network client; on the other side a session
per connection opens streams on the server's SQLite backend and turns what its observers are told
into messages. Results travel back through a continuation of the batch's future. The planning
widget keeps a planning board in step with two streams; the tools and the dialog read it and queue
batches.

What is hard: two threads on a queue with a condition variable, streams that are opened and closed
while batches run, transactions that fail half-way, revisions that go stale, continuations whose
right to run is passed between threads, raw pointers kept in rows next to their owners, messages
between two processes over connections that break, a map that two threads use without a lock, dialogs
which run the event loop in the middle of a merge or of a commit, and reservations that other clients
add, move and remove under the hands of a user who draws. `PROJECT.json` lists these
hazards at their lines.

## 2. The modules

| module | what it models |
|---|---|
| `SqliteStorage` | the SQL operations, as operators on a database value. A table is the sequence of its rows, an id a position |
| `DataStreams` | what stream handlers emit for a change, what an observer makes of it |
| `BackendOperations` | whether an operation succeeds, what it does to the database, what it tells a stream |
| `SqliteBackend` | the backend with its two threads, its properties |
| `TransactionalStore` | abstract: what `backend.h` promises, without threads, queues or change lists |
| `SqliteBackendStore` | the refinement mapping from `SqliteBackend` to `TransactionalStore` |
| `SqliteBackendProofs` | theorems: threads and queues of `SqliteBackend`, optimistic locking, what streams show; it implements `TransactionalStore` |
| `BackendOperationsProofs` | induction, and the lemmas about operations, changes and what an observer makes of them |
| `Reservations`, `PlanningBoard` | atoms; the board with its rows and queries |
| `ThreadedExecutor`, `FasFuture` | an executor's thread; promise, future and chain on top of it |
| `FasStream` | producer, chain and client of a stream, on an executor that may take any job first |
| `FasFutureProofs`, `FasStreamProofs` | theorems about chains and streams of any length |
| `NetProtocol` | the messages of client and server, and a connection: what is written, read, broken |
| `NetClientBackend` | the client with its main and communication thread |
| `NetServer` | the server: sessions on one `io_service`, and a backend that keeps the promises of `TransactionalStore` |
| `Net` | clients, server and connections together; their properties |
| `NetProofs` | theorems about `Net`: batches, messages and results |
| `NetStreamsProofs` | theorems about `Net`: what clients are told of their streams, and when |
| `PlanningTools` | the tools that draw and move reservations, above `PlanningBoard` |
| `PlanningWidget` | the widget with context, scene and selection, above the tools and a backend; its properties |
| `PlanningProofs` | theorems about `PlanningBoard` and `PlanningWidget` |
| `ChangeIntegrator` | the change queue, the flag that coalesces wakeups and the main thread's events |
| `EditReservation` | the edit dialog above the change integrator and a backend |
| `EditReservationProofs` | theorems about the dialog and the change integrator |
| `MCSqliteBackend`, `MCPlanningBoard`, `MCPlanningWidget`, `MCNet`, `MCEditReservation` | instances for TLC |

State and actions. Variables carry the names of the members or locals they model; `workerPc`,
`clientPc`, `executorPc`, `at` and `frames` are program counters. A section under a mutex is one
step; code between two sections is a step of its own whenever another thread could tell. In
`SqliteBackend` the worker's steps are the lines of `threadMain` in their order: `Loop` (the while),
`TakeTasks` (the section under `_queueMutex`), `ActivateStreams`, `LoadStream` and
`AnnounceInitialized` (`initialize`: the swap under `_streamMutex`, the load, the last
`addStreamChange`), `BeginTransaction`, `ExecuteOperation` (one per operation), `Commit` or
`Rollback`, `Resolve`, `TasksDone`. The client's are the calls of the public interface, with
`Notify` apart, since the code notifies after it has released the mutex.

In the network modules a handler of an `io_service` is one step: on the client `RunSubmit`,
`RunClose`, `SocketConnected`, `WriteDone`, `ReceiveMessage`, `ReceiveResults` and those of the
failures, on the server `Accept`, the three commands `RunCreateStream`, `RunRemoveStream` and
`RunScheduleOperations`, `SessionWriteDone`, and `RunApply` and `RunAnswer`, which the backend's
thread posts. The client's main thread has `QueueOperations` and `SubmitOperations` (the message is
posted, then the promise goes into `_tasks`), `CreateStream`, `ResetHandle`, `ApplyStreamChanges`,
`Stop` and `Join`. `_tasks` has no lock: when `SubmitOperations` and the search or erasure of
`processMessage` meet, `Races` lets the promise be lost or not. In `EditReservation` each slot and each
stream handler is a step of the main thread; `saveClicked` is two, `SaveClicked` and
`ThenSaveTaskUpdated`, since the backend may answer in between, and `mergeChangesClicked` is
`MergeChangesClicked` and one `UserChooses` per message box, since the box runs the event loop.

The server's thread runs the io service, and `service` says what has become of it. `run()` returns
when there is nothing left to do (`ServiceRunsOut`), asked to stop or not: it is enough that an accept
has failed, since `doAccept` is not called again then (`AcceptFails`, `acceptor = "idle"`), and that all
sessions have ended. `StopServer` posts the handler `RunCloseServer` and waits in `JoinServer` until
`run()` has returned; the destructor which has called `stopAndJoin` then closes what is open. An accept
handler that was queued behind the close handler is in `late`: its session is started all the same.

Two log lines can end the process. `remote_endpoint()` throws if the peer has reset the connection, while
the socket is still open on the server's side. In the accept handler (`netserver.cpp:75`) the exception
leaves `run()` and the thread (`AcceptThrows`); in `~NetClientSession` (`netclientsession.cpp:73`) it leaves
a destructor, which is `noexcept` (`SessionThrows`). Either way `std::terminate` ends the server and with it
the connections of all clients (`Aborts`, `service = "aborted"`). The destructor runs with the last handler
that holds the session, when neither a read nor a write is pending any more. It asks for the address only
if the socket is open: of a session that the close handler has closed it does not.

In `PlanningTools` a mouse or key event is a step: `PressMouse`, `DragMouse`, `ShiftDragMouse` and
`ReleaseMouse` draw a ghost, `PressEscape`, `PressBackspace` and `PressReturn` are the keys, and
`PressReturn` leaves the main thread in the input dialog's event loop until `EnterDescription` or
`CancelDescription`. `PressAtom`, `DragAtom` and `ReleaseAtom` are the Move tool's. The ghost in hand is
the board's `draft`. In `PlanningWidget` a step of the main thread handles one reservation of a change:
`ReservationsAdded`, `ReservationsUpdated` (which takes the old version off and leaves the new one to
be added), `ReservationsRemoved` and `AllReservationsRemoved`; no event of the user comes between two
reservations of one change (`midway`). `PressItem`, `PressElsewhere`, `PressRoom` and `PressDelete` are
what the scene and the widget do with the mouse and the delete key. `scene` and `selected` are sets of
addresses, so that a pointer to a reservation that is gone can be told (`Dangling`).

Abstractions. Items have an id, a revision, their scalar columns as one value and their atoms, or
rooms and categories, as a sequence; SQLite does what its statements say and does not fail. The
change list is kept per stream: observers are told of their own changes only. Dates are numbers of
days. Results of continuations are named by the values they were made from. Assertions are those of
a release build in `SqliteBackend` and `EditReservation`; `AssertionsHold`, a part of `OneRunner`,
states those of `fas`.

On the network a message arrives whole: header and body of the frame are left out. A write to a
broken connection fails, and what was written may be lost from any point on. A `link` that is `"broken"`
was reset by the peer or was closed by it in order, which the model does not tell apart: of the latter
`remote_endpoint()` still knows the address, so `Accept` and `AcceptThrows`, and the end of a session and
`SessionThrows`, are both possible. The other functions of asio that report errors by exceptions
(`_socket.close()`, `_acceptor.close()`) and the parser of JSON, which throws on text that is not JSON, are
taken not to throw. Of several posted
handlers that apply changes and follow each other directly one is kept: the others find the list
empty. The server's backend starts streams and executes batches in one step each, in any order of
the two; what this leaves out is what `sqlite_store` shows. Operations on persons do not survive
deserialization, as in the code.

The dialog's form has one field that is shown as it is and one whose widget has a range, for the
four of the code. The backend executes a batch in one step; changes and results then reach the
main thread in order but later. Other clients update what they can load, delete it, or erase all
data; they do not store again after an erasure, which would break the dialog's own assertions (the
hazard at `editreservation.cpp:196`). `edited` and `overtaken` are history variables: what the user
has set since the form was filled, and whether the case of `dialog_merge` has happened.

The planning widget's backend executes a batch in one step, and its changes reach the widget in order
but later, any number of the user's events in between. A new reservation is put at the least address
that no pointer refers to: reuse of an address that something still points to is not followed. Qt is
external: the mouse points at a room and a date, each room has its row, a press on an item selects it
(with the control key in addition to others) and a press elsewhere takes the selection back. The
layout, with its two groupings and the handlers of the hotels' stream which rebuild it, is left out.
An exception of the board has no handler above it and ends the GUI. The exploration goes no further
once a pointer dangles, since what comes is undefined, nor after `allReservationsRemoved`.

What `SceneShowsStorage` (`SceneShowsBoard` at any time, `BoardShowsStorage` once the widget was told
everything) and `ThrowsOnlyOnDoubleBooking` leave out is what the model
has shown the code to do:

- `removeReservation` of the scene (`planningboardwidget.cpp:145`) takes the first item with the id.
  While the Move tool holds a copy, that is the ghost's item: the item of the real reservation stays
  in the scene and points to a reservation that the context destroys next (`mistaken`).
- `allReservationsRemoved` (`planningwidget.cpp:147`) empties the scene but not the board, so the
  rooms stay taken and a reservation which the erased database numbers anew meets the old one
  (`cleared`).
- The storage does not look at rooms. Two clients, or one whose second commit comes before it was told
  of its first (`newreservationtool.cpp:180` forgets the ghosts when they are queued), may book a night
  twice; the board of each GUI then throws (`overlapped`).
- The Move tool may put an atom back into the room it came from without a look at the board
  (`movereservationtool.cpp:89`). What was added there meanwhile would have dropped the ghost
  (`reservationAdded`), so `GhostsAreFree` holds nevertheless.

## 3. The runs

| run | instance | shows |
|---|---|---|
| `sqlite_streams` | 3 batches of 6 kinds, 1 stream of 3 endpoints | types, wakeups, batches and stops; streams show committed items only, all of them, each once, initialized first; conflicting updates do not both succeed |
| `sqlite_store` | 2 batches of 3 kinds, 2 streams of 2 endpoints | every step is one of `TransactionalStore`, or none; under fairness batches are answered, streams initialized, `stopAndJoin` returns |
| `sqlite_deleted` | as `sqlite_streams` | violated: a deleted reservation comes back by a late update and no stream shows it |
| `planning` | 2 rooms, 4 dates, 3 atoms, 2 reservations | the board's invariants and queries against definitions over nights; joining atoms |
| `widget` | 2 rooms, 3 dates, 1 reservation stored, 2 interactions, 2 operations of others | board and scene show what is stored, ghosts lie beside each other and all reservations, commits fit, and no exception ends the GUI unless the storage is double-booked |
| `fas_future` | a chain of 3 | continuations run once and in order, none is lost between `resolve` and `then`, a reset lets at most one through, chains end, the executor misses no job and stops |
| `fas_stream` | a chain of 2, 3 values, 2 workers | one runner, the assertions, values in order across `get()` and `then()`, all arrives |
| `net` | 2 clients (symmetric), 1 stream, 1 batch, 1 failure | a stream's observer shows a beginning of what the server said, results come after the changes they belong to, no message waits without a write |
| `net_progress` | 1 client, 2 batches, 1 failure, an accept that fails, a stop of either side | each batch is answered with its own results unless the connection failed, nobody accepts it any more, or the race on `_tasks` lost the promise; `stopAndJoin` of client and server return, but where the server's process has ended before or a late session keeps it |
| `net_clear` | 1 client, 1 stream | violated: after an erasure a remote stream goes on showing erased items |
| `dialog` | 2 saves, 2 operations of others, a form that holds 1 adult | an accepted save changes what the user set and nothing else, the newest version is offered, saves end, no change waits |
| `dialog_merge` | the same without saves | violated: a version that arrives during a merge becomes the reference without having been merged |

Bounds. Three batches are the least that show store, change and conflicting or late change of one
object; the batches mix successes with failures after a first write. A stream's life does not depend
on other streams (each handler call names one stream), so one is enough for the content and two for
the order of starts. Three atoms in two rooms give gaps, neighbours and runs of equal rooms to join;
dates 0 to 3 give three nights, so two stays meet, touch and miss each other. In the widget an
interaction is a ghost begun or a press of the delete key: two are enough for ghosts of two kinds, a
commit and a second one before the answer to the first, and two operations of others come before,
between and after them. Three interactions with one operation of others were checked once (4,715,918
states) without finding more. A chain of three futures has a first, a middle and a last
continuation. Three values and two workers let a later value overtake an earlier one that is still
being handled, where the code would let it. Two clients are the least that see each other's changes
on the network; one failure is enough, since a connection is never made again. Two batches of one
client are the least that can be answered with each other's results, or race on `_tasks`; their results
tell which of them was executed first. A stop of both sides has been checked once (70,400 states) without
finding more. In the dialog two operations of others can overtake a save, a merge or a message box, and a second save
follows one that was refused; a third operation has been checked once (1,514,730 states) without
finding more.

A run lists the properties that say more than types. `TypeOK` is checked and proved for
`SqliteBackend` and proved for `Net` and `EditReservation`, and is part of the inductive invariants of
`FasFuture`, `FasStream` and `PlanningBoard`.

Fairness. `SqliteBackend`: the worker is a running thread, so it takes a step when it can; the
client finishes a call it has begun; the event loop applies the changes it was signalled. Nothing
makes a client queue, open, close or stop, and a spurious wakeup is possible but never owed.
`FasFuture`: the three threads go on with what they have begun. `FasStream`: the executors run their
jobs. `Net`: the threads of client and server go on, a connection is made or refused, what was
written is received unless the connection breaks, and a client or the server's owner finishes a call
it has begun (`join` returns once the thread has ended); nothing makes a connection break, and nothing
makes an accept fail: `AcceptFails` is a step of the environment, outside of the server's thread.
`EditReservation`: the event loop and the backend's thread run; a user, another client and a message
box need not do anything. The weak fairness of these groups of steps is what the operating system's
scheduler gives a thread that is ready to run.

The conditions of liveness. `BatchesAnswered` and `StreamsGetItems` except a backend that is being
stopped, `BatchesAnswered` of `Net` also a failed connection, a promise lost by the race and a client
that comes after an accept has failed, `ChainCompletes` a stopped executor and `AllArrives` a canceled
stream: in these cases the code drops what is left. Of the first, `backend.h:50` says otherwise: a future "will eventually contain
the result of the operations", yet a batch in `_operationsQueue` when `stopAndJoin` sets its flag is
never executed (`sqlitebackend.cpp:310`), and whoever waits on its future waits forever.
The same line makes no exception for a connection that cannot be made or breaks, nor for the race on
`_tasks`: the client resolves nothing when a connection fails (`netclientbackend.cpp:124`, `:157`), and a
promise that the race has lost is gone.

`ResetPreventsStart` has a condition, too: `future.h:178` says that continuations which have not started
are guaranteed not to be executed, yet a job looks at the token first and calls the function then
(`future.h:134`). What the code keeps is that a reset lets at most this one through, and the chain ends
behind it.

`ServerStopReturns` has three parts, for the two things that can keep `stopAndJoin` from returning. Once
the owner waits, it returns, or the process ends by a reset connection, or there is a session in `late`,
which the close handler has not closed. When the close handler has run and no session is late it
returns, whatever was reset before: the closed sockets are asked for no address. With a late session it
returns when the client of that session goes, and not before, and its end is the last that may still
end the process.

## 4. The proofs

Every theorem holds for all values of the constants that satisfy the named assumptions. Each is proved
from an inductive invariant, which is a theorem too; what follows says what had to be added to a
property to make it inductive, and why.

`SqliteBackendProofs`, the threads and queues of the backend:

- `TypeCorrect`: `TypeOK`, together with `WorkerState`, which says what the place of a thread in the
  code tells about its data (no batch is taken over while it waits; outside of a transaction the
  storage is what was committed last). Types alone are not inductive: the head of `newTasks` is read
  in `execute` and `resolve`, where `WorkerState` has it non-empty.
- `WakeupIsNotLost`: `NoLostWakeup` is inductive above the types.
- `BatchesAreAccountedFor`: the futures handed out are, in order, those answered, those in `newTasks`
  and those in `_operationsQueue`, and the n-th batch in either queue holds its own promise and
  operations. `ResolvedInOrder` alone is not inductive: which promise is resolved next is only known
  from the positions in the queues. `AnswersComeInOrder` and `StopIsClean` follow from it.
- `UpdatesInvariant`: the revision of a stored object is higher than that of every successful update of
  it since the last erasure (`RaisedIn`). The savepoint is explained in this way by the batches
  committed, the storage by the operations executed. Of two successful updates of one revision, the
  second then comes after an erasure which comes after the first (`UpdatesDoNotConflict`).

The same module on what observers show (`StreamInvariant`): a log that shows what the storage holds
still does so after an operation has changed the storage and the log has got what the operation means to
its stream (`OperationFollowed`). `StreamsFollow` says of each stream which database its log shows: the
savepoint, or the storage once the changes of the open transaction are added; `StreamPlaces` where a
stream is between `createStream` and its initialization, `TransactionStart` that no change is pending
when a transaction begins. `NoItemIsStale`, `NoItemIsMissing` and `ItemsAreAddedOnce` are what this
means for the three properties of the run.

The same module on the refinement (`StoreIsImplemented`): each step of either thread is a step of
`TransactionalStore` or leaves it as it is. `StoreInvariant` adds to the invariants above that an open
transaction is the store's own run of the batch, as far as it is (`TransactionRuns`), and that an item
which a stream misses among what it showed was deleted or updated by the batch (`StreamMisses`): this is
what `Follows` of the store asks at the commit. The theorem states `ImplementsStore`, which is the safety
of the store; its fairness is checked by `sqlite_store`.

`FasFutureProofs` (`ChainInvariant`): exactly one thread, job or state has the right to go on with the
chain, and it is at the one link whose future is resolved and whose continuation has not been called
(`OneContinuation`). What has been called, and in which order, is known from this frontier
(`FunctionsCalled`). `ChainRunsInOrder` follows with `NoContinuationIsLost`, and `JobIsNotLost`, which is about the executor alone: its
thread does not wait while there is a job or the quit flag, unless the thread which put it there is about
to notify. `NoContinuationIsLost` is about the chain: a continuation which was chained and whose future is
resolved is, until its own result is there, with one thread on its way to the executor, or is the one job
there, or runs. That nobody else has it follows from the one right to go on; that somebody has it, from
the frontier: the links before it have results, those after it are not resolved. `ResetStopsTheChain`
needs types only: a token stays canceled, and without a job between its look at the token and the function
no later job gets there.

`FasStreamProofs` (`RunnerInvariant`): at each stage whoever runs the continuation, a frame of a thread
or a job of the executor, is alone, and the state is locked for it; where values wait and a
continuation is there, somebody runs. `OneRunnerAtATime` includes that no assertion of `fas` fails.
`ValuesKeepTheirOrder` follows the values stage by stage: there are numbers of values popped from each
queue (`ValuesFlow`) such that a queue holds the values from there on, in order, a callback has the one
that was popped last, and the client has got those before. These numbers are not in the code; the
invariant says that they exist.

`NetProofs` (`NetInvariant`), with the server's end at any moment among its steps: `NetTypes`, all variables of clients, server and connections;
`NoMessageIsStuck`, from what a pending write says about the queue behind it; and
`ResultsBelongToTheBatch`, which follows a batch from the client's queues to the storage. The messages on
the way from a client (posted, unsubmitted, written, received by the server) form one list (`OnTheWay`):
a step moves the joints of the list and takes off an end, but changes no places in it, so the batches in
it stay numbered in the order of their futures, and each batch executed is the one its number says.
`ResultsKnown` then has every result, wherever it is on its way back, be that of this one execution.
The proof holds for either outcome of the race on `_tasks`, which can lose a promise but not mix two up.

`NetStreamsProofs`, the streams of the network, has three invariants, one above the other.
`StreamsInvariant` says where streams are: the messages on the way from a client which open streams are
numbered in the order in which the client made them and are of streams which the server does not have yet
(`StreamPlaces`), so none is opened twice (`OpenedOnce`); and the session of a connection that stands holds
each stream that is observed (`SessionsStand`). `FollowInvariant`: what a client has received of such a
stream, what is on the way to it, and a rest are together what the backend put on the stream, and while the
connection stands the rest is what the server's change queue has of it (`Following`). A step moves the
joints of this list, as it does for batches; a connection that breaks leaves the rest to nobody, which is
all that can be missing. `ClientsFollowStreams` follows. `AnswersInvariant` adds an order: wherever the
results of a batch are (at the client, sent, posted on the server), the changes which the batch put on the
client's streams are ahead of them (`AnswersFollow`). The two ways to the server's thread do not make it
so by themselves: changes wait in a queue for a handler, the answer is a handler of its own. What keeps
the order is that changes which wait have a handler that waits as well (`AppliesPosted`), and that this
handler was posted before the answer. `ClientsReadTheirWrites` is what this means at the client.

`PlanningProofs` (`BoardInvariant`), for any rooms, any dates with their gaps, and reservations of any
length: the reservations on the board are valid, each at an address of its own, and the row of a room
consists of the pointers to their atoms in this room, one beside the other (`IsBoard`, `IsRowOf`).
Neither `NoDoubleBooking` nor `RowsPointToReservations` is inductive without the other:
`canAddReservation` looks at rows only, so what it finds says something of the reservations as long as
the rows have their atoms, and `insertAtom` keeps a row side by side only if what it inserts meets
nothing in it. `SortedRow` says what `std::sort` does: it permutes a row and orders it. The loops over the
atoms of a reservation are followed one atom at a time (`AtomsAdded`, `AtomsErased`). `QueriesAreRight`
then needs the ends of rows only: the first atom that ends after a date has the first night taken
(`AvailableDays`), and the earliest front and the latest back belong to the first and the last stay
(`ExtentOfBoard`). `JoiningIsSafe` is about one call: `IsJoined` says what the loop of
`joinAdjacentAtoms` has made of the first atoms.

The same module goes on with the widget: `GhostsStayFree`, whatever the storage holds first and other
clients store. `GhostInv` adds four things to `IsBoard`. `NightsFree` is the property, night by night.
`ToolsApart`: a tool that is not active has no ghosts, so a drawn ghost never meets one that is moved.
`HeldOnBoard`: while the Move tool has a reservation in hand, the reservation it was copied from is on
the board and differs from the copy in the room of one atom at most; otherwise dragging the atom back to
where it came from could put it on somebody else's night. Nothing in the tool makes it so: it holds
since the removal of that reservation takes the ghost's item for that of the reservation
(`RemoveItem`), which leaves a pointer that dangles, and the model does not follow the program further.
`BoardInScene`, that every reservation has its item in the scene, is what makes that step visible. What is
drawn is free by `MaximumDate`: `computeMaximumDate` compares the first night taken by a reservation with
the beginnings of the ghosts after the press, and no ghost has the night of the press itself. A
reservation that arrives meets no ghost afterwards because `reservationAdded` drops those it meets
(`GhostsLeft`).

Last, the widget and the storage (`WidgetFollows`), for any other clients and any numbers of everything:
the changes which the stream has put and the widget has not handled are a path from the reservations the
board shows to those which are stored (`Leads`, `BoardFollows`). Every change on it says what it does to
the entries before it (`Follows`): what is added is new, what is updated or removed is of one id. While
the storage books nothing twice, no place on the path is booked twice either (`Fits`). The backend puts
an operation's changes on the path's end (`OperationLeads`, `BatchLeads`); the widget takes its first
change, one reservation at a time, off the beginning. For `ReservationsUpdated` the path is
rerouted: between the removal and the addition the board has lost the reservation, and what is left of
the change is an addition (`RemovedFollows`). Four properties come of it.

- `BoardMirrorsStorage`: a path without changes begins where it ends, and since no id is on the board
  twice (`EachOnceOn`) the two sides have as many reservations.
- `BoardTakesEveryChange`: the place after an addition has no night twice, so `canAddReservation` says yes
  (`ApartCanBeAdded`), which takes that the rows mirror the reservations. What the tools commit must be valid
  for this, even if another client's reservation arrived in between (`ToolsSound`, `RequestsSound`).
- `SceneFollowsBoard`: an addition and a removal change the board and the scene together. A removal by id
  takes one item out of the scene because the board has one reservation of the id. `SceneMirrorsStorage` is this and
  `BoardMirrorsStorage` together.
- `CommitsAlwaysFit`: a path without changes has the board show what is stored, so ghosts which lie
  beside the reservations on the board (`NightsFree`) lie beside those in the storage, and can be stored
  one after the other (`DrawnFit`). A moved reservation is beside all but its own copy on the board, and
  the update takes that one's place (`UpdateFits`); joining atoms keeps nights and dates (`JoinedNights`).

`EditReservationProofs` (`DialogInvariant`), for any fields and any number of saves and of operations of
others. What the backend has told and the dialog does not know yet is in three queues, one behind the
other: `outbox` at the backend, `changeList`, and what `applyStreamChanges` has swapped out (`applying`).
Most of the invariant says what can be in them. `QueuesBegin` and `DialogBegins`: the item and then
`initialized` are the first things told, and until they are the dialog can do nothing. `OneSave`: the one
save is in one place, its result comes after the request is gone and before the dialog can be used again,
or is never looked at. `MainThreadPlaces` and `UiInv` say what the place of the main thread and the
buttons tell about the versions.

- `NoWakeupIsLost` needs nothing of the dialog, but one thing more of the integrator: a flag that is set
  has its event posted, or about to be (`FlagIsAnswered`).
- `FormShowsReference`: while the user is asked about conflicts the form does not follow the reference
  version, but the merge does the newest one, as far as it is (`MergesNewest`).
- `SavesKeepOthersChanges`: each version the dialog holds, is told or saves is the stored one or older,
  and equal to it if the revision is the same (`VersionsKnown`). So a save which the backend accepts, by
  its revision, was made from what is stored.
- `DialogOffersNewest`: unless the reservation is lost to the dialog, or will be (`Lost`), what the dialog
  shows is led to what is stored by the news in the queues (`Chain`): the last news in a queue is what the
  dialog has once the queue is empty. Each step moves a joint of this chain or puts on its end what it
  stores. Nothing under way means three empty queues, so the two ends are the same.

`BackendOperationsProofs` holds the lemmas these proofs share: that an operation takes a database to a
database and produces changes, and what an observer makes of one more change. The latter is about
`View`, which is defined by recursion over the log. The library's induction theorems take an operator as
a parameter and cannot be used; the same induction, stated with a set of numbers instead of an operator,
follows from the well-foundedness of the strict inclusion of finite sets (`SetInduction`), and gives
`View` and the other recursive functions their defining equations.

Assumptions. `BackendAssumption`: batches are sequences of operations, endpoints are endpoints, bounds
are natural numbers. `AtomsAssumption`: a reservation that is stored or updated has an atom; the GUI
commits no others (`Reservation::isValid`), and the storage's load, which joins a reservation with its
atoms, would not find it, so a stream that is opened later would miss it. `ContinuationsAssumption` and
`StreamAssumption`: a chain has a link, bounds are natural numbers, and no thread of the executor is the
client's or the producer's. `NetAssumption`: as `BackendAssumption`, with finitely many clients.
`DatesAssumption` and `BoardAssumption`: dates are integers, ids and bounds natural numbers.
`ToolsAssumption`: the days which boost knows, from 1400 to 9999, are fewer than the largest `int`, which
stands for a room that stays free; only reservations are stored. `WidgetAssumption`: addresses are
numbers, and what is stored first and by others are valid reservations, though they may overlap each
other. The code makes no others: `addAtom` (`reservation.cpp:23`) throws for a null range and for one that
does not follow the last, `addContinuation` begins where the last atom ends, reservations from JSON and
from SQLite are put together by these (`jsonserializer.cpp:106`, `sqlitestorage.cpp:195`), and the tool
that draws them asks for `isValid` (`newreservationtool.cpp:199`). One that is not valid would end the GUI
as a double booking does.
`EditReservationAssumption`: the fields of a reservation are members of their own, so that each of them can
be set to any value it has in another reservation, or be brought into the range of its widget.

What the attempts corrected. `Follows` of `TransactionalStore` was wrong for a batch that deletes a
reservation and updates it afterwards; `sqlite_store` now has such a batch. `NoConflictingUpdates` had
been satisfied by any erasure in the batches from one update's to the other's; it now names the order
of the three operations. A few definitions (`Those` and `Calls` of the network, the prefixes of a batch)
were rewritten, with the same meaning, since the community modules' folds cannot be reasoned about; for
the same reason `std::sort` and the loops of the board are now definitions of `PlanningBoard` rather than
`SortSeq`, `SelectSeq` and folds, as are the ghosts that `reservationAdded` leaves and the operations of a
batch in the widget, and the conflicts of a merge in the dialog; they follow the code's loops more closely.
`WidgetInit` had taken the first reservations to be apart, which nothing assumes: `overlapped` now begins
with what they are. `CommitsFit` now says with a function, instead of a fold, what the batches leave.

Only model-checked: all liveness, since TLAPS has no rule for fairness. No invariant and no action
property of a run that passes is left without a theorem.

## 5. Not modelled, and the plan

The core of the system is modelled. What is left, in this order:

1. The conversion of items and operations to JSON and back, beyond which of them survive.
2. The hotels of the planning widget: rows of the layout that come and go under a ghost.

Not followed further, since the program's state is undefined or the process has ended: the widget after a
pointer dangles (a held reservation which another client updates or removes, the hazard at
`movereservationtool.cpp:89`), the server after an exception. What a spin box makes of more than ten guests
(`editreservation.h:30`) is modelled as it is; no document says what it should be, so no run claims
anything else, and `SaveKeepsOthersChanges` allows this change and no other.

Left out for good: painting and layout, which hold no state of their own; `main` functions and test
data; copy and move assignment of `PlanningBoard`, which nothing calls; failures of SQLite itself,
and with them the hazard at `sqlitestatement.cpp:35`; the dialog's assertions about a by-id stream
(`editreservation.cpp:196`), which other clients' deletes of a deleted reservation can break.
