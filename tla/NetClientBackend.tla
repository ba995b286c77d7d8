--------------------------- MODULE NetClientBackend ---------------------------
(***************************************************************************)
(* persistence/net/netclientbackend.cpp: the backend of a program that     *)
(* works on a server's data.  The main thread (the GUI's) numbers batches  *)
(* and streams and posts messages; the communication thread runs the io    *)
(* service: the posted handlers, in order, and the handlers of the         *)
(* connection, of the read and of the write that are pending.  A handler   *)
(* is one step.                                                            *)
(*                                                                         *)
(* The map _tasks is used by both threads without a mutex: emplace takes   *)
(* two steps here, and a task_results handled between them may find the    *)
(* map in disorder and lose an entry.                                      *)
(***************************************************************************)
EXTENDS NetProtocol

VARIABLES
  status,       \* _status
  posted,       \* _ioService: the posted handlers
  running,      \* _ioService: run() has not returned
  reading,      \* a read is pending
  writing,      \* a write is pending, of the first unsubmitted message
  unsubmitted,  \* _unsubmittedMessages
  tasks,        \* the ids in _tasks
  lost,         \* the ids whose entry the race on _tasks has destroyed
  mainPc,       \* where the main thread is
  futures,      \* the futures handed out, by id
  streams,      \* the endpoints of the streams opened, by id
  connected,    \* the ids of those with an observer
  tracked,      \* ChangeQueue::_dataStreams
  changeList,   \* ChangeQueue::_changeList, by stream
  observed      \* the calls made to the observer of each stream

commVars == <<status, posted, running, reading, writing, unsubmitted>>
taskVars == <<tasks, lost, futures>>
streamVars == <<streams, connected, tracked, changeList, observed>>
clientVars == <<commVars, taskVars, streamVars, mainPc>>

StreamIds == 1 .. MaxStreams

ClientInit ==
  /\ status = [c \in Clients |-> "Connecting"]
  /\ posted = [c \in Clients |-> << >>]
  /\ running = [c \in Clients |-> TRUE]
  /\ reading = [c \in Clients |-> FALSE]
  /\ writing = [c \in Clients |-> FALSE]
  /\ unsubmitted = [c \in Clients |-> << >>]
  /\ tasks = [c \in Clients |-> {}]
  /\ lost = [c \in Clients |-> {}]
  /\ mainPc = [c \in Clients |-> "idle"]
  /\ futures = [c \in Clients |-> << >>]
  /\ streams = [c \in Clients |-> << >>]
  /\ connected = [c \in Clients |-> {}]
  /\ tracked = [c \in Clients |-> {}]
  /\ changeList = [c \in Clients |-> [s \in StreamIds |-> << >>]]
  /\ observed = [c \in Clients |-> [s \in StreamIds |-> << >>]]

\* The bounds count the calls of all clients.
Calls(f) == Cardinality(UNION {{c} \X DOMAIN f[c] : c \in Clients})

MayFail == Cardinality({c \in Clients : link[c] \in {"refused", "broken"}}) < MaxFailures

-----------------------------------------------------------------------------
(* The main thread *)

Post(c, message) == posted' = [posted EXCEPT ![c] = Append(@, message)]
Goes(c, pc) == mainPc' = [mainPc EXCEPT ![c] = pc]

\* queueOperations: the promise goes into _tasks ...
QueueOperations(c, batch) ==
  /\ mainPc[c] = "idle" /\ Calls(futures) < MaxTasks
  /\ futures' = [futures EXCEPT ![c] = Append(@, [batch |-> batch, ready |-> FALSE, value |-> << >>])]
  /\ Goes(c, "emplacing")
  /\ UNCHANGED <<commVars, tasks, lost, streamVars, wireVars>>

\* A mutated form of the next action: all messages carry the same number.
SubmitUnnumbered(c) ==
  /\ mainPc[c] = "emplacing"
  /\ tasks' = [tasks EXCEPT ![c] = @ \cup ({Len(futures[c])} \ lost[c])]
  /\ Post(c, ScheduleOperations(1, futures[c][Len(futures[c])].batch))
  /\ Goes(c, "idle")
  /\ UNCHANGED <<status, running, reading, writing, unsubmitted, lost, futures, streamVars, wireVars>>

\* ... and the message to the io service.
SubmitOperations(c) ==
  /\ mainPc[c] = "emplacing"
  /\ LET id == Len(futures[c])
     IN  /\ tasks' = [tasks EXCEPT ![c] = @ \cup ({id} \ lost[c])]
         /\ Post(c, ScheduleOperations(id, futures[c][id].batch))
  /\ Goes(c, "idle")
  /\ UNCHANGED <<status, running, reading, writing, unsubmitted, lost, futures, streamVars, wireVars>>

CreateStream(c, e) ==
  /\ mainPc[c] = "idle" /\ Calls(streams) < MaxStreams
  /\ LET id == Len(streams[c]) + 1
     IN  /\ streams' = [streams EXCEPT ![c] = Append(@, e)]
         /\ connected' = [connected EXCEPT ![c] = @ \cup {id}]
         /\ tracked' = [tracked EXCEPT ![c] = @ \cup {id}]
         /\ Post(c, CreateStreamMessage(id, e))
  /\ UNCHANGED <<status, running, reading, writing, unsubmitted, taskVars, changeList, observed,
                 mainPc, wireVars>>

\* UniqueDataStreamHandle::reset, with removeStream
ResetHandle(c, s) ==
  /\ mainPc[c] = "idle" /\ s \in connected[c]
  /\ connected' = [connected EXCEPT ![c] = @ \ {s}]
  /\ Post(c, RemoveStreamMessage(s))
  /\ UNCHANGED <<status, running, reading, writing, unsubmitted, taskVars, streams, tracked, changeList,
                 observed, mainPc, wireVars>>

ApplyStreamChanges(c) ==
  /\ mainPc[c] = "idle"
  /\ tracked' = [tracked EXCEPT ![c] = @ \cap connected[c]]
  /\ observed' = [observed EXCEPT ![c] =
       [s \in StreamIds |-> IF s \in tracked'[c] THEN @[s] \o changeList[c][s] ELSE @[s]]]
  /\ changeList' = [changeList EXCEPT ![c] = [s \in StreamIds |-> << >>]]
  /\ UNCHANGED <<commVars, taskVars, streams, connected, mainPc, wireVars>>

\* stopAndJoin, up to join()
Stop(c) ==
  /\ mainPc[c] = "idle"
  /\ Post(c, [op |-> "close"])
  /\ Goes(c, "joining")
  /\ UNCHANGED <<status, running, reading, writing, unsubmitted, taskVars, streamVars, wireVars>>

Join(c) ==
  /\ mainPc[c] = "joining" /\ ~running[c]
  /\ Goes(c, "stopped")
  /\ UNCHANGED <<commVars, taskVars, streamVars, wireVars>>

-----------------------------------------------------------------------------
(* The communication thread *)

\* doSumitMessages, when message is the first one
StartWrite(c, message) ==
  /\ writing' = [writing EXCEPT ![c] = TRUE]
  /\ toServer' = Written(toServer, c, message)
  /\ UNCHANGED <<link, toClient>>

\* A mutated form of the next action: no write is started if none is pending.
QueueMessage(c) ==
  /\ running[c] /\ posted[c] # << >> /\ Head(posted[c]).op # "close"
  /\ posted' = [posted EXCEPT ![c] = Tail(@)]
  /\ unsubmitted' = [unsubmitted EXCEPT ![c] = Append(@, Head(posted[c]))]
  /\ UNCHANGED <<status, running, reading, writing, taskVars, streamVars, mainPc, wireVars>>

\* The handler that submit() posts.
RunSubmit(c) ==
  /\ running[c] /\ posted[c] # << >> /\ Head(posted[c]).op # "close"
  /\ posted' = [posted EXCEPT ![c] = Tail(@)]
  /\ unsubmitted' = [unsubmitted EXCEPT ![c] = Append(@, Head(posted[c]))]
  /\ IF unsubmitted[c] = << >> /\ status[c] = "Connected"
       THEN StartWrite(c, Head(posted[c]))
       ELSE UNCHANGED <<writing, wireVars>>
  /\ UNCHANGED <<status, running, reading, taskVars, streamVars, mainPc>>

\* A mutated form of the next action: only a connection that was made is closed.
CloseConnected(c) ==
  /\ running[c] /\ posted[c] # << >> /\ Head(posted[c]).op = "close"
  /\ posted' = [posted EXCEPT ![c] = Tail(@)]
  /\ IF status[c] = "Connected"
       THEN Breaks(c) /\ reading' = [reading EXCEPT ![c] = FALSE] /\ writing' = [writing EXCEPT ![c] = FALSE]
       ELSE UNCHANGED <<link, reading, writing>>
  /\ UNCHANGED <<status, running, unsubmitted, taskVars, streamVars, mainPc, toServer, toClient>>

\* The handler that stopAndJoin posts; the handlers of what was pending do nothing more.
RunClose(c) ==
  /\ running[c] /\ posted[c] # << >> /\ Head(posted[c]).op = "close"
  /\ posted' = [posted EXCEPT ![c] = Tail(@)]
  /\ status' = [status EXCEPT ![c] = IF @ = "Connecting" THEN "NotConnected" ELSE @]
  /\ reading' = [reading EXCEPT ![c] = FALSE]
  /\ writing' = [writing EXCEPT ![c] = FALSE]
  /\ Breaks(c)
  /\ toClient' = [toClient EXCEPT ![c] = << >>]
  /\ UNCHANGED <<running, unsubmitted, taskVars, streamVars, mainPc, toServer>>

\* A mutated form of the next action: messages that wait already are not looked at.
ConnectedOnly(c) ==
  /\ running[c] /\ status[c] = "Connecting" /\ link[c] = "connecting"
  /\ status' = [status EXCEPT ![c] = "Connected"]
  /\ link' = [link EXCEPT ![c] = "open"]
  /\ reading' = [reading EXCEPT ![c] = TRUE]
  /\ UNCHANGED <<posted, running, writing, unsubmitted, taskVars, streamVars, mainPc, toServer, toClient>>

\* socketConnected: messages may wait already.
SocketConnected(c) ==
  /\ running[c] /\ status[c] = "Connecting" /\ link[c] = "connecting"
  /\ status' = [status EXCEPT ![c] = "Connected"]
  /\ link' = [link EXCEPT ![c] = "open"]
  /\ reading' = [reading EXCEPT ![c] = TRUE]
  /\ IF unsubmitted[c] # << >>
       THEN /\ writing' = [writing EXCEPT ![c] = TRUE]
            /\ toServer' = [toServer EXCEPT ![c] = <<Head(unsubmitted[c])>>]
       ELSE UNCHANGED <<writing, toServer>>
  /\ UNCHANGED <<posted, running, unsubmitted, taskVars, streamVars, mainPc, toClient>>

\* Nobody tries again.
ConnectFails(c) ==
  /\ running[c] /\ status[c] = "Connecting" /\ (MayFail \/ link[c] = "refused")
  /\ status' = [status EXCEPT ![c] = "NotConnected"]
  /\ link' = [link EXCEPT ![c] = "refused"]
  /\ UNCHANGED <<posted, running, reading, writing, unsubmitted, taskVars, streamVars, mainPc,
                 toServer, toClient>>

WriteDone(c) ==
  /\ running[c] /\ writing[c] /\ link[c] = "open"
  /\ unsubmitted' = [unsubmitted EXCEPT ![c] = Tail(@)]
  /\ IF Len(unsubmitted[c]) > 1
       THEN StartWrite(c, unsubmitted[c][2])
       ELSE writing' = [writing EXCEPT ![c] = FALSE] /\ UNCHANGED wireVars
  /\ UNCHANGED <<status, posted, running, reading, taskVars, streamVars, mainPc>>

\* "TODO: Handle error..."
WriteFails(c) ==
  /\ running[c] /\ writing[c] /\ link[c] = "broken"
  /\ writing' = [writing EXCEPT ![c] = FALSE]
  /\ UNCHANGED <<status, posted, running, reading, unsubmitted, taskVars, streamVars, mainPc, wireVars>>

ReadFails(c) ==
  /\ running[c] /\ reading[c]
  /\ RestIsLost(toClient, c)
  /\ reading' = [reading EXCEPT ![c] = FALSE]
  /\ UNCHANGED <<status, posted, running, writing, unsubmitted, taskVars, streamVars, mainPc, link, toServer>>

\* processMessage knows the changes of a stream but "stream_clear"; what it does not know it drops.
Knows(change) == change.kind # "cleared"

ReceiveMessage(c) ==
  /\ running[c] /\ reading[c] /\ toClient[c] # << >>
  /\ toClient' = [toClient EXCEPT ![c] = Tail(@)]
  /\ Head(toClient[c]).op = "stream_change"
  /\ LET message == Head(toClient[c])
     IN  changeList' = IF Knows(message.change)
                         THEN [changeList EXCEPT ![c][message.id] = Append(@, message.change)]
                         ELSE changeList
  /\ UNCHANGED <<commVars, taskVars, streams, connected, tracked, observed, mainPc, link, toServer>>

\* What may get lost when the main thread is inside emplace: nothing, the entry looked for, or
\* the new one.
Races(c, id) == IF mainPc[c] = "emplacing" THEN {{}, {id}, {Len(futures[c])}} ELSE {{}}

ReceiveResults(c) ==
  /\ running[c] /\ reading[c] /\ toClient[c] # << >>
  /\ toClient' = [toClient EXCEPT ![c] = Tail(@)]
  /\ Head(toClient[c]).op = "task_results"
  /\ LET id == Head(toClient[c]).id
         found(gone) == id \in tasks[c] \ gone
     IN  \E gone \in Races(c, id) :
           /\ lost' = [lost EXCEPT ![c] = @ \cup gone]
           /\ tasks' = [tasks EXCEPT ![c] = @ \ ({id} \cup gone)]
           /\ futures' = IF found(gone)
                           THEN [futures EXCEPT ![c][id].ready = TRUE,
                                                ![c][id].value = Head(toClient[c]).results]
                           ELSE futures
  /\ UNCHANGED <<commVars, streamVars, mainPc, link, toServer>>

\* run() returns when nothing is pending and nothing posted; what is posted later stays there.
IoServiceRunsOut(c) ==
  /\ running[c] /\ posted[c] = << >> /\ status[c] # "Connecting" /\ ~reading[c] /\ ~writing[c]
  /\ running' = [running EXCEPT ![c] = FALSE]
  /\ UNCHANGED <<status, posted, reading, writing, unsubmitted, taskVars, streamVars, mainPc, wireVars>>

-----------------------------------------------------------------------------
MainThread(c) ==
  \/ \E batch \in Batches : QueueOperations(c, batch)
  \/ SubmitOperations(c)
  \/ \E e \in Endpoints : CreateStream(c, e)
  \/ \E s \in StreamIds : ResetHandle(c, s)
  \/ ApplyStreamChanges(c)
  \/ Stop(c)
  \/ Join(c)

CommunicationThread(c) ==
  \/ RunSubmit(c) \/ RunClose(c)
  \/ SocketConnected(c)
  \/ WriteDone(c) \/ WriteFails(c)
  \/ ReceiveMessage(c) \/ ReceiveResults(c) \/ ReadFails(c)
  \/ IoServiceRunsOut(c)

ClientTypeOK ==
  /\ status \in [Clients -> {"NotConnected", "Connecting", "Connected"}]
  /\ posted \in [Clients -> Seq(Request \cup [op : {"close"}])]
  /\ running \in [Clients -> BOOLEAN]
  /\ reading \in [Clients -> BOOLEAN] /\ writing \in [Clients -> BOOLEAN]
  /\ unsubmitted \in [Clients -> Seq(Request)]
  /\ futures \in [Clients -> Seq([batch : Seq(Operation), ready : BOOLEAN, value : Seq(Status)])]
  /\ tasks \in [Clients -> SUBSET Nat] /\ lost \in [Clients -> SUBSET Nat]
  /\ streams \in [Clients -> Seq(Endpoint)]
  /\ connected \in [Clients -> SUBSET StreamIds] /\ tracked \in [Clients -> SUBSET StreamIds]
  /\ \A c \in Clients :
       /\ tasks[c] \subseteq DOMAIN futures[c] /\ lost[c] \subseteq DOMAIN futures[c]
       /\ connected[c] \subseteq DOMAIN streams[c] /\ tracked[c] \subseteq DOMAIN streams[c]
  /\ mainPc \in [Clients -> {"idle", "emplacing", "joining", "stopped"}]
  /\ changeList \in [Clients -> [StreamIds -> Seq(Change)]]
  /\ observed \in [Clients -> [StreamIds -> Seq(Change)]]
=============================================================================
