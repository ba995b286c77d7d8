------------------------------- MODULE NetServer -------------------------------
(***************************************************************************)
(* server/netserver.cpp and server/netclientsession.cpp: a session for     *)
(* each client, all on one thread, which runs the io service: the handlers *)
(* of the connections, and those the backend's thread posts, in order.  A  *)
(* handler is one step.                                                    *)
(*                                                                         *)
(* The server's backend is taken at its word, as TransactionalStore states *)
(* it: it starts a stream, or executes a batch, in one step, and has       *)
(* posted what the server must do about it when the step is over.          *)
(***************************************************************************)
EXTENDS NetProtocol

VARIABLES
  serverPc,     \* where the thread that owns the server is: stopAndJoin, up to join or past it
  service,      \* NetServer::_ioService: run() goes on, has returned or has ended the process
  acceptor,     \* NetServer::_acceptor: accepting, idle since an accept has failed, or closed
  late,         \* the client whose accept handler was queued when the acceptor was closed
  accepted,     \* the clients whose connection was accepted
  receiving,    \* the sessions with a read pending
  sending,      \* the sessions with a write pending, of their first outgoing message
  outgoing,     \* NetClientSession::_outgoingMessages
  serverPosts,  \* NetServer::_ioService: the posted handlers
  storage,      \* the backend's data
  requests,     \* the batches queued in the backend
  opened,       \* the streams opened on the backend: client, its id for it, endpoint
  held,         \* those of them in a session's _streams
  started,      \* those which follow the storage
  pending,      \* the backend's ChangeQueue::_changeList
  emitted,      \* history: the changes put there so far, by stream
  executed      \* history: the batches executed, what came of them, what was emitted by then

ownerVars == <<serverPc, service, acceptor, late>>
sessionVars == <<accepted, receiving, sending, outgoing>>
backendVars == <<storage, requests, opened, held, started, pending, emitted, executed>>
serverVars == <<ownerVars, sessionVars, serverPosts, backendVars>>

ServerStreams == 1 .. MaxStreams

ServerInit ==
  /\ serverPc = "running" /\ service = "running" /\ acceptor = "accepting" /\ late = {}
  /\ accepted = {} /\ receiving = {} /\ sending = {}
  /\ outgoing = [c \in Clients |-> << >>]
  /\ serverPosts = << >>
  /\ storage = EmptyDatabase
  /\ requests = << >>
  /\ opened = << >> /\ held = {} /\ started = {}
  /\ pending = << >>
  /\ emitted = [s \in ServerStreams |-> << >>]
  /\ executed = {}

-----------------------------------------------------------------------------
(* Sessions: reading *)

\* remote_endpoint() has thrown, in a handler or in a destructor: std::terminate ends the process
\* of the server, and all its connections.
Aborts ==
  /\ service' = "aborted"
  /\ AllBreak
  /\ UNCHANGED <<serverPc, acceptor, late, sessionVars, serverPosts, backendVars, toServer, toClient>>

Accepting(c) ==
  /\ link[c] \in {"open", "broken"} /\ c \notin accepted
  /\ acceptor = "accepting" \/ c \in late

\* The handler of async_accept, and NetClientSession::start
Accept(c) ==
  /\ Accepting(c)
  /\ accepted' = accepted \cup {c}
  /\ receiving' = receiving \cup {c}
  /\ UNCHANGED <<sending, outgoing, serverPosts, backendVars, wireVars>>

\* The address of a peer that has reset the connection cannot be told; that of one which has
\* closed it in order can.
AcceptThrows(c) == Accepting(c) /\ link[c] = "broken" /\ Aborts

\* An accept that ends with an error is the last one; the kernel goes on to make connections.
AcceptFails ==
  /\ service = "running" /\ acceptor = "accepting" /\ AcceptMayFail
  /\ acceptor' = "idle"
  /\ UNCHANGED <<serverPc, service, late, sessionVars, serverPosts, backendVars, wireVars>>

\* doReadBody has read a message of this kind: it is taken off the wire.
Reads(c, op) ==
  /\ c \in receiving /\ toServer[c] # << >> /\ Head(toServer[c]).op = op
  /\ toServer' = [toServer EXCEPT ![c] = Tail(@)]
  /\ UNCHANGED <<link, toClient, sessionVars, serverPosts>>

RunCreateStream(c) ==
  /\ Reads(c, "create_stream")
  /\ opened' = Append(opened, [client   |-> c,
                               id       |-> Head(toServer[c]).id,
                               endpoint |-> Head(toServer[c]).endpoint])
  /\ held' = held \cup {Len(opened) + 1}
  /\ UNCHANGED <<storage, requests, started, pending, emitted, executed>>

StreamsOf(c) == {s \in held : opened[s].client = c}

RunRemoveStream(c) ==
  /\ Reads(c, "remove_stream")
  /\ LET gone == {s \in StreamsOf(c) : opened[s].id = Head(toServer[c]).id}
     IN  held' = held \ gone /\ started' = started \ gone
  /\ UNCHANGED <<storage, requests, opened, pending, emitted, executed>>

\* An operation on an item that is neither a hotel nor a reservation is left out of the batch.
Readable == {op \in Operation : op.op \in {"StoreNew", "Update"} => op.item.type \in Tables}
Deserialized(operations) == Those(operations, Readable)

RunScheduleOperations(c) ==
  /\ Reads(c, "schedule_operations")
  /\ requests' = Append(requests, [client     |-> c,
                                   id         |-> Head(toServer[c]).id,
                                   operations |-> Deserialized(Head(toServer[c]).operations)])
  /\ UNCHANGED <<storage, opened, held, started, pending, emitted, executed>>

\* The session ends when nothing of it is pending any more; its handles are reset.
SessionGoesOn(c) ==
  IF c \in receiving' \cup sending'
    THEN UNCHANGED <<held, started>>
    ELSE held' = held \ StreamsOf(c) /\ started' = started \ StreamsOf(c)

\* Its destructor tells the peer's address if the server has not closed the socket.
SessionThrows(c) ==
  /\ c \in (receiving \ sending) \cup (sending \ receiving) /\ link[c] = "broken"
  /\ acceptor # "closed" \/ c \in late
  /\ Aborts

SessionReadFails(c) ==
  /\ c \in receiving
  /\ RestIsLost(toServer, c)
  /\ receiving' = receiving \ {c}
  /\ UNCHANGED sending
  /\ SessionGoesOn(c)
  /\ UNCHANGED <<accepted, outgoing, serverPosts, storage, requests, opened, pending, emitted, executed,
                 link, toClient>>

-----------------------------------------------------------------------------
(* Sessions: writing *)

\* sendMessage, of the messages of each session in turn: a write starts if none waits.
SendMessages(messages) ==
  LET starts == {c \in Clients : outgoing[c] = << >> /\ messages[c] # << >>}
  IN  /\ outgoing' = [c \in Clients |-> outgoing[c] \o messages[c]]
      /\ sending' = sending \cup starts
      /\ toClient' = [c \in Clients |-> IF c \in starts THEN Written(toClient, c, Head(messages[c]))[c]
                                                        ELSE toClient[c]]

\* A mutated form of the next action: before the next message the first one is written again.
SendTwice(c) ==
  /\ c \in sending /\ link[c] = "open" /\ Len(outgoing[c]) > 1
  /\ toClient' = Written(toClient, c, Head(outgoing[c]))
  /\ outgoing' = [outgoing EXCEPT ![c] = Tail(@)]
  /\ UNCHANGED <<accepted, receiving, sending, serverPosts, backendVars, link, toServer>>

SessionWriteDone(c) ==
  /\ c \in sending /\ link[c] = "open"
  /\ outgoing' = [outgoing EXCEPT ![c] = Tail(@)]
  /\ UNCHANGED receiving
  /\ IF Len(outgoing[c]) > 1
       THEN /\ toClient' = Written(toClient, c, outgoing[c][2])
            /\ UNCHANGED <<sending, held, started>>
       ELSE /\ sending' = sending \ {c}
            /\ SessionGoesOn(c)
            /\ UNCHANGED toClient
  /\ UNCHANGED <<accepted, serverPosts, storage, requests, opened, pending, emitted, executed,
                 link, toServer>>

\* The message stays in the queue: nothing will be sent any more.
SessionWriteFails(c) ==
  /\ c \in sending /\ link[c] = "broken"
  /\ sending' = sending \ {c}
  /\ UNCHANGED receiving
  /\ SessionGoesOn(c)
  /\ UNCHANGED <<accepted, outgoing, serverPosts, storage, requests, opened, pending, emitted, executed,
                 wireVars>>

-----------------------------------------------------------------------------
(* Posted handlers *)

Posts(op) == serverPosts # << >> /\ Head(serverPosts).op = op /\ serverPosts' = Tail(serverPosts)

\* The messages which the observers of a client's streams make of the changes.
StreamMessages(c, changes) ==
  LET mine == Those(changes, [stream : StreamsOf(c), change : Change])
  IN  [i \in DOMAIN mine |-> StreamMessage(opened[mine[i].stream].id, mine[i].change)]

\* applyStreamChanges
RunApply ==
  /\ Posts("apply")
  /\ SendMessages([c \in Clients |-> StreamMessages(c, pending)])
  /\ pending' = << >>
  /\ UNCHANGED <<accepted, receiving, storage, requests, opened, held, started, emitted, executed,
                 link, toServer>>

\* The continuation that runScheduleOperations has hung on the batch's future.
RunAnswer ==
  /\ Posts("answer")
  /\ LET answer == Head(serverPosts)
     IN  SendMessages([c \in Clients |->
           IF c = answer.client /\ c \in receiving \cup sending
             THEN <<TaskResults(answer.id, answer.results)>> ELSE << >>])
  /\ UNCHANGED <<accepted, receiving, backendVars, link, toServer>>

-----------------------------------------------------------------------------
(* The backend's thread *)

\* The handler posted for each signal of the change queue.  One that directly follows another
\* one is left out: it finds no changes.
PostedApply(posts) ==
  IF posts # << >> /\ Last(posts).op = "apply" THEN posts ELSE Append(posts, [op |-> "apply"])

\* A mutated form of the next operator: the answer overtakes the changes.
AnswerFirst(changes, answer) ==
  IF changes = << >> THEN Append(serverPosts, answer) ELSE PostedApply(Append(serverPosts, answer))

PostedBatch(changes, answer) ==
  Append(IF changes = << >> THEN serverPosts ELSE PostedApply(serverPosts), answer)

OfStream(s, changes) == [i \in DOMAIN changes |-> [stream |-> s, change |-> changes[i]]]

\* The changes of a stream among those of all streams.
ChangesOf(s, changes) ==
  LET mine == Those(changes, [stream : {s}, change : Change])
  IN  [i \in DOMAIN mine |-> mine[i].change]

Emits(changes) ==
  /\ pending' = pending \o changes
  /\ emitted' = [s \in ServerStreams |-> emitted[s] \o ChangesOf(s, changes)]

StartStream(s) ==
  /\ s \in held \ started
  /\ started' = started \cup {s}
  /\ Emits(OfStream(s, Append(InitialChanges(storage, opened[s].endpoint), Initialized)))
  /\ serverPosts' = PostedApply(serverPosts)
  /\ UNCHANGED <<storage, requests, opened, held, executed, sessionVars, wireVars>>

\* The changes an operation makes to the streams that follow the storage.
Changes(db, op) ==
  FlattenSeq([s \in DOMAIN opened |->
    IF s \in started THEN OfStream(s, ChangesFor(db, op, opened[s].endpoint)) ELSE << >>])

\* A batch executed on the storage, up to its first error: after each of its operations ...
Runs(operations) ==
  LET run[n \in 0 .. Len(operations)] ==
        IF n = 0 THEN [db |-> storage, results |-> << >>, changes |-> << >>]
        ELSE LET r == run[n - 1]
                 op == operations[n]
             IN  IF Failed(r.results) THEN r
                 ELSE [db      |-> Effect(r.db, op),
                       results |-> Append(r.results, IF Succeeds(r.db, op) THEN "Successful" ELSE "Error"),
                       changes |-> r.changes \o Changes(r.db, op)]
  IN  run

\* ... and at its end.
Run(operations) ==
  LET end == Runs(operations)[Len(operations)]
  IN  IF Failed(end.results) THEN [db |-> storage, results |-> end.results, changes |-> << >>] ELSE end

ExecuteBatch ==
  /\ requests # << >>
  /\ requests' = Tail(requests)
  /\ LET r == Head(requests)
         run == Run(r.operations)
     IN  /\ storage' = run.db
         /\ Emits(run.changes)
         /\ serverPosts' = PostedBatch(run.changes, [op |-> "answer", client |-> r.client, id |-> r.id,
                                                     results |-> run.results])
         /\ executed' = executed \cup
              {[client |-> r.client, id |-> r.id, operations |-> r.operations, results |-> run.results,
                after |-> [s \in ServerStreams |-> Len(emitted'[s])]]}
  /\ UNCHANGED <<opened, held, started, sessionVars, wireVars>>

-----------------------------------------------------------------------------
(* Stopping *)

\* stopAndJoin, up to join()
StopServer ==
  /\ serverPc = "running" /\ service # "aborted"
  /\ serverPc' = "joining"
  /\ serverPosts' = Append(serverPosts, [op |-> "close"])
  /\ UNCHANGED <<service, acceptor, late, sessionVars, backendVars, wireVars>>

\* A mutated form of the next action: the sessions are not closed.
RunCloseAcceptor ==
  /\ Posts("close")
  /\ acceptor' = "closed"
  /\ link' = [c \in Clients |-> IF link[c] = "connecting" THEN "refused" ELSE link[c]]
  /\ UNCHANGED <<serverPc, service, late, sessionVars, backendVars, toServer, toClient>>

\* The handler it posts closes the acceptor and the sockets of the sessions.  Of the connections
\* which wait to be accepted, one may have its handler queued already: its session's socket is
\* not open yet, so that nobody closes it.  A session that has read a message still handles it.
RunCloseServer ==
  /\ Posts("close")
  /\ acceptor' = "closed"
  /\ late' \in {{}} \cup {{c} : c \in {d \in Clients : Accepting(d)}}
  /\ link' = [c \in Clients |-> CASE link[c] = "connecting"                -> "refused"
                                  [] link[c] = "open" /\ c \notin late'     -> "broken"
                                  [] link[c] = "open" /\ c \in late'        -> "open"
                                  [] link[c] \in {"refused", "broken"}      -> link[c]]
  /\ \E read \in SUBSET {c \in receiving : toServer[c] # << >>} :
       toServer' = [c \in Clients |-> IF c \in late' THEN toServer[c]
                                      ELSE SubSeq(toServer[c], 1, IF c \in read THEN 1 ELSE 0)]
  /\ UNCHANGED <<serverPc, service, sessionVars, backendVars, toClient>>

\* run() returns when nothing is pending and nothing posted, asked to stop or not; what is
\* posted later stays there.
ServiceRunsOut ==
  /\ acceptor # "accepting" /\ late \subseteq accepted
  /\ serverPosts = << >> /\ receiving \cup sending = {}
  /\ service' = "returned"
  /\ UNCHANGED <<serverPc, acceptor, late, sessionVars, serverPosts, backendVars, wireVars>>

\* join() returns, and the destructor that has called stopAndJoin closes what is open still.
JoinServer ==
  /\ serverPc = "joining" /\ service = "returned"
  /\ serverPc' = "stopped"
  /\ AllBreak
  /\ UNCHANGED <<service, acceptor, late, sessionVars, serverPosts, backendVars, toServer, toClient>>

-----------------------------------------------------------------------------
Handlers ==
  \/ \E c \in Clients :
       \/ Accept(c)
       \/ RunCreateStream(c) \/ RunRemoveStream(c) \/ RunScheduleOperations(c)
       \/ SessionReadFails(c)
       \/ SessionWriteDone(c) \/ SessionWriteFails(c)
  \/ RunApply \/ RunAnswer

Throws == \E c \in Clients : AcceptThrows(c) \/ SessionThrows(c)

ServerThread ==
  service = "running" /\ ((Handlers /\ UNCHANGED ownerVars) \/ Throws \/ RunCloseServer \/ ServiceRunsOut)

BackendThread ==
  /\ serverPc # "stopped" /\ service # "aborted"
  /\ ExecuteBatch \/ \E s \in ServerStreams : StartStream(s)
  /\ UNCHANGED ownerVars

ServerTypeOK ==
  /\ serverPc \in {"running", "joining", "stopped"} /\ service \in {"running", "returned", "aborted"}
  /\ acceptor \in {"accepting", "idle", "closed"} /\ late \subseteq Clients
  /\ accepted \subseteq Clients /\ receiving \subseteq accepted /\ sending \subseteq accepted
  /\ outgoing \in [Clients -> Seq(Reply)]
  /\ serverPosts \in Seq([op : {"apply", "close"}]
       \cup [op : {"answer"}, client : Clients, id : Nat, results : Seq(Status)])
  /\ storage \in Database
  /\ requests \in Seq([client : Clients, id : Nat, operations : Seq(Operation)])
  /\ opened \in Seq([client : Clients, id : Nat, endpoint : Endpoint])
  /\ started \subseteq held /\ held \subseteq DOMAIN opened
  /\ pending \in Seq([stream : ServerStreams, change : Change])
  /\ emitted \in [ServerStreams -> Seq(Change)]
  /\ executed \subseteq [client : Clients, id : Nat, operations : Seq(Operation), results : Seq(Status),
                         after : [ServerStreams -> Nat]]
=============================================================================
