---------------------------------- MODULE Net ----------------------------------
(***************************************************************************)
(* Clients and the server: NetClientBackend and NetServer over             *)
(* connections that may be refused and may break.                          *)
(***************************************************************************)
EXTENDS NetClientBackend, NetServer

vars == <<wireVars, clientVars, serverVars>>

Init == WireInit /\ ClientInit /\ ServerInit

Disconnect(c) ==
  /\ link[c] = "open" /\ MayFail
  /\ Breaks(c)
  /\ UNCHANGED <<toServer, toClient, clientVars, serverVars>>

Client == \E c \in Clients : (MainThread(c) \/ CommunicationThread(c) \/ ConnectFails(c)) /\ UNCHANGED serverVars
Server == (ServerThread \/ AcceptFails \/ BackendThread \/ StopServer \/ JoinServer) /\ UNCHANGED clientVars
Network == \E c \in Clients : Disconnect(c)

\* All clients are gone.
Terminated == (\A c \in Clients : mainPc[c] = "stopped") /\ UNCHANGED vars

Stops == Cardinality({c \in Clients : mainPc[c] \in {"joining", "stopped"}})
           + (IF serverPc = "running" THEN 0 ELSE 1)

Next ==
  \/ (Client \/ Server \/ Network) /\ Stops' <= MaxStops
  \/ Terminated

Spec == Init /\ [][Next]_vars

\* The threads run: a connection is made or refused, what is posted is handled, what is written
\* arrives.  A client finishes a call it has begun.
Fairness ==
  /\ \A c \in Clients :
       /\ WF_vars((CommunicationThread(c) \/ ConnectFails(c)) /\ UNCHANGED serverVars)
       /\ WF_vars((SubmitOperations(c) \/ Join(c)) /\ UNCHANGED serverVars)
  /\ WF_vars(ServerThread /\ UNCHANGED clientVars)
  /\ WF_vars(BackendThread /\ UNCHANGED clientVars)
  /\ WF_vars(JoinServer /\ UNCHANGED clientVars)

FairSpec == Spec /\ Fairness

-----------------------------------------------------------------------------
(* Properties *)

\* Every variable has its type.
TypeOK == WireTypeOK /\ ClientTypeOK /\ ServerTypeOK

\* Whatever order connecting, submitting and the ends of writes come in, on either side, a
\* message never waits without a write pending, short of a broken connection.
NoMessageStuck ==
  \A c \in Clients :
    /\ unsubmitted[c] # << >> /\ link[c] = "open" => writing[c]
    /\ outgoing[c] # << >> /\ link[c] = "open" => c \in sending

WithoutClears(changes) == Those(changes, {change \in Change : Knows(change)})

\* What a client has of a stream.
Received(c, id) == observed[c][id] \o changeList[c][id]

\* What is under way to it: on the wire, in the session's queue (whose first message, if a write
\* is pending, is on the wire already) and in the change queue of the server's backend.
ChangesIn(messages, id) ==
  LET mine == Those(messages, [op : {"stream_change"}, id : {id}, change : Change])
  IN  [i \in DOMAIN mine |-> mine[i].change]

Unsent(c) == IF c \in sending THEN Tail(outgoing[c]) ELSE outgoing[c]

UnderWay(c, s) == ChangesIn(toClient[c] \o Unsent(c), opened[s].id) \o ChangesOf(s, pending)

IsConnected(s) == opened[s].id \in connected[opened[s].client]

\* An observer that was not disconnected is told what the server's backend put on its stream,
\* short of the clears which the client does not know: each change once, in order, as long as
\* the connection stands nothing missing, and afterwards nothing but an end of it.
StreamsFollowServer ==
  \A s \in DOMAIN opened :
    LET c == opened[s].client
        received == Received(c, opened[s].id)
    IN  IsConnected(s) =>
          /\ IsPrefix(received, WithoutClears(emitted[s]))
          /\ link[c] = "open" => received \o WithoutClears(UnderWay(c, s)) = WithoutClears(emitted[s])

\* When a client has the results of a batch, its change queue holds what the batch did to its
\* streams (the batch's changes are posted before its answer, the answer is sent after them):
\* a client that applies the changes then reads its own writes.
ReadYourWrites ==
  \A b \in executed :
    futures[b.client][b.id].ready =>
      \A s \in DOMAIN opened :
        opened[s].client = b.client /\ IsConnected(s) =>
          Len(Received(b.client, opened[s].id)) >= Len(WithoutClears(SubSeq(emitted[s], 1, b.after[s])))

\* The results a future has are those of the one execution of its batch, of the operations the
\* server could read; a batch that was never executed has no results.
ResultsAreOfTheBatch ==
  /\ \A a, b \in executed : a.client = b.client /\ a.id = b.id => a = b
  /\ \A c \in Clients : \A id \in DOMAIN futures[c] :
       futures[c][id].ready =>
         \E b \in executed : /\ b.client = c /\ b.id = id
                             /\ b.results = futures[c][id].value
                             /\ b.operations = Deserialized(futures[c][id].batch)

\* tests/test_persistence.cpp: "removing all items clears all streams".  When a client has been
\* told all that the server has to say of an open stream, it shows nothing if there is nothing.
RemovingAllItemsClearsStreams ==
  \A s \in started :
    LET c == opened[s].client
        id == opened[s].id
    IN  /\ IsConnected(s) /\ link[c] = "open"
        /\ UnderWay(c, s) = << >> /\ changeList[c][id] = << >>
        /\ Loaded(storage, opened[s].endpoint) = {}
        => Contents(observed[c][id]) = {}

Answered(c, id) == id \in DOMAIN futures[c] /\ futures[c][id].ready

\* A batch is answered, unless the connection failed, the client stopped, the race on _tasks has
\* lost its promise, or an accept has failed before the client was accepted.
BatchesAnswered ==
  \A c \in Clients : \A id \in 1 .. MaxTasks :
    id \in DOMAIN futures[c] ~>
      \/ Answered(c, id)
      \/ link[c] \in {"refused", "broken"} \/ mainPc[c] = "stopped" \/ id \in lost[c]
      \/ acceptor = "idle" /\ c \notin accepted

\* The server's stopAndJoin returns, but for two cases: the process ends before, by the address of
\* a connection that was reset, or a connection whose accept handler ran after the sessions were
\* closed keeps the server's thread running.  Once all sockets are closed neither happens any
\* more; a late connection is the last that may hold it up, and the last whose end may end the
\* process.
ServerStopReturns ==
  /\ serverPc = "joining" ~> (serverPc = "stopped" \/ service = "aborted" \/ late # {})
  /\ (serverPc = "joining" /\ acceptor = "closed" /\ late = {}) ~> serverPc = "stopped"
  /\ (serverPc = "joining" /\ acceptor = "closed" /\ \A c \in late : link[c] = "broken")
       ~> (serverPc = "stopped" \/ (service = "aborted" /\ late # {}))

\* The client's stopAndJoin returns, whatever the connection does.
StopReturns == \A c \in Clients : mainPc[c] = "joining" ~> mainPc[c] = "stopped"
=============================================================================
