------------------------------ MODULE NetProtocol ------------------------------
(***************************************************************************)
(* What the client's backend (persistence/net/netclientbackend.cpp) and    *)
(* the server (server/) say to each other: the messages, and the           *)
(* connection that carries them.                                           *)
(*                                                                         *)
(* The connection is external (TCP): it delivers what was written in the   *)
(* order of writing until it breaks, and loses an end of it when it        *)
(* does.  The framing (a length of 32 bits before each message) is left  *)
(* out: a message is read as a whole.                                      *)
(***************************************************************************)
EXTENDS BackendOperations, FiniteSets, SequencesExt

CONSTANTS Clients,     \* the client programs
          Batches,     \* the batches of operations a client may queue
          Endpoints,   \* the endpoints a client may open a stream on
          MaxTasks,    \* bound: batches queued in a behaviour, by all clients
          MaxStreams,  \* bound: streams opened in a behaviour, by all clients
          MaxFailures, \* bound: connections refused or broken in a behaviour
          AcceptMayFail, \* whether the server's async_accept may end with an error
          MaxStops     \* bound: programs that stop in a behaviour, the server's or clients'

ASSUME NetAssumption ==
  /\ IsFiniteSet(Clients)
  /\ Batches \subseteq Seq(Operation)
  /\ Endpoints \subseteq Endpoint
  /\ MaxTasks \in Nat /\ MaxStreams \in Nat /\ MaxFailures \in Nat /\ MaxStops \in Nat
  /\ AcceptMayFail \in BOOLEAN

VARIABLES
  link,      \* the connection of each client
  toServer,  \* what was written by a client and not read yet by its session
  toClient   \* what was written by a session and not read yet by its client

wireVars == <<link, toServer, toClient>>

\* Streams and batches are numbered by each client for itself, from 1.
CreateStreamMessage(id, e)  == [op |-> "create_stream", id |-> id, endpoint |-> e]
RemoveStreamMessage(id)     == [op |-> "remove_stream", id |-> id]
ScheduleOperations(id, ops) == [op |-> "schedule_operations", id |-> id, operations |-> ops]
StreamMessage(id, change)   == [op |-> "stream_change", id |-> id, change |-> change]
TaskResults(id, rs)         == [op |-> "task_results", id |-> id, results |-> rs]

Request ==
  [op : {"create_stream"}, id : Nat, endpoint : Endpoint]
    \cup [op : {"remove_stream"}, id : Nat]
    \cup [op : {"schedule_operations"}, id : Nat, operations : Seq(Operation)]

Reply ==
  [op : {"stream_change"}, id : Nat, change : Change]
    \cup [op : {"task_results"}, id : Nat, results : Seq(Status)]

\* The elements of a sequence which belong to a set, in their order.
Those(seq, S) ==
  LET kept[n \in 0 .. Len(seq)] ==
        IF n = 0 THEN << >> ELSE IF seq[n] \in S THEN Append(kept[n - 1], seq[n]) ELSE kept[n - 1]
  IN  kept[Len(seq)]

WireInit ==
  /\ link = [c \in Clients |-> "connecting"]
  /\ toServer = [c \in Clients |-> << >>]
  /\ toClient = [c \in Clients |-> << >>]

WireTypeOK ==
  /\ link \in [Clients -> {"connecting", "refused", "open", "broken"}]
  /\ toServer \in [Clients -> Seq(Request)]
  /\ toClient \in [Clients -> Seq(Reply)]

\* A write of c or to c puts its bytes on the wire at once; on a broken connection they are lost.
Written(wire, c, message) == IF link[c] = "open" THEN [wire EXCEPT ![c] = Append(@, message)] ELSE wire

\* The connection of c breaks or is closed, by either side; one that is not made yet is given up.
Breaks(c) == link' = [link EXCEPT ![c] = IF @ \in {"connecting", "refused"} THEN "refused" ELSE "broken"]

\* The program at one end of all connections closes them, or ends.
AllBreak == link' = [c \in Clients |-> IF link[c] \in {"connecting", "refused"} THEN "refused" ELSE "broken"]

\* Who reads from a broken connection may still read what was under way, but at any time the
\* read fails, and the rest is lost.
RestIsLost(wire, c) == link[c] = "broken" /\ wire' = [wire EXCEPT ![c] = << >>]
=============================================================================
