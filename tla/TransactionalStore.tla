-------------------------- MODULE TransactionalStore --------------------------
(***************************************************************************)
(* What persistence/backend.h promises a client, without threads, queues   *)
(* or change lists: requests are executed one after the other, each as a   *)
(* transaction that happens entirely or not at all; an open stream follows *)
(* the store; an answer comes when the streams already know its effect, so *)
(* a client that refreshes after an answer reads its own writes.           *)
(***************************************************************************)
EXTENDS BackendOperations

CONSTANTS Batches, Endpoints, MaxTasks, MaxStreams

StreamIds == 1 .. MaxStreams

VARIABLES
  db,         \* the committed data
  requests,   \* the batches requested so far
  outcomes,   \* the results of those which were executed
  answered,   \* how many results their clients have
  streams,    \* the endpoints of the streams opened so far
  open,       \* the streams which have not been closed
  started,    \* the open streams which follow the store
  feed,       \* what an observer will show once it is refreshed
  shown       \* what an observer shows

storeVars == <<db, requests, outcomes, answered, streams, open, started, feed, shown>>

Nothing == [s \in StreamIds |-> {}]

Init ==
  /\ db = EmptyDatabase
  /\ requests = << >> /\ outcomes = << >> /\ answered = 0
  /\ streams = << >> /\ open = {} /\ started = {}
  /\ feed = Nothing /\ shown = Nothing

\* The storage and the results of a transaction after one more operation.
AfterOperation(run, op) ==
  IF Failed(run.results) THEN run
  ELSE [db      |-> Effect(run.db, op),
        results |-> Append(run.results, IF Succeeds(run.db, op) THEN "Successful" ELSE "Error")]

\* ... after each operation of a batch that is run on a database, and after all of them.
Runs(data, batch) ==
  LET run[n \in 0 .. Len(batch)] ==
        IF n = 0 THEN [db |-> data, results |-> << >>] ELSE AfterOperation(run[n - 1], batch[n])
  IN  run

Run(data, batch) == Runs(data, batch)[Len(batch)]

\* An observer's copy of a hotel collects rooms and categories with every update.
SameItem(a, b) ==
  [a EXCEPT !.parts = << >>] = [b EXCEPT !.parts = << >>] /\ (a.type = "Reservation" => a.parts = b.parts)

\* A batch deletes the object with an id.
Deletes(batch, id) == \E n \in DOMAIN batch : batch[n].op = "Delete" /\ batch[n].id = id

\* A view that followed the store through a batch to data.  Every item it has is current, and
\* it has every item but deleted ones which were updated: an update carries no new items.
Follows(view, old, data, batch, e) ==
  /\ \A i \in view : \E j \in Loaded(data, e) : SameItem(i, j)
  /\ \A j \in Loaded(data, e) :
       \/ \E i \in view : SameItem(i, j)
       \/ j.revision > 1 /\ (Deletes(batch, j.id) \/ \A i \in old : i.id # j.id)

Request(batch) ==
  /\ Len(requests) < MaxTasks
  /\ requests' = Append(requests, batch)
  /\ UNCHANGED <<db, outcomes, answered, streams, open, started, feed, shown>>

Execute ==
  /\ Len(outcomes) < Len(requests)
  /\ LET batch == requests[Len(outcomes) + 1]
         run == Run(db, batch)
     IN  /\ outcomes' = Append(outcomes, run.results)
         /\ IF Failed(run.results)
              THEN UNCHANGED <<db, feed>>
              ELSE /\ db' = run.db
                   /\ \A s \in started : Follows(feed'[s], feed[s], run.db, batch, streams[s])
                   /\ \A s \in StreamIds \ started : feed'[s] = feed[s]
  /\ UNCHANGED <<requests, answered, streams, open, started, shown>>

Answer ==
  /\ answered < Len(outcomes)
  /\ answered' = answered + 1
  /\ UNCHANGED <<db, requests, outcomes, streams, open, started, feed, shown>>

OpenStream(e) ==
  /\ Len(streams) < MaxStreams
  /\ streams' = Append(streams, e)
  /\ open' = open \cup {Len(streams) + 1}
  /\ UNCHANGED <<db, requests, outcomes, answered, started, feed, shown>>

StartStream(s) ==
  /\ s \in open \ started
  /\ started' = started \cup {s}
  /\ feed' = [feed EXCEPT ![s] = Loaded(db, streams[s])]
  /\ UNCHANGED <<db, requests, outcomes, answered, streams, open, shown>>

CloseStream(s) ==
  /\ s \in open
  /\ open' = open \ {s}
  /\ started' = started \ {s}
  /\ feed' = [feed EXCEPT ![s] = {}]
  /\ shown' = [shown EXCEPT ![s] = {}]
  /\ UNCHANGED <<db, requests, outcomes, answered, streams>>

Refresh ==
  /\ shown' = feed
  /\ UNCHANGED <<db, requests, outcomes, answered, streams, open, started, feed>>

Next ==
  \/ \E batch \in Batches : Request(batch)
  \/ Execute
  \/ Answer
  \/ \E e \in Endpoints : OpenStream(e)
  \/ \E s \in StreamIds : StartStream(s) \/ CloseStream(s)
  \/ Refresh

Spec == Init /\ [][Next]_storeVars
=============================================================================
