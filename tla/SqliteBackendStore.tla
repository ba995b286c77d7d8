-------------------------- MODULE SqliteBackendStore --------------------------
(***************************************************************************)
(* SqliteBackend implements TransactionalStore: a batch is executed at the *)
(* step that commits it or rolls it back, and answered when its promise is *)
(* resolved; a stream follows the store once the worker has put its items  *)
(* on the change queue.                                                    *)
(***************************************************************************)
EXTENDS SqliteBackend, FiniteSets

\* The requests, and what the worker has made of those it has executed.
Requests == [f \in DOMAIN futures |-> futures[f].batch]
Answered == Cardinality({f \in DOMAIN futures : Resolved(f)})
Outcomes ==
  [f \in 1 .. Answered |-> futures[f].value] \o (IF workerPc = "resolve" THEN <<results>> ELSE << >>)

\* The streams on the change queue, with what their observers will show and show now.
Started == {s \in connected : IsLoaded(s)}
Feed == [s \in StreamIds |-> IF s \in Started THEN Contents(Log(s)) ELSE {}]
Shown == [s \in StreamIds |-> IF s \in connected THEN Contents(observed[s]) ELSE {}]

Store == INSTANCE TransactionalStore WITH
  db <- savepoint, requests <- Requests, outcomes <- Outcomes, answered <- Answered,
  open <- connected, started <- Started, feed <- Feed, shown <- Shown

\* The backend keeps the promises of backend.h.
ImplementsStore == Store!Spec
=============================================================================
