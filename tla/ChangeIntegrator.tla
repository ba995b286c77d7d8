--------------------------- MODULE ChangeIntegrator ---------------------------
(***************************************************************************)
(* gui/datasourcechangeintegrator.cpp: a thread of the backend adds        *)
(* changes to the change queue; the GUI's main thread applies them in a    *)
(* handler of its event loop.  However many changes are added, one wakeup  *)
(* is under way at a time: an atomic flag says so.  (The constructor       *)
(* leaves the flag uninitialized, but clears it before it returns.)        *)
(***************************************************************************)
EXTENDS Sequences

VARIABLES
  changeList,      \* ChangeQueue::_changeList
  eventScheduled,  \* _eventScheduled
  adder,           \* where the adding thread is: past the section of addStreamChange, about to post
  events,          \* the events posted to the main thread
  integrator,      \* where the main thread is: in handleAvailableResults, past the flag
  applying         \* the changes swapped out by applyStreamChanges, not handed to observers yet

integratorVars == <<changeList, eventScheduled, adder, events, integrator, applying>>

ResultsAvailable == [kind |-> "resultsAvailable"]

IntegratorInit ==
  /\ changeList = << >> /\ applying = << >>
  /\ eventScheduled = FALSE
  /\ adder = "idle" /\ integrator = "idle"
  /\ events = << >>

-----------------------------------------------------------------------------
(* The adding thread *)

\* ChangeQueue::addStreamChange: the section under the mutex, and then ...
AddStreamChange(change) ==
  /\ adder = "idle"
  /\ changeList' = Append(changeList, change)
  /\ adder' = "added"
  /\ UNCHANGED <<eventScheduled, events, integrator, applying>>

\* ... the signal, which reaches emitResultsAvailable.
EmitResultsAvailable ==
  /\ adder = "added"
  /\ eventScheduled' = TRUE
  /\ adder' = IF eventScheduled THEN "idle" ELSE "posting"
  /\ UNCHANGED <<changeList, events, integrator, applying>>

PostResultsAvailable ==
  /\ adder = "posting"
  /\ events' = Append(events, ResultsAvailable)
  /\ adder' = "idle"
  /\ UNCHANGED <<changeList, eventScheduled, integrator, applying>>

-----------------------------------------------------------------------------
(* The main thread *)

\* A mutated form of the next action: the flag stays set.
KeepEventScheduled ==
  /\ events # << >> /\ Head(events) = ResultsAvailable
  /\ events' = Tail(events)
  /\ integrator' = "apply"
  /\ UNCHANGED <<changeList, eventScheduled, adder, applying>>

\* handleAvailableResults, its first line
HandleAvailableResults ==
  /\ events # << >> /\ Head(events) = ResultsAvailable
  /\ events' = Tail(events)
  /\ eventScheduled' = FALSE
  /\ integrator' = "apply"
  /\ UNCHANGED <<changeList, adder, applying>>

\* applyStreamChanges, up to the swap under the mutex: changes of a stream without an
\* observer go nowhere.
ApplyStreamChanges(hasObserver) ==
  /\ integrator = "apply"
  /\ applying' = IF hasObserver THEN changeList ELSE << >>
  /\ changeList' = << >>
  /\ integrator' = "idle"
  /\ UNCHANGED <<eventScheduled, adder, events>>

-----------------------------------------------------------------------------
\* The wakeup is not lost: as long as changes are in the queue, the main thread is about to take
\* them out, a wakeup is posted, or the adding thread has yet to see whether one is needed.
NoChangeWaits ==
  changeList # << >> =>
    adder # "idle" \/ integrator = "apply" \/ \E i \in DOMAIN events : events[i] = ResultsAvailable
=============================================================================
