------------------------------ MODULE FasFuture ------------------------------
(***************************************************************************)
(* fas/future.h and fas/future.cpp, on a ThreadedExecutor: a promise, the  *)
(* chain of continuations which a client hangs on its future with then(),  *)
(* and the cancellation token they share.                                  *)
(*                                                                         *)
(* State s of the chain is the FutureState that continuation s waits for;  *)
(* its result goes to state s + 1.  Three threads take steps: the one that *)
(* resolves the promise, the client's and the executor's.  A section under *)
(* a FutureState's mutex is one step; next() takes the continuation        *)
(* without the mutex, in a step of its own.                                *)
(***************************************************************************)
EXTENDS ThreadedExecutor

CONSTANT Continuations   \* how many continuations the client chains

ASSUME ContinuationsAssumption == Continuations \in Nat \ {0}

Stages == 1 .. Continuations
States == 1 .. Continuations + 1
Threads == {"promise", "client", "executor"}

VARIABLES
  value,     \* FutureState::_value
  cont,      \* FutureState::_cont: not chained yet, waiting for the value, or handed on
  chained,   \* how many times then() was called
  canceled,  \* CancellationTokenState::_canceled, set when the future is reset
  started,   \* the continuation functions which were called, in order
  at         \* where each thread is, and with which continuation or state

futureVars == <<value, cont, chained, canceled, started>>
vars == <<value, cont, chained, canceled, started, at, executorVars>>

Place == [pc : {"idle", "next", "continue", "spawn", "notify", "job", "start", "run", "stop", "join"},
          stage : 0 .. Continuations + 1]

Idle == [pc |-> "idle", stage |-> 0]

Init ==
  /\ value = [s \in States |-> "empty"]
  /\ cont = [k \in Stages |-> "none"]
  /\ chained = 0
  /\ canceled = FALSE
  /\ started = << >>
  /\ at = [t \in Threads |-> Idle]
  /\ ExecutorInit

IsAt(t, pc) == at[t].pc = pc
Goes(t, pc, stage) == at' = [at EXCEPT ![t] = [pc |-> pc, stage |-> stage]]
Rests(t) == at' = [at EXCEPT ![t] = Idle]

Ready(s) == value[s] # "empty"

-----------------------------------------------------------------------------
(* executeFuture and the continuations, on whichever thread gets there *)

\* next(): the thread that made a state ready takes over its continuation.
TakeNext(t) ==
  /\ IsAt(t, "next")
  /\ LET s == at[t].stage
     IN  IF s \in Stages /\ cont[s] = "set"
           THEN cont' = [cont EXCEPT ![s] = "taken"] /\ Goes(t, "continue", s)
           ELSE Rests(t) /\ UNCHANGED cont
  /\ UNCHANGED <<value, chained, canceled, started, executorVars>>

\* continueWith: a canceled continuation is skipped, and so are those after it.
Skip(t) ==
  /\ IsAt(t, "continue") /\ canceled
  /\ value' = [value EXCEPT ![at[t].stage + 1] = "canceled"]
  /\ Goes(t, "next", at[t].stage + 1)
  /\ UNCHANGED <<cont, chained, canceled, started, executorVars>>

Continue(t) ==
  /\ IsAt(t, "continue") /\ ~canceled
  /\ Goes(t, "spawn", at[t].stage)
  /\ UNCHANGED <<futureVars, executorVars>>

Spawn(t) ==
  /\ IsAt(t, "spawn")
  /\ Push(at[t].stage)
  /\ IF WakeUpThread THEN Goes(t, "notify", at[t].stage) ELSE Rests(t)
  /\ UNCHANGED futureVars

Notify(t) ==
  /\ IsAt(t, "notify")
  /\ NotifyExecutor
  /\ Rests(t)
  /\ UNCHANGED futureVars

-----------------------------------------------------------------------------
(* The executor's thread *)

TakeJob ==
  /\ PopJob
  /\ Goes("executor", "job", Head(jobs))
  /\ UNCHANGED futureVars

\* The job looks at the token ...
SkipJob ==
  /\ IsAt("executor", "job") /\ canceled
  /\ value' = [value EXCEPT ![at["executor"].stage + 1] = "canceled"]
  /\ Goes("executor", "next", at["executor"].stage + 1)
  /\ UNCHANGED <<cont, chained, canceled, started, executorVars>>

\* A mutated form of the next action: the token is asked only before the job is queued.
EnterJobUnasked ==
  /\ IsAt("executor", "job")
  /\ Goes("executor", "start", at["executor"].stage)
  /\ UNCHANGED <<futureVars, executorVars>>

EnterJob ==
  /\ IsAt("executor", "job") /\ ~canceled
  /\ Goes("executor", "start", at["executor"].stage)
  /\ UNCHANGED <<futureVars, executorVars>>

\* ... calls the continuation function ...
StartFunction ==
  /\ IsAt("executor", "start")
  /\ started' = Append(started, at["executor"].stage)
  /\ Goes("executor", "run", at["executor"].stage)
  /\ UNCHANGED <<value, cont, chained, canceled, executorVars>>

\* ... and sets the next state to its result.
FunctionReturns ==
  /\ IsAt("executor", "run")
  /\ value' = [value EXCEPT ![at["executor"].stage + 1] = "value"]
  /\ Goes("executor", "next", at["executor"].stage + 1)
  /\ UNCHANGED <<cont, chained, canceled, started, executorVars>>

FinishJob ==
  /\ IsAt("executor", "idle")
  /\ JobReturns
  /\ UNCHANGED <<futureVars, at>>

ExecutorLoops ==
  /\ WaitForJobs \/ Return
  /\ UNCHANGED <<futureVars, at>>

ExecutorWakes == WakeSpuriously /\ UNCHANGED <<futureVars, at>>

-----------------------------------------------------------------------------
(* The promise's and the client's thread *)

\* Promise::resolve, once
Resolve ==
  /\ IsAt("promise", "idle") /\ ~Ready(1)
  /\ value' = [value EXCEPT ![1] = "value"]
  /\ Goes("promise", "next", 1)
  /\ UNCHANGED <<cont, chained, canceled, started, executorVars>>

\* then(), up to the end of chain(): if the value is there already, the client's thread goes
\* on with the continuation itself.
ThenOfPending(k) ==
  /\ ~Ready(k)
  /\ cont' = [cont EXCEPT ![k] = "set"]
  /\ UNCHANGED at

\* Mutated forms of the next operator: the continuation is dropped, or the state keeps it all
\* the same.
ThenOfReadyDropped(k) ==
  /\ Ready(k)
  /\ cont' = [cont EXCEPT ![k] = "taken"]
  /\ UNCHANGED at

ThenOfReadyKept(k) ==
  /\ Ready(k)
  /\ cont' = [cont EXCEPT ![k] = "set"]
  /\ Goes("client", "continue", k)

ThenOfReady(k) ==
  /\ Ready(k)
  /\ cont' = [cont EXCEPT ![k] = "taken"]
  /\ Goes("client", "continue", k)

\* A mutated form of the next operator: chain() keeps the continuation of a ready state, too.
ChainAlways(k) == cont' = [cont EXCEPT ![k] = "set"] /\ UNCHANGED at

Chain(k) == ThenOfPending(k) \/ ThenOfReady(k)

Then ==
  /\ IsAt("client", "idle") /\ ~canceled
  /\ chained < Continuations
  /\ Chain(chained + 1)
  /\ chained' = chained + 1
  /\ UNCHANGED <<value, canceled, started, executorVars>>

\* Future::reset, also by the destructor
Reset ==
  /\ IsAt("client", "idle") /\ ~canceled
  /\ canceled' = TRUE
  /\ UNCHANGED <<value, cont, chained, started, at, executorVars>>

\* fas::shutdown stops the executor.
Stop ==
  /\ IsAt("client", "idle") /\ ~quitFlag
  /\ SetQuitFlag
  /\ Goes("client", "stop", 0)
  /\ UNCHANGED futureVars

NotifyStop ==
  /\ IsAt("client", "stop")
  /\ NotifyExecutor
  /\ Goes("client", "join", 0)
  /\ UNCHANGED futureVars

Join ==
  /\ IsAt("client", "join") /\ executorPc = "done"
  /\ Rests("client")
  /\ UNCHANGED <<futureVars, executorVars>>

-----------------------------------------------------------------------------
Step(t) == TakeNext(t) \/ Skip(t) \/ Continue(t) \/ Spawn(t) \/ Notify(t)

ExecutorStep ==
  Step("executor") \/ TakeJob \/ SkipJob \/ EnterJob \/ StartFunction \/ FunctionReturns \/ FinishJob
    \/ ExecutorLoops

ClientStep == Step("client") \/ NotifyStop \/ Join

\* The executor was stopped, or everything was done.
Terminated == executorPc \in {"waiting", "done"} /\ UNCHANGED vars

Next ==
  \/ Step("promise") \/ Resolve
  \/ ClientStep \/ Then \/ Reset \/ Stop
  \/ ExecutorStep \/ ExecutorWakes
  \/ Terminated

Spec == Init /\ [][Next]_vars

\* Each thread goes on with what it has begun; nobody has to resolve, chain, reset or stop, and
\* no thread that waits has to wake up by itself.
Fairness == WF_vars(Step("promise")) /\ WF_vars(ClientStep) /\ WF_vars(ExecutorStep)

FairSpec == Spec /\ Fairness

-----------------------------------------------------------------------------
(* Properties *)

\* Every variable has its type.
TypeOK ==
  /\ value \in [States -> {"empty", "value", "canceled"}]
  /\ cont \in [Stages -> {"none", "set", "taken"}]
  /\ chained \in 0 .. Continuations
  /\ canceled \in BOOLEAN
  /\ started \in Seq(Stages)
  /\ at \in [Threads -> Place]
  /\ jobs \in Seq(Stages) /\ quitFlag \in BOOLEAN
  /\ executorPc \in {"check", "waiting", "job", "done"}

\* A continuation is never left with a state that is ready: whoever made it ready takes it.
NoLostContinuation ==
  \A k \in Stages : cont[k] = "set" /\ Ready(k) => \E t \in Threads : at[t] = [pc |-> "next", stage |-> k]

\* Until its result is there, a chained continuation whose future is resolved is with a thread:
\* one that is about to take it from the state, or has taken it and brings it to the executor
\* or runs it; or it waits there as the only job.  The race of resolve() and then() loses none.
ContinuationInHand ==
  \A k \in 1 .. chained : Ready(k) /\ ~Ready(k + 1) =>
    \/ jobs = <<k>>
    \/ \E t \in Threads :
         /\ at[t].stage = k
         /\ at[t].pc \in IF cont[k] = "set" THEN {"next"} ELSE {"continue", "spawn", "job", "start", "run"}

\* Each continuation function is called once, in the order of the chain, and only with the
\* value of the one before it: resolve() and then() never both go on with a
\* continuation, nor leave it to each other.
ContinuationsRunOnceInOrder ==
  /\ \A n \in DOMAIN started : started[n] = n
  /\ \A k \in Stages : value[k + 1] = "value" => Len(started) >= k
  /\ NoLostContinuation /\ ContinuationInHand

\* The executor never waits for a job that is there, nor for ever when it has to quit: the
\* thread that pushed the first job, or set _quitFlag, is about to notify it.
NoLostJob ==
  executorPc = "waiting" =>
    /\ jobs # << >> => \E t \in Threads : IsAt(t, "notify")
    /\ quitFlag => IsAt("client", "stop")

\* When reset() returns, at most the function is still called whose job has looked at the token
\* before: if there is none, no function is called any more, wherever the chain's jobs are.
ResetPreventsStart ==
  \A n \in 0 .. Continuations :
    [](canceled /\ ~IsAt("executor", "start") /\ Len(started) = n => [](Len(started) = n))

\* A resolved chain ends, with a value or canceled; only stopping the executor drops it.
ChainCompletes == Ready(1) /\ chained = Continuations ~> Ready(Continuations + 1) \/ quitFlag

\* ThreadedExecutor::stop returns.
StopReturns == quitFlag ~> executorPc = "done"
=============================================================================
