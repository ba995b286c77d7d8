--------------------------- MODULE FasFutureProofs ---------------------------
(***************************************************************************)
(* Theorems about FasFuture, for chains of any length.                     *)
(***************************************************************************)
EXTENDS FasFuture, SequenceTheorems, TLAPS

-----------------------------------------------------------------------------
(* The inductive invariant *)

\* A thread has a continuation in its hands, between taking it from its state and the
\* step that makes the next state ready or pushes the job.
Working(t) == at[t].pc \in {"continue", "spawn", "job", "start", "run"}

\* The state a thread looks at exists, and so does the continuation it has in its hands.
Places ==
  \A t \in Threads :
    /\ at[t].pc = "next" => at[t].stage \in States
    /\ Working(t) => at[t].stage \in Stages

\* The executor's thread is somewhere in the chain only while it is in a job.
ExecutorRests == executorPc # "job" => at["executor"].pc = "idle"

\* The states become ready in the order of the chain, and only when the continuation that
\* leads to them was taken over; a thread that goes on with a state has made it ready.
ReadyInOrder ==
  /\ \A r, s \in States : r <= s /\ Ready(s) => Ready(r)
  /\ \A k \in Stages : Ready(k + 1) => cont[k] = "taken"
  /\ \A t \in Threads : at[t].pc = "next" => Ready(at[t].stage)

\* then() is called for one continuation after the other.
ChainedInOrder == \A k \in Stages : cont[k] = "none" <=> chained < k

\* The last ready state, whose continuation was taken over.
AtFrontier(k) == Ready(k) /\ ~Ready(k + 1) /\ cont[k] = "taken"

\* One thread or one job has a continuation in its hands: that of the last ready state.
OneContinuation ==
  /\ \A t \in Threads : Working(t) => AtFrontier(at[t].stage) /\ jobs = << >>
  /\ \A t, u \in Threads : Working(t) /\ Working(u) => t = u
  /\ jobs = << >> \/ \E k \in Stages : jobs = <<k>> /\ AtFrontier(k)

\* The functions called so far are those that led to the ready states, and the one that runs.
\* A function is called with a value: only cancellation makes a state ready without one.
FunctionsCalled ==
  /\ \A n \in DOMAIN started : started[n] = n
  /\ \A n \in DOMAIN started : Ready(n + 1) \/ at["executor"] = [pc |-> "run", stage |-> n]
  /\ \A k \in Stages : value[k + 1] = "value" => Len(started) >= k
  /\ \A s \in States : value[s] = "canceled" => canceled
  /\ at["executor"].pc \in {"start", "run"} => value[at["executor"].stage] = "value"
  /\ at["executor"].pc = "run" => Len(started) >= at["executor"].stage

IInv ==
  /\ TypeOK /\ Places /\ ExecutorRests
  /\ ReadyInOrder /\ ChainedInOrder /\ OneContinuation
  /\ FunctionsCalled /\ NoLostContinuation

-----------------------------------------------------------------------------
\* The invariant holds at the start.
LEMMA InitInv == Init => IInv
<1>. SUFFICES ASSUME Init PROVE IInv
  OBVIOUS
<1>1. TypeOK
  <2>1. started \in Seq(Stages) /\ jobs \in Seq(Stages)
    BY EmptySeq DEF Init, ExecutorInit
  <2>2. Idle \in Place
    BY ContinuationsAssumption DEF Place, Idle
  <2>3. at \in [Threads -> Place]
    BY <2>2 DEF Init
  <2>4. value \in [States -> {"empty", "value", "canceled"}] /\ cont \in [Stages -> {"none", "set", "taken"}]
    BY DEF Init
  <2>5. chained \in 0 .. Continuations
    BY ContinuationsAssumption DEF Init
  <2>6. canceled \in BOOLEAN /\ quitFlag \in BOOLEAN /\ executorPc \in {"check", "waiting", "job", "done"}
    BY DEF Init, ExecutorInit
  <2>. QED
    BY <2>1, <2>3, <2>4, <2>5, <2>6 DEF TypeOK
<1>. USE ContinuationsAssumption DEF Stages, States, Threads, Ready, Idle, Working
<1>2. Places /\ ExecutorRests
  BY DEF Init, Places, ExecutorRests
<1>3. ReadyInOrder /\ ChainedInOrder
  BY DEF Init, ReadyInOrder, ChainedInOrder
<1>4. OneContinuation
  BY DEF Init, ExecutorInit, OneContinuation
<1>5. FunctionsCalled /\ NoLostContinuation
  BY DEF Init, FunctionsCalled, NoLostContinuation
<1>. QED
  BY <1>1, <1>2, <1>3, <1>4, <1>5 DEF IInv

\* A step leaves every variable in its type, and every thread at a place of the chain.
LEMMA NextTypes ==
  ASSUME TypeOK, Places, ExecutorRests, [Next]_vars
  PROVE  TypeOK' /\ Places' /\ ExecutorRests'
<1>. USE ContinuationsAssumption DEF TypeOK, Places, ExecutorRests, Working, IsAt, Stages, States, Threads,
         futureVars, executorVars
<1>3. ASSUME NEW t \in Threads, Step(t)
      PROVE  TypeOK' /\ Places' /\ ExecutorRests'
  <2>1. CASE TakeNext(t)
    <3>1. CASE at[t].stage \in Stages /\ cont[at[t].stage] = "set"
      <4>1. cont' \in [Stages -> {"none", "set", "taken"}] /\ Goes(t, "continue", at[t].stage)
        BY <2>1, <3>1 DEF TakeNext
      <4>2. at' \in [Threads -> Place]
        BY <4>1, <3>1 DEF Goes, Place
      <4>. QED
        BY <2>1, <3>1, <4>1, <4>2 DEF Goes, TakeNext
    <3>2. CASE ~(at[t].stage \in Stages /\ cont[at[t].stage] = "set")
      BY <2>1, <3>2 DEF Rests, Idle, TakeNext, Place
    <3>. QED
      BY <3>1, <3>2
  <2>2. CASE Skip(t)
    BY <2>2 DEF Goes, Rests, Idle, Skip, Place
  <2>3. CASE Continue(t)
    BY <2>3 DEF Goes, Rests, Idle, Continue, Place
  <2>4. CASE Spawn(t)
    <3>1. jobs' \in Seq(Stages)
      BY <2>4, AppendProperties DEF Spawn, Push
    <3>. QED
      BY <3>1, <2>4 DEF Goes, Rests, Idle, Spawn, Push, Place
  <2>5. CASE Notify(t)
    BY <2>5 DEF Goes, Rests, Idle, Notify, NotifyExecutor, Place
  <2>. QED
    BY <1>3, <2>1, <2>2, <2>3, <2>4, <2>5 DEF Step
<1>4. CASE TakeJob
  <2>1. Head(jobs) \in Stages /\ jobs' \in Seq(Stages)
    BY <1>4, HeadTailProperties DEF TakeJob, PopJob
  <2>. QED
    BY <1>4, <2>1 DEF Goes, Rests, Idle, TakeJob, PopJob, Place
<1>5. CASE SkipJob
  BY <1>5 DEF Goes, Rests, Idle, SkipJob, Place
<1>6. CASE EnterJob
  BY <1>6 DEF Goes, Rests, Idle, EnterJob, Place
<1>7. CASE StartFunction
  <2>1. started' \in Seq(Stages)
    BY <1>7, AppendProperties DEF StartFunction
  <2>. QED
    BY <1>7, <2>1 DEF Goes, Rests, Idle, StartFunction, Place
<1>8. CASE FunctionReturns
  BY <1>8, SMTT(20) DEF Goes, Rests, Idle, FunctionReturns, Place
<1>9. CASE FinishJob
  BY <1>9 DEF FinishJob, JobReturns
<1>10. CASE ExecutorLoops \/ ExecutorWakes
  BY <1>10 DEF ExecutorLoops, WaitForJobs, Return, ExecutorWakes, WakeSpuriously
<1>11. CASE Resolve
  BY <1>11 DEF Goes, Rests, Idle, Resolve, Place
<1>12. CASE Then
  <2>1. chained + 1 \in Stages
    BY <1>12 DEF Then
  <2>2. CASE ThenOfPending(chained + 1)
    BY <1>12, <2>1, <2>2 DEF Then, ThenOfPending
  <2>3. CASE ThenOfReady(chained + 1)
    BY <1>12, <2>1, <2>3 DEF Then, ThenOfReady, Goes, Place
  <2>. QED
    BY <1>12, <2>2, <2>3 DEF Then, Chain
<1>13. CASE Reset
  BY <1>13 DEF Reset
<1>14. CASE Stop
  BY <1>14 DEF Goes, Rests, Idle, Stop, SetQuitFlag, Place
<1>15. CASE NotifyStop
  BY <1>15 DEF Goes, Rests, Idle, NotifyStop, NotifyExecutor, Place
<1>16. CASE Join
  BY <1>16 DEF Goes, Rests, Idle, Join, Place
<1>17. CASE UNCHANGED vars
  BY <1>17 DEF vars
<1>. QED
  BY <1>3, <1>4, <1>5, <1>6, <1>7, <1>8, <1>9, <1>10, <1>11, <1>12, <1>13, <1>14, <1>15, <1>16, <1>17
  DEF Next, ClientStep, ExecutorStep, Terminated

\* As long as a ready state has its continuation, nobody works on one.
LEMMA NoOtherWork ==
  ASSUME IInv, NEW s \in Stages, Ready(s), cont[s] # "taken"
  PROVE  ~Ready(s + 1) /\ jobs = << >> /\ \A t \in Threads : ~Working(t)
<1>. USE ContinuationsAssumption DEF Stages, States
<1>1. ~Ready(s + 1)
  BY DEF IInv, ReadyInOrder
<1>2. \A k \in Stages : ~AtFrontier(k)
  <2>. SUFFICES ASSUME NEW k \in Stages, AtFrontier(k) PROVE FALSE
    OBVIOUS
  <2>1. k # s
    BY DEF AtFrontier
  <2>2. k + 1 <= s \/ s + 1 <= k
    BY <2>1
  <2>3. Ready(k + 1) \/ Ready(s + 1)
    BY <2>2 DEF IInv, ReadyInOrder, AtFrontier
  <2>. QED
    BY <1>1, <2>3 DEF AtFrontier
<1>. QED
  BY <1>1, <1>2 DEF IInv, OneContinuation, Places

\* The continuation of a ready state is taken over: by the thread that made the state ready,
\* or in then().
LEMMA TakeOver ==
  ASSUME IInv, NEW t \in Threads, NEW s \in Stages, Ready(s), cont[s] # "taken",
         cont' = [cont EXCEPT ![s] = "taken"],
         Goes(t, "continue", s),
         UNCHANGED <<value, jobs>>
  PROVE  ReadyInOrder' /\ OneContinuation'
<1>1. ~Ready(s + 1) /\ jobs = << >> /\ \A u \in Threads : ~Working(u)
  BY NoOtherWork
<1>2. \A u \in Threads : IF u = t THEN at'[u] = [pc |-> "continue", stage |-> s] ELSE at'[u] = at[u]
  BY DEF IInv, TypeOK, Goes
<1>3. \A k \in Stages : cont'[k] = IF k = s THEN "taken" ELSE cont[k]
  BY DEF IInv, TypeOK
<1>4. ReadyInOrder'
  <2>1. \A r \in States : Ready(r)' <=> Ready(r)
    BY DEF Ready
  <2>2. \A k \in Stages : k + 1 \in States
    BY ContinuationsAssumption DEF Stages, States
  <2>. QED
    BY <1>2, <1>3, <2>1, <2>2 DEF IInv, ReadyInOrder, Places
<1>5. AtFrontier(s)'
  BY <1>1, <1>3 DEF AtFrontier, Ready
<1>6. OneContinuation'
  BY <1>1, <1>2, <1>5 DEF OneContinuation, Working
<1>. QED
  BY <1>4, <1>6

\* A thread that makes the state after its continuation ready has nothing in its hands any more.
LEMMA ReadyNext ==
  ASSUME IInv, NEW t \in Threads, Working(t), NEW v \in {"value", "canceled"},
         value' = [value EXCEPT ![at[t].stage + 1] = v],
         Goes(t, "next", at[t].stage + 1),
         UNCHANGED <<cont, jobs>>
  PROVE  ReadyInOrder' /\ OneContinuation'
<1>. DEFINE k == at[t].stage
<1>1. k \in Stages /\ AtFrontier(k) /\ jobs = << >>
  BY DEF IInv, Places, OneContinuation
<1>2. \A u \in Threads : IF u = t THEN at'[u] = [pc |-> "next", stage |-> k + 1] ELSE at'[u] = at[u]
  BY DEF IInv, TypeOK, Goes
<1>3. \A s \in States : Ready(s)' <=> Ready(s) \/ s = k + 1
  BY <1>1 DEF IInv, TypeOK, Ready
<1>4. ReadyInOrder'
  <2>1. k \in Nat /\ k + 1 \in States /\ States \subseteq Nat /\ \A j \in Stages : j + 1 \in States
    BY <1>1, ContinuationsAssumption DEF Stages, States
  <2>2. \A r, s \in States : r <= s /\ Ready(s)' => Ready(r)'
    <3>. SUFFICES ASSUME NEW r \in States, NEW s \in States, r <= s, Ready(s)' PROVE Ready(r)'
      OBVIOUS
    <3>1. CASE Ready(s)
      BY <1>3, <3>1 DEF IInv, ReadyInOrder
    <3>2. CASE s = k + 1 /\ r # k + 1
      <4>1. r <= k /\ k \in States
        BY <2>1, <3>2, ContinuationsAssumption, <1>1 DEF Stages, States
      <4>. QED
        BY <1>1, <1>3, <4>1 DEF IInv, ReadyInOrder, AtFrontier
    <3>. QED
      BY <1>3, <3>1, <3>2
  <2>3. \A j \in Stages : Ready(j + 1)' => cont'[j] = "taken"
    <3>. SUFFICES ASSUME NEW j \in Stages, Ready(j + 1)' PROVE cont[j] = "taken"
      OBVIOUS
    <3>1. Ready(j + 1) \/ j = k
      BY <1>3, <2>1, ContinuationsAssumption DEF Stages
    <3>. QED
      BY <1>1, <3>1 DEF IInv, ReadyInOrder, AtFrontier
  <2>4. \A u \in Threads : (at[u].pc = "next" => Ready(at[u].stage))'
    BY <1>2, <1>3, <2>1 DEF IInv, ReadyInOrder, Places, Ready
  <2>. QED
    BY <2>2, <2>3, <2>4 DEF ReadyInOrder
<1>5. \A u \in Threads : ~Working(u)'
  BY <1>2 DEF IInv, OneContinuation, Working
<1>6. OneContinuation'
  BY <1>1, <1>5 DEF OneContinuation
<1>. QED
  BY <1>4, <1>6

\* A step of a thread that keeps what it has in its hands.
LEMMA KeepsChain ==
  ASSUME IInv, UNCHANGED <<value, cont, jobs>>,
         \A t \in Threads : /\ at'[t].pc = "next" => at'[t] = at[t]
                            /\ Working(t)' => Working(t) /\ at'[t].stage = at[t].stage
  PROVE  ReadyInOrder' /\ OneContinuation'
<1>1. \A s : Ready(s)' <=> Ready(s)
  BY DEF Ready
<1>2. ReadyInOrder'
  BY <1>1 DEF IInv, ReadyInOrder
<1>3. \A k : AtFrontier(k)' <=> AtFrontier(k)
  BY <1>1 DEF AtFrontier
<1>4. OneContinuation'
  BY <1>3 DEF IInv, OneContinuation
<1>. QED
  BY <1>2, <1>4

\* The states and the continuation in work after each step.
LEMMA NextOrder ==
  ASSUME IInv, [Next]_vars
  PROVE  ReadyInOrder' /\ OneContinuation'
<1>. USE DEF futureVars, executorVars, IsAt
<1>1. at \in [Threads -> Place] /\ Threads = {"promise", "client", "executor"}
  BY DEF IInv, TypeOK, Threads
<1>2. ASSUME NEW t \in Threads, TakeNext(t)
      PROVE  ReadyInOrder' /\ OneContinuation'
  <2>. DEFINE s == at[t].stage
  <2>1. CASE ~(s \in Stages /\ cont[s] = "set")
    BY <1>1, <1>2, <2>1, KeepsChain DEF TakeNext, Rests, Idle, Working
  <2>2. CASE s \in Stages /\ cont[s] = "set"
    <3>1. Ready(s)
      BY <1>2, <2>2 DEF TakeNext, IInv, ReadyInOrder
    <3>. QED
      BY <1>2, <2>2, <3>1, TakeOver DEF TakeNext
  <2>. QED
    BY <2>1, <2>2
<1>3. ASSUME NEW t \in Threads, Skip(t)
      PROVE  ReadyInOrder' /\ OneContinuation'
  BY <1>3, ReadyNext DEF Skip, Working
<1>4. ASSUME NEW t \in Threads, Continue(t)
      PROVE  ReadyInOrder' /\ OneContinuation'
  BY <1>1, <1>4, KeepsChain DEF Continue, Goes, Working
<1>5. ASSUME NEW t \in Threads, Spawn(t)
      PROVE  ReadyInOrder' /\ OneContinuation'
  <2>1. PICK k \in Stages : k = at[t].stage /\ AtFrontier(k) /\ jobs = << >>
    BY <1>5 DEF Spawn, IInv, Places, OneContinuation, Working
  <2>2. jobs' = <<k>> /\ AtFrontier(k)'
    BY <1>5, <2>1 DEF Spawn, Push, AtFrontier, Ready
  <2>3. \A u \in Threads : ~Working(u)' /\ (at'[u].pc = "next" => at'[u] = at[u])
    BY <1>1, <1>5 DEF Spawn, Goes, Rests, Idle, IInv, OneContinuation, Working
  <2>4. ReadyInOrder'
    BY <1>5, <2>3 DEF Spawn, IInv, ReadyInOrder, Ready
  <2>. QED
    BY <2>1, <2>2, <2>3, <2>4 DEF OneContinuation
<1>6. ASSUME NEW t \in Threads, Notify(t)
      PROVE  ReadyInOrder' /\ OneContinuation'
  BY <1>1, <1>6, KeepsChain DEF Notify, NotifyExecutor, Rests, Idle, Working
<1>7. CASE TakeJob
  <2>1. PICK k \in Stages : jobs = <<k>> /\ AtFrontier(k)
    BY <1>7 DEF TakeJob, PopJob, IInv, OneContinuation
  <2>2. \A u \in Threads : IF u = "executor" THEN at'[u] = [pc |-> "job", stage |-> k] ELSE at'[u] = at[u]
    BY <1>1, <1>7, <2>1 DEF TakeJob, Goes
  <2>3. jobs' = << >> /\ AtFrontier(k)' /\ \A u \in Threads : ~Working(u)
    BY <1>7, <2>1 DEF TakeJob, PopJob, AtFrontier, Ready, IInv, OneContinuation
  <2>4. ReadyInOrder'
    BY <1>7, <2>2 DEF TakeJob, IInv, ReadyInOrder, Ready
  <2>. QED
    BY <2>2, <2>3, <2>4 DEF OneContinuation, Working
<1>8. CASE SkipJob
  BY <1>1, <1>8, ReadyNext DEF SkipJob, Working
<1>9. CASE EnterJob \/ StartFunction
  BY <1>1, <1>9, KeepsChain DEF EnterJob, StartFunction, Goes, Working
<1>10. CASE FunctionReturns
  BY <1>1, <1>10, ReadyNext DEF FunctionReturns, Working
<1>11. CASE FinishJob \/ ExecutorLoops \/ ExecutorWakes
  BY <1>1, <1>11, KeepsChain
  DEF FinishJob, JobReturns, ExecutorLoops, WaitForJobs, Return, ExecutorWakes, WakeSpuriously, Working
<1>12. CASE Resolve
  <2>1. \A s \in States : ~Ready(s)
    BY <1>12, ContinuationsAssumption DEF Resolve, IInv, ReadyInOrder, States
  <2>2. \A k \in Stages : k \in States /\ k + 1 \in States /\ k + 1 # 1
    BY ContinuationsAssumption DEF Stages, States
  <2>3. \A s \in States : Ready(s)' <=> s = 1
    BY <1>12, <2>1 DEF Resolve, Ready, IInv, TypeOK
  <2>4. jobs = << >> /\ \A t \in Threads : ~Working(t) /\ at[t].pc # "next"
    BY <2>1, <2>2 DEF IInv, OneContinuation, AtFrontier, Places, ReadyInOrder
  <2>5. \A u \in Threads : IF u = "promise" THEN at'[u] = [pc |-> "next", stage |-> 1] ELSE at'[u] = at[u]
    BY <1>1, <1>12 DEF Resolve, Goes
  <2>6. OneContinuation'
    BY <1>12, <2>4, <2>5 DEF Resolve, OneContinuation, Working
  <2>7. ReadyInOrder'
    <3>1. 1 \in States /\ \A r \in States : r <= 1 => r = 1
      BY ContinuationsAssumption DEF States
    <3>. QED
      BY <2>2, <2>3, <2>4, <2>5, <3>1 DEF ReadyInOrder
  <2>. QED
    BY <2>6, <2>7
<1>13. CASE Then
  <2>. DEFINE k == chained + 1
  <2>1. k \in Stages /\ cont[k] = "none"
    BY <1>13, ContinuationsAssumption DEF Then, IInv, TypeOK, ChainedInOrder, Stages
  <2>2. CASE ThenOfPending(k)
    <3>1. \A j \in Stages : AtFrontier(j) <=> AtFrontier(j)'
      BY <1>13, <2>1, <2>2 DEF Then, ThenOfPending, AtFrontier, Ready, IInv, TypeOK
    <3>2. ReadyInOrder'
      BY <1>13, <2>1, <2>2 DEF Then, ThenOfPending, IInv, ReadyInOrder, Ready, TypeOK
    <3>3. \A u \in Threads : Working(u) <=> Working(u)'
      BY <2>2 DEF ThenOfPending, Working
    <3>4. OneContinuation'
      BY <1>13, <2>2, <3>1, <3>3 DEF Then, ThenOfPending, IInv, OneContinuation, Places
    <3>. QED
      BY <3>2, <3>4
  <2>3. CASE ThenOfReady(k)
    BY <1>1, <1>13, <2>1, <2>3, TakeOver DEF Then, ThenOfReady
  <2>. QED
    BY <1>13, <2>2, <2>3 DEF Then, Chain
<1>14. CASE Reset \/ Stop \/ NotifyStop \/ Join
  BY <1>1, <1>14, KeepsChain
  DEF Reset, Stop, SetQuitFlag, NotifyStop, NotifyExecutor, Join, Goes, Rests, Idle, Working
<1>15. CASE UNCHANGED vars
  BY <1>15, KeepsChain DEF vars, Working
<1>. QED
  BY <1>2, <1>3, <1>4, <1>5, <1>6, <1>7, <1>8, <1>9, <1>10, <1>11, <1>12, <1>13, <1>14, <1>15
  DEF Next, Step, ClientStep, ExecutorStep, Terminated, Threads

\* then() hands out the continuations one after the other; nothing takes a number back.
LEMMA NextChained ==
  ASSUME IInv, [Next]_vars
  PROVE  ChainedInOrder'
<1>. USE DEF futureVars, IInv, TypeOK, ChainedInOrder
<1>1. CASE UNCHANGED <<cont, chained>>
  BY <1>1
<1>2. ASSUME NEW t \in Threads, TakeNext(t)
      PROVE  ChainedInOrder'
  BY <1>2 DEF TakeNext
<1>3. CASE Then
  <2>1. CASE ThenOfPending(chained + 1)
    BY <1>3, <2>1 DEF Then, ThenOfPending, Stages
  <2>2. CASE ThenOfReady(chained + 1)
    BY <1>3, <2>2 DEF Then, ThenOfReady, Stages
  <2>. QED
    BY <1>3, <2>1, <2>2 DEF Then, Chain
<1>4. CASE \E t \in Threads : Skip(t) \/ Continue(t) \/ Spawn(t) \/ Notify(t)
  BY <1>4 DEF Skip, Continue, Spawn, Notify
<1>5. CASE TakeJob \/ SkipJob \/ EnterJob \/ StartFunction \/ FunctionReturns \/ FinishJob
             \/ ExecutorLoops \/ ExecutorWakes
  BY <1>5
  DEF TakeJob, SkipJob, EnterJob, StartFunction, FunctionReturns, FinishJob, ExecutorLoops, ExecutorWakes
<1>6. CASE Resolve \/ Reset \/ Stop \/ NotifyStop \/ Join
  BY <1>6 DEF Resolve, Reset, Stop, NotifyStop, Join
<1>7. CASE UNCHANGED vars
  BY <1>7 DEF vars
<1>. QED
  BY <1>2, <1>3, <1>4, <1>5, <1>6, <1>7 DEF Next, Step, ClientStep, ExecutorStep, Terminated, Threads

\* Whoever makes a state ready goes on with it, and leaves it only without its continuation.
LEMMA NextNotLost ==
  ASSUME IInv, [Next]_vars
  PROVE  NoLostContinuation'
<1>. USE DEF futureVars, executorVars, IsAt, IInv, TypeOK, NoLostContinuation
<1>1. ASSUME UNCHANGED <<value, cont>>,
             \A t \in Threads : at[t].pc = "next" => at'[t] = at[t]
      PROVE  NoLostContinuation'
  BY <1>1 DEF Ready
<1>2. ASSUME NEW t \in Threads, NEW s \in States, NEW v \in {"value", "canceled"}, at[t].pc # "next",
             value' = [value EXCEPT ![s] = v], Goes(t, "next", s), UNCHANGED cont
      PROVE  NoLostContinuation'
  <2>. SUFFICES ASSUME NEW k \in Stages, cont[k] = "set", Ready(k)'
                PROVE  \E u \in Threads : at'[u] = [pc |-> "next", stage |-> k]
    BY <1>2
  <2>1. CASE k = s
    BY <1>2, <2>1 DEF Goes
  <2>2. CASE k # s
    <3>1. Ready(k)
      BY <1>2, <2>2 DEF Ready, Stages, States
    <3>2. PICK u \in Threads : at[u] = [pc |-> "next", stage |-> k]
      BY <3>1
    <3>3. at'[u] = at[u]
      BY <1>2, <3>2 DEF Goes
    <3>. QED
      BY <3>2, <3>3
  <2>. QED
    BY <2>1, <2>2
<1>3. ASSUME NEW t \in Threads, Working(t) PROVE at[t].stage + 1 \in States /\ at[t].pc # "next"
  BY <1>3, ContinuationsAssumption DEF Places, Working, Stages, States
<1>4. ASSUME NEW t \in Threads, TakeNext(t)
      PROVE  NoLostContinuation'
  <2>. DEFINE s == at[t].stage
  <2>1. CASE s \in Stages /\ cont[s] = "set"
    <3>. SUFFICES ASSUME NEW k \in Stages, cont'[k] = "set", Ready(k)'
                  PROVE  \E u \in Threads : at'[u] = [pc |-> "next", stage |-> k]
      OBVIOUS
    <3>1. k # s /\ cont[k] = "set" /\ Ready(k)
      BY <1>4, <2>1 DEF TakeNext, Ready
    <3>2. PICK u \in Threads : at[u] = [pc |-> "next", stage |-> k]
      BY <3>1
    <3>. QED
      BY <1>4, <2>1, <3>1, <3>2 DEF TakeNext, Goes
  <2>2. CASE ~(s \in Stages /\ cont[s] = "set")
    <3>. SUFFICES ASSUME NEW k \in Stages, cont[k] = "set", Ready(k)
                  PROVE  \E u \in Threads : at'[u] = [pc |-> "next", stage |-> k]
      BY <1>4, <2>2 DEF TakeNext, Ready
    <3>1. PICK u \in Threads : at[u] = [pc |-> "next", stage |-> k]
      OBVIOUS
    <3>2. u # t
      BY <2>2, <3>1
    <3>. QED
      BY <1>4, <2>2, <3>1, <3>2 DEF TakeNext, Rests
  <2>. QED
    BY <2>1, <2>2
<1>5. ASSUME NEW t \in Threads, Skip(t)
      PROVE  NoLostContinuation'
  BY <1>2, <1>3, <1>5 DEF Skip, Working
<1>6. ASSUME NEW t \in Threads, Continue(t) \/ Spawn(t) \/ Notify(t)
      PROVE  NoLostContinuation'
  BY <1>1, <1>6 DEF Continue, Spawn, Notify, Goes, Rests
<1>7. CASE TakeJob
  BY <1>1, <1>7 DEF TakeJob, PopJob, Goes, ExecutorRests
<1>8. CASE SkipJob
  BY <1>2, <1>3, <1>8 DEF SkipJob, Working, Threads
<1>9. CASE EnterJob \/ StartFunction
  BY <1>1, <1>9 DEF EnterJob, StartFunction, Goes
<1>10. CASE FunctionReturns
  BY <1>2, <1>3, <1>10 DEF FunctionReturns, Working, Threads
<1>11. CASE FinishJob \/ ExecutorLoops \/ ExecutorWakes \/ Reset
  BY <1>1, <1>11 DEF FinishJob, ExecutorLoops, ExecutorWakes, Reset
<1>12. CASE Resolve
  <2>1. 1 \in States
    BY ContinuationsAssumption DEF States
  <2>2. "promise" \in Threads /\ at["promise"].pc # "next"
    BY <1>12 DEF Resolve, Threads
  <2>. QED
    BY <1>2, <1>12, <2>1, <2>2 DEF Resolve
<1>13. CASE Then
  <2>1. chained + 1 \in Stages
    BY <1>13, ContinuationsAssumption DEF Then, Stages
  <2>2. CASE ThenOfPending(chained + 1)
    BY <1>13, <2>1, <2>2 DEF Then, ThenOfPending, Ready
  <2>3. CASE ThenOfReady(chained + 1)
    BY <1>13, <2>1, <2>3 DEF Then, ThenOfReady, Ready, Goes
  <2>. QED
    BY <1>13, <2>2, <2>3 DEF Then, Chain
<1>14. CASE Stop \/ NotifyStop \/ Join
  BY <1>1, <1>14 DEF Stop, NotifyStop, Join, Goes, Rests
<1>15. CASE UNCHANGED vars
  BY <1>1, <1>15 DEF vars
<1>. QED
  BY <1>4, <1>5, <1>6, <1>7, <1>8, <1>9, <1>10, <1>11, <1>12, <1>13, <1>14, <1>15
  DEF Next, Step, ClientStep, ExecutorStep, Terminated, Threads

\* The functions called are those of the ready states, in their order.
LEMMA NextCalled ==
  ASSUME IInv, [Next]_vars
  PROVE  FunctionsCalled'
<1>. USE DEF futureVars, executorVars, IsAt, IInv, TypeOK
<1>1. Threads = {"promise", "client", "executor"} /\ \A k \in Stages : k \in States /\ k + 1 \in States
  BY ContinuationsAssumption DEF Threads, Stages, States
<1>2. ASSUME UNCHANGED <<value, started>>, canceled => canceled',
             at["executor"].pc \in {"start", "run"} \/ at'["executor"].pc \in {"start", "run"}
               => at'["executor"] = at["executor"]
      PROVE  FunctionsCalled'
  BY <1>2 DEF FunctionsCalled, Ready
<1>3. ASSUME NEW k \in Stages, ~Ready(k + 1), canceled, value' = [value EXCEPT ![k + 1] = "canceled"],
             at["executor"].pc \notin {"start", "run"}, at'["executor"].pc \notin {"start", "run"},
             UNCHANGED <<started, canceled>>
      PROVE  FunctionsCalled'
  BY <1>1, <1>3 DEF FunctionsCalled, Ready
<1>4. ASSUME NEW t \in Threads, Working(t)
      PROVE  /\ at[t].stage \in Stages /\ Ready(at[t].stage) /\ ~Ready(at[t].stage + 1)
             /\ t # "executor" => ~Working("executor")
  BY <1>1, <1>4 DEF Places, OneContinuation, AtFrontier
<1>5. ASSUME NEW t \in Threads, TakeNext(t)
      PROVE  FunctionsCalled'
  <2>1. CASE at[t].stage \in Stages /\ cont[at[t].stage] = "set"
    BY <1>1, <1>2, <1>5, <2>1 DEF TakeNext, Goes
  <2>2. CASE ~(at[t].stage \in Stages /\ cont[at[t].stage] = "set")
    BY <1>1, <1>2, <1>5, <2>2 DEF TakeNext, Rests, Idle
  <2>. QED
    BY <2>1, <2>2
<1>6. ASSUME NEW t \in Threads, Skip(t)
      PROVE  FunctionsCalled'
  <2>1. at["executor"].pc \notin {"start", "run"} /\ at'["executor"].pc \notin {"start", "run"}
    BY <1>1, <1>4, <1>6 DEF Skip, Goes, Working
  <2>. QED
    BY <1>3, <1>4, <1>6, <2>1 DEF Skip, Working
<1>7. ASSUME NEW t \in Threads, Continue(t) \/ Spawn(t) \/ Notify(t)
      PROVE  FunctionsCalled'
  BY <1>1, <1>2, <1>7 DEF Continue, Spawn, Notify, Goes, Rests, Idle
<1>8. CASE TakeJob
  BY <1>1, <1>2, <1>8 DEF TakeJob, PopJob, Goes, ExecutorRests
<1>9. CASE SkipJob
  BY <1>1, <1>3, <1>4, <1>9 DEF SkipJob, Goes, Working
<1>10. CASE EnterJob
  <2>. DEFINE k == at["executor"].stage
  <2>1. k \in Stages /\ Ready(k) /\ at'["executor"] = [pc |-> "start", stage |-> k]
    BY <1>1, <1>4, <1>10 DEF EnterJob, Working, Goes
  <2>2. value[k] = "value"
    BY <1>1, <1>10, <2>1 DEF EnterJob, Ready, FunctionsCalled
  <2>. QED
    BY <1>10, <2>1, <2>2 DEF EnterJob, FunctionsCalled, Ready
<1>11. CASE StartFunction
  <2>. DEFINE k == at["executor"].stage
  <2>1. k \in Stages /\ ~Ready(k + 1) /\ value[k] = "value"
    BY <1>1, <1>4, <1>11 DEF StartFunction, Working, FunctionsCalled
  <2>2. Len(started) = k - 1
    <3>1. Len(started) < k
      <4>1. k \notin DOMAIN started
        <5>1. \A n : at["executor"] # [pc |-> "run", stage |-> n]
          BY <1>11 DEF StartFunction
        <5>2. \A n \in DOMAIN started : Ready(n + 1)
          BY <5>1, Zenon DEF FunctionsCalled
        <5>. QED
          BY <2>1, <5>2
      <4>2. Len(started) \in Nat /\ DOMAIN started = 1 .. Len(started)
        BY LenProperties
      <4>. QED
        BY <2>1, <4>1, <4>2 DEF Stages
    <3>2. k = 1 \/ Len(started) >= k - 1
      <4>1. k = 1 \/ (k - 1 \in Stages /\ (k - 1) + 1 = k)
        BY <2>1, ContinuationsAssumption DEF Stages
      <4>. QED
        BY <2>1, <4>1 DEF FunctionsCalled
    <3>. QED
      BY <2>1, <3>1, <3>2, LenProperties DEF Stages
  <2>3. started' = Append(started, k) /\ at'["executor"] = [pc |-> "run", stage |-> k]
    BY <1>1, <1>11 DEF StartFunction, Goes
  <2>4. /\ Len(started') = k
        /\ DOMAIN started' = DOMAIN started \cup {k}
        /\ \A n \in DOMAIN started' : started'[n] = IF n = k THEN k ELSE started[n]
    BY <2>1, <2>2, <2>3, AppendProperties, LenProperties, SMTT(20) DEF Stages
  <2>. QED
    BY <1>11, <2>1, <2>2, <2>3, <2>4, ContinuationsAssumption DEF StartFunction, FunctionsCalled, Ready, Stages
<1>12. CASE FunctionReturns
  <2>. DEFINE k == at["executor"].stage
  <2>1. k \in Stages /\ Len(started) >= k /\ at'["executor"].pc = "next"
    BY <1>1, <1>4, <1>12 DEF FunctionReturns, Working, FunctionsCalled, Goes
  <2>2. \A s \in States : value'[s] = IF s = k + 1 THEN "value" ELSE value[s]
    BY <1>12, <2>1 DEF FunctionReturns
  <2>3. \A n \in DOMAIN started : n \in Stages /\ Ready(n + 1)'
    BY <1>1, <1>12, <2>1, <2>2, ElementOfSeq DEF FunctionReturns, FunctionsCalled, Ready
  <2>. QED
    BY <1>1, <1>12, <2>1, <2>2, <2>3 DEF FunctionReturns, FunctionsCalled, Stages
<1>13. CASE FinishJob \/ ExecutorLoops \/ ExecutorWakes \/ Reset
  BY <1>2, <1>13 DEF FinishJob, ExecutorLoops, ExecutorWakes, Reset
<1>14. CASE Resolve
  <2>1. \A s \in States : value'[s] = IF s = 1 THEN "value" ELSE value[s]
    BY <1>14 DEF Resolve
  <2>2. \A k \in Stages : k + 1 # 1
    BY DEF Stages
  <2>3. at'["executor"] = at["executor"]
    BY <1>1, <1>14 DEF Resolve, Goes
  <2>4. \A n \in DOMAIN started : n \in Stages
    BY ElementOfSeq DEF FunctionsCalled
  <2>. QED
    BY <1>1, <1>4, <1>14, <2>1, <2>2, <2>3, <2>4 DEF Resolve, FunctionsCalled, Ready, Working
<1>15. CASE Then
  BY <1>1, <1>2, <1>15 DEF Then, Chain, ThenOfPending, ThenOfReady, Goes
<1>16. CASE Stop \/ NotifyStop \/ Join
  BY <1>1, <1>2, <1>16 DEF Stop, NotifyStop, Join, Goes, Rests, Idle
<1>17. CASE UNCHANGED vars
  BY <1>2, <1>17 DEF vars
<1>. QED
  BY <1>5, <1>6, <1>7, <1>8, <1>9, <1>10, <1>11, <1>12, <1>13, <1>14, <1>15, <1>16, <1>17
  DEF Next, Step, ClientStep, ExecutorStep, Terminated, Threads

\* A continuation is taken only from a ready state.
TakenWhenReady == \A k \in Stages : cont[k] = "taken" => Ready(k)

\* The continuation of the last ready state is in a thread's hands, or is the job, once it was
\* taken from the state.
TakenInHand ==
  \A k \in Stages : AtFrontier(k) => jobs = <<k>> \/ \E t \in Threads : Working(t) /\ at[t].stage = k

\* There is only one last ready state.
LEMMA OneFrontier ==
  ASSUME IInv, NEW j \in Stages, NEW k \in Stages, AtFrontier(j), AtFrontier(k)
  PROVE  j = k
<1>. USE ContinuationsAssumption DEF Stages, States
<1>1. CASE j + 1 <= k
  BY <1>1 DEF IInv, ReadyInOrder, AtFrontier
<1>2. CASE k + 1 <= j
  BY <1>2 DEF IInv, ReadyInOrder, AtFrontier
<1>. QED
  BY <1>1, <1>2

\* Whoever takes a continuation has it in its hands; whoever makes a state ready finds its
\* continuation with the state; what is put down is picked up.
LEMMA NextInHand ==
  ASSUME IInv, TakenWhenReady, TakenInHand, [Next]_vars
  PROVE  TakenWhenReady' /\ TakenInHand'
<1>. USE DEF futureVars, executorVars, IsAt
<1>1. /\ Threads = {"promise", "client", "executor"}
      /\ at \in [Threads -> Place] /\ cont \in [Stages -> {"none", "set", "taken"}]
      /\ value \in [States -> {"empty", "value", "canceled"}]
      /\ \A k \in Stages : k \in States /\ k + 1 \in States /\ k + 1 # 1 /\ k + 1 # k
  BY ContinuationsAssumption DEF IInv, TypeOK, Threads, Stages, States
\* A step that leaves each continuation where it is.
<1>2. ASSUME UNCHANGED <<value, cont, jobs>>,
             \A t \in Threads : Working(t) => Working(t)' /\ at'[t].stage = at[t].stage
      PROVE  TakenWhenReady' /\ TakenInHand'
  BY <1>2 DEF TakenWhenReady, TakenInHand, AtFrontier, Ready
\* A step that takes a continuation from its state.
<1>3. ASSUME NEW t \in Threads, NEW s \in Stages, Ready(s), ~Working(t),
             cont' = [cont EXCEPT ![s] = "taken"], Goes(t, "continue", s), UNCHANGED <<value, jobs>>
      PROVE  TakenWhenReady' /\ TakenInHand'
  <2>1. \A u \in Threads : IF u = t THEN at'[u] = [pc |-> "continue", stage |-> s] ELSE at'[u] = at[u]
    BY <1>1, <1>3 DEF Goes
  <2>2. \A k \in Stages : cont'[k] = IF k = s THEN "taken" ELSE cont[k]
    BY <1>1, <1>3
  <2>3. TakenWhenReady'
    BY <1>3, <2>2 DEF TakenWhenReady, Ready
  <2>4. \A u \in Threads : Working(u) => Working(u)' /\ at'[u].stage = at[u].stage
    BY <1>3, <2>1 DEF Working
  <2>5. Working(t)' /\ at'[t].stage = s
    BY <2>1 DEF Working
  <2>6. \A k \in Stages : k = s \/ (AtFrontier(k)' => AtFrontier(k))
    BY <1>3, <2>2 DEF AtFrontier, Ready
  <2>. QED
    BY <1>3, <2>3, <2>4, <2>5, <2>6 DEF TakenInHand
\* A step that makes the next state ready: its continuation was not taken before.
<1>4. ASSUME NEW t \in Threads, NEW s \in States, NEW v \in {"value", "canceled"}, ~Ready(s),
             \A k \in Stages : k + 1 # s => ~AtFrontier(k) \/ jobs = <<k>>
                               \/ \E u \in Threads \ {t} : Working(u) /\ at[u].stage = k,
             value' = [value EXCEPT ![s] = v], Goes(t, "next", s), UNCHANGED <<cont, jobs>>
      PROVE  TakenWhenReady' /\ TakenInHand'
  <2>1. \A r \in States : Ready(r)' <=> Ready(r) \/ r = s
    BY <1>1, <1>4 DEF Ready
  <2>2. TakenWhenReady'
    BY <1>1, <1>4, <2>1 DEF TakenWhenReady
  <2>3. \A u \in Threads \ {t} : at'[u] = at[u]
    BY <1>1, <1>4 DEF Goes
  <2>4. ASSUME NEW k \in Stages, AtFrontier(k)' PROVE AtFrontier(k) /\ k + 1 # s
    BY <1>1, <1>4, <2>1, <2>4 DEF AtFrontier, TakenWhenReady
  <2>5. \A u \in Threads \ {t} : Working(u) => Working(u)' /\ at'[u].stage = at[u].stage
    BY <2>3 DEF Working
  <2>. QED
    BY <1>4, <2>2, <2>4, <2>5 DEF TakenInHand
\* So does a thread that ends its work on a continuation.
<1>5. ASSUME NEW t \in Threads, Working(t), NEW v \in {"value", "canceled"},
             value' = [value EXCEPT ![at[t].stage + 1] = v], Goes(t, "next", at[t].stage + 1),
             UNCHANGED <<cont, jobs>>
      PROVE  TakenWhenReady' /\ TakenInHand'
  <2>1. at[t].stage \in Stages /\ AtFrontier(at[t].stage)
    BY <1>5 DEF IInv, Places, OneContinuation
  <2>2. \A k \in Stages : AtFrontier(k) => k = at[t].stage
    BY <2>1, OneFrontier
  <2>3. \A k \in Stages : k + 1 # at[t].stage + 1 => ~AtFrontier(k)
    BY <2>2
  <2>4. ~Ready(at[t].stage + 1) /\ at[t].stage + 1 \in States
    BY <1>1, <2>1 DEF AtFrontier
  <2>. QED
    BY <1>4, <1>5, <2>3, <2>4
<1>6. ASSUME NEW t \in Threads, TakeNext(t)
      PROVE  TakenWhenReady' /\ TakenInHand'
  <2>. DEFINE s == at[t].stage
  <2>1. CASE s \in Stages /\ cont[s] = "set"
    <3>1. Ready(s) /\ ~Working(t)
      BY <1>6 DEF TakeNext, IInv, ReadyInOrder, Working
    <3>. QED
      BY <1>3, <1>6, <2>1, <3>1 DEF TakeNext
  <2>2. CASE ~(s \in Stages /\ cont[s] = "set")
    BY <1>1, <1>2, <1>6, <2>2 DEF TakeNext, Rests, Working
  <2>. QED
    BY <2>1, <2>2
<1>7. ASSUME NEW t \in Threads, Skip(t)
      PROVE  TakenWhenReady' /\ TakenInHand'
  BY <1>5, <1>7 DEF Skip, Working
<1>8. ASSUME NEW t \in Threads, Continue(t) \/ Notify(t)
      PROVE  TakenWhenReady' /\ TakenInHand'
  BY <1>1, <1>2, <1>8 DEF Continue, Notify, NotifyExecutor, Goes, Rests, Working
<1>9. ASSUME NEW t \in Threads, Spawn(t)
      PROVE  TakenWhenReady' /\ TakenInHand'
  <2>1. PICK k \in Stages : k = at[t].stage /\ AtFrontier(k) /\ jobs = << >>
    BY <1>9 DEF Spawn, IInv, Places, OneContinuation, Working
  <2>2. jobs' = <<k>> /\ UNCHANGED <<value, cont>>
    BY <1>9, <2>1 DEF Spawn, Push
  <2>3. \A j \in Stages : AtFrontier(j)' <=> AtFrontier(j)
    BY <2>2 DEF AtFrontier, Ready
  <2>4. \A j \in Stages : AtFrontier(j) => j = k
    BY <2>1, OneFrontier
  <2>. QED
    BY <2>2, <2>3, <2>4 DEF TakenWhenReady, TakenInHand, Ready
<1>10. CASE TakeJob
  <2>1. PICK k \in Stages : jobs = <<k>> /\ AtFrontier(k)
    BY <1>10 DEF TakeJob, PopJob, IInv, OneContinuation
  <2>2. at'["executor"] = [pc |-> "job", stage |-> k] /\ UNCHANGED <<value, cont>>
    BY <1>1, <1>10, <2>1 DEF TakeJob, Goes
  <2>3. \A j \in Stages : AtFrontier(j)' <=> AtFrontier(j)
    BY <2>2 DEF AtFrontier, Ready
  <2>4. \A j \in Stages : AtFrontier(j) => j = k
    BY <2>1, OneFrontier
  <2>5. Working("executor")' /\ at'["executor"].stage = k
    BY <2>2 DEF Working
  <2>. QED
    BY <1>1, <2>2, <2>3, <2>4, <2>5 DEF TakenWhenReady, TakenInHand, Ready
<1>11. CASE SkipJob \/ FunctionReturns
  BY <1>1, <1>5, <1>11 DEF SkipJob, FunctionReturns, Working
<1>12. CASE EnterJob \/ StartFunction
  BY <1>1, <1>2, <1>12 DEF EnterJob, StartFunction, Goes, Working
<1>13. CASE FinishJob \/ ExecutorLoops \/ ExecutorWakes \/ Reset
  BY <1>2, <1>13
  DEF FinishJob, JobReturns, ExecutorLoops, WaitForJobs, Return, ExecutorWakes, WakeSpuriously, Reset, Working
<1>14. CASE Resolve
  <2>1. 1 \in States /\ ~Ready(1)
    BY <1>14, ContinuationsAssumption DEF Resolve, States
  <2>2. \A k \in Stages : ~AtFrontier(k)
    BY <1>1, <2>1 DEF IInv, ReadyInOrder, AtFrontier, Stages, States
  <2>. QED
    BY <1>1, <1>4, <1>14, <2>1, <2>2 DEF Resolve
<1>15. CASE Then
  <2>. DEFINE k == chained + 1
  <2>1. k \in Stages /\ ~Working("client")
    BY <1>15, ContinuationsAssumption DEF Then, IInv, TypeOK, Stages, Working
  <2>2. CASE ThenOfPending(k)
    <3>1. \A j \in Stages : cont'[j] = IF j = k THEN "set" ELSE cont[j]
      BY <1>1, <2>2 DEF ThenOfPending
    <3>. QED
      BY <1>15, <2>2, <3>1 DEF Then, ThenOfPending, TakenWhenReady, TakenInHand, AtFrontier, Ready, Working
  <2>3. CASE ThenOfReady(k)
    BY <1>1, <1>3, <1>15, <2>1, <2>3 DEF Then, ThenOfReady
  <2>. QED
    BY <1>15, <2>2, <2>3 DEF Then, Chain
<1>16. CASE Stop \/ NotifyStop \/ Join
  BY <1>1, <1>2, <1>16 DEF Stop, SetQuitFlag, NotifyStop, NotifyExecutor, Join, Goes, Rests, Working
<1>17. CASE UNCHANGED vars
  BY <1>2, <1>17 DEF vars, Working
<1>. QED
  BY <1>6, <1>7, <1>8, <1>9, <1>10, <1>11, <1>12, <1>13, <1>14, <1>15, <1>16, <1>17
  DEF Next, Step, ClientStep, ExecutorStep, Terminated, Threads

-----------------------------------------------------------------------------
(* The theorems *)

\* The executor waits for a job that is there only while the thread that pushed it is about to
\* notify it: pushing the first job and finding no job are each one step under _jobsMutex.
LEMMA NextJob ==
  ASSUME IInv, NoLostJob, [Next]_vars
  PROVE  NoLostJob'
<1>. USE DEF futureVars, executorVars, IsAt, NoLostJob
<1>1. at \in [Threads -> Place] /\ Threads = {"promise", "client", "executor"}
  BY DEF IInv, TypeOK, Threads
<1>2. executorPc # "job" => at["executor"].pc = "idle"
  BY DEF IInv, ExecutorRests
<1>3. ASSUME UNCHANGED executorVars,
             \A t \in Threads : at[t].pc \in {"notify", "stop"} => at'[t] = at[t]
      PROVE  NoLostJob'
  BY <1>1, <1>3
<1>4. ASSUME NEW t \in Threads, TakeNext(t)
      PROVE  NoLostJob'
  BY <1>1, <1>3, <1>4 DEF TakeNext, Goes, Rests
<1>5. ASSUME NEW t \in Threads, Skip(t) \/ Continue(t)
      PROVE  NoLostJob'
  BY <1>1, <1>3, <1>5 DEF Skip, Continue, Goes
<1>6. ASSUME NEW t \in Threads, Spawn(t)
      PROVE  NoLostJob'
  BY <1>1, <1>6 DEF Spawn, Push, WakeUpThread, Goes, Rests
<1>7. ASSUME NEW t \in Threads, Notify(t)
      PROVE  NoLostJob'
  BY <1>7 DEF Notify, NotifyExecutor
<1>8. CASE TakeJob \/ FinishJob \/ ExecutorWakes
  BY <1>8 DEF TakeJob, PopJob, FinishJob, JobReturns, ExecutorWakes, WakeSpuriously
<1>9. CASE SkipJob \/ EnterJob \/ StartFunction \/ FunctionReturns
  BY <1>1, <1>3, <1>9 DEF SkipJob, EnterJob, StartFunction, FunctionReturns, Goes
<1>10. CASE ExecutorLoops
  BY <1>10 DEF ExecutorLoops, WaitForJobs, Return
<1>11. CASE Resolve \/ Reset
  BY <1>1, <1>3, <1>11 DEF Resolve, Reset, Goes
<1>12. CASE Then
  BY <1>1, <1>3, <1>12 DEF Then, Chain, ThenOfPending, ThenOfReady, Goes
<1>13. CASE Stop
  BY <1>1, <1>13 DEF Stop, SetQuitFlag, Goes
<1>14. CASE NotifyStop \/ Join
  BY <1>14 DEF NotifyStop, NotifyExecutor, Join
<1>15. CASE UNCHANGED vars
  BY <1>15 DEF vars
<1>. QED
  BY <1>4, <1>5, <1>6, <1>7, <1>8, <1>9, <1>10, <1>11, <1>12, <1>13, <1>14, <1>15
  DEF Next, Step, ClientStep, ExecutorStep, Terminated, Threads

\* Whatever the promise's, the client's and the executor's threads do, every state is as the
\* parts of the invariant say, and the variables have their types.
THEOREM ChainInvariant == Spec => []IInv
<1>1. IInv /\ [Next]_vars => IInv'
  <2>. SUFFICES ASSUME IInv, [Next]_vars PROVE IInv'
    OBVIOUS
  <2>1. TypeOK' /\ Places' /\ ExecutorRests'
    BY NextTypes DEF IInv
  <2>. QED
    BY <2>1, NextOrder, NextChained, NextCalled, NextNotLost DEF IInv
<1>. QED
  BY InitInv, <1>1, PTL DEF Spec

\* future.h: until its result is there, a chained continuation whose future is resolved is about
\* to be taken from its state, in a thread's hands or the executor's job, whichever of resolve()
\* and then() comes first.
THEOREM NoContinuationIsLost == Spec => []ContinuationInHand
<1>1. Init => TakenWhenReady /\ TakenInHand
  <2>. SUFFICES ASSUME Init PROVE \A k \in Stages : cont[k] # "taken"
    BY DEF TakenWhenReady, TakenInHand, AtFrontier
  <2>. QED
    BY DEF Init
<1>2. IInv /\ TakenWhenReady /\ TakenInHand /\ [Next]_vars => TakenWhenReady' /\ TakenInHand'
  BY NextInHand
<1>3. IInv /\ TakenInHand => ContinuationInHand
  <2>. SUFFICES ASSUME IInv, TakenInHand, NEW k \in 1 .. chained, Ready(k), ~Ready(k + 1)
                PROVE  \/ jobs = <<k>>
                       \/ \E t \in Threads :
                            /\ at[t].stage = k
                            /\ at[t].pc \in IF cont[k] = "set" THEN {"next"}
                                            ELSE {"continue", "spawn", "job", "start", "run"}
    BY DEF ContinuationInHand
  <2>1. k \in Stages /\ cont[k] \in {"set", "taken"}
    BY ContinuationsAssumption DEF IInv, TypeOK, ChainedInOrder, Stages
  <2>2. CASE cont[k] = "set"
    <3>1. PICK t \in Threads : at[t] = [pc |-> "next", stage |-> k]
      BY <2>1, <2>2 DEF IInv, NoLostContinuation
    <3>. QED
      BY <2>2, <3>1
  <2>3. CASE cont[k] = "taken"
    BY <2>1, <2>3 DEF TakenInHand, AtFrontier, Working
  <2>. QED
    BY <2>1, <2>2, <2>3
<1>. QED
  BY <1>1, <1>2, <1>3, ChainInvariant, PTL DEF Spec

\* future.h: each continuation function is called once, in the order of the chain and only with
\* the value of the one before it, and a continuation whose future is resolved is in somebody's hand.
THEOREM ChainRunsInOrder == Spec => []ContinuationsRunOnceInOrder
<1>1. IInv /\ ContinuationInHand => ContinuationsRunOnceInOrder
  BY DEF IInv, FunctionsCalled, ContinuationsRunOnceInOrder
<1>. QED
  BY <1>1, ChainInvariant, NoContinuationIsLost, PTL

\* Where nobody is let through after reset(), and the functions called are what they were.
Ended(n) == canceled /\ ~IsAt("executor", "start") /\ Len(started) = n

LEMMA NextEnded ==
  ASSUME TypeOK, [Next]_vars, NEW n, Ended(n)
  PROVE  Ended(n)'
<1>1. at \in [Threads -> Place] /\ "executor" \in Threads /\ canceled
  BY DEF Threads, TypeOK, Ended
<1>2. at["executor"].pc # "start" /\ Len(started) = n
  BY DEF Ended, IsAt
<1>3. SUFFICES canceled' /\ started' = started /\ at'["executor"].pc # "start"
  BY <1>2 DEF Ended, IsAt
<1>4. CASE UNCHANGED vars
  BY <1>1, <1>2, <1>4 DEF vars
<1>5. ASSUME NEW t \in Threads, Step(t) PROVE canceled' /\ started' = started /\ at'["executor"].pc # "start"
  <2>1. canceled' = canceled /\ started' = started
    BY <1>5 DEF Step, TakeNext, Skip, Continue, Spawn, Notify, futureVars
  <2>2. \/ \E pc \in {"continue", "next", "spawn", "notify"} : \E stage : Goes(t, pc, stage)
        \/ Rests(t)
    BY <1>5 DEF Step, TakeNext, Skip, Continue, Spawn, Notify
  <2>3. at'["executor"].pc # "start"
    BY <1>1, <1>2, <2>2 DEF Goes, Rests, Idle
  <2>. QED
    BY <1>1, <2>1, <2>3
<1>6. CASE Resolve \/ Then \/ Reset \/ Stop \/ NotifyStop \/ Join
  BY <1>1, <1>2, <1>6 DEF Resolve, Then, Chain, ThenOfPending, ThenOfReady, Reset, Stop, NotifyStop, Join,
                          IsAt, Goes, Rests, Idle, futureVars
<1>7. CASE TakeJob \/ SkipJob \/ FunctionReturns
  <2>1. canceled' = canceled /\ started' = started
    BY <1>7 DEF TakeJob, SkipJob, FunctionReturns, futureVars
  <2>2. \E pc \in {"job", "next"} : \E stage : Goes("executor", pc, stage)
    BY <1>7 DEF TakeJob, SkipJob, FunctionReturns
  <2>3. at'["executor"].pc # "start"
    BY <1>1, <2>2 DEF Goes
  <2>. QED
    BY <1>1, <2>1, <2>3
<1>8. CASE EnterJob \/ StartFunction
  BY <1>1, <1>2, <1>8 DEF EnterJob, StartFunction, IsAt
<1>9. CASE FinishJob \/ ExecutorLoops \/ ExecutorWakes \/ Terminated
  BY <1>1, <1>2, <1>9 DEF FinishJob, ExecutorLoops, ExecutorWakes, Terminated, futureVars, vars
<1>. QED
  BY <1>4, <1>5, <1>6, <1>7, <1>8, <1>9 DEF Next, ClientStep, ExecutorStep, Threads

\* future.h, of reset: once it has returned no function is called any more, but the one whose job
\* had looked at the token before.
THEOREM ResetStopsTheChain == Spec => ResetPreventsStart
<1>. SUFFICES ASSUME NEW n \in 0 .. Continuations
              PROVE  Spec => [](Ended(n) => [](Len(started) = n))
  BY DEF ResetPreventsStart, Ended
<1>1. IInv /\ [Next]_vars => (Ended(n) => Ended(n)')
  BY NextEnded DEF IInv
<1>2. Ended(n) => Len(started) = n
  BY DEF Ended
<1>. QED
  BY <1>1, <1>2, ChainInvariant, PTL DEF Spec

\* threadedexecutor.h: the executor's thread never sleeps through a job or through stop(),
\* although it is notified after the mutex was released.
THEOREM JobIsNotLost == Spec => []NoLostJob
<1>1. Init => NoLostJob
  BY DEF Init, ExecutorInit, NoLostJob
<1>2. IInv /\ NoLostJob /\ [Next]_vars => NoLostJob'
  BY NextJob
<1>. QED
  BY <1>1, <1>2, ChainInvariant, PTL DEF Spec
=============================================================================
