--------------------------- MODULE FasStreamProofs ---------------------------
(***************************************************************************)
(* Theorems about FasStream, for chains of any length, any number of       *)
(* values and any threads of the executor.                                 *)
(***************************************************************************)
EXTENDS FasStream, SequenceTheorems, TLAPS

-----------------------------------------------------------------------------
(* The right to run a continuation *)

FramesAt(s) == {f \in frames : f.stage = s}
JobsAt(s) == {j \in jobs : j.stage = s}

\* then() is called for one continuation after the other.
ChainedInOrder(s) == s \in Stages => (cont[s] = "none" <=> chained < s)

\* What runs a continuation, or has popped from the last state, is alone with it ...
RunnerIsAlone(s) ==
  /\ \A f, g \in FramesAt(s) : f = g
  /\ \A i, j \in JobsAt(s) : i = j
  /\ FramesAt(s) = {} \/ JobsAt(s) = {}

\* ... and finds the state as continueWith, its job or get() left it.
RunnerHasTheState(s) ==
  /\ JobsAt(s) # {} => processing[s] /\ s \in Stages /\ cont[s] = "there"
  /\ \A f \in FramesAt(s) :
       IF f.pc = "got"
         THEN processing[s] /\ s = chained + 1
         ELSE /\ s \in Stages /\ cont[s] = "there"
              /\ IF f.pc = "pop" THEN queue[s] # << >> /\ ~processing[s] ELSE processing[s]

\* As long as there is something to do for a continuation, something runs it; and only get()
\* leaves a value in process without a continuation.
SomebodyRuns(s) ==
  /\ s \in Stages /\ cont[s] = "there" /\ (queue[s] # << >> \/ processing[s])
       => FramesAt(s) # {} \/ JobsAt(s) # {} \/ canceled
  /\ processing[s] /\ s > chained => FramesAt(s) # {}

\* A state is closed by the continuation before it, which then runs no more ...
ClosedOnce(s) ==
  s \in Stages /\ finished[s + 1] => cont[s] = "reset" \/ \E f \in FramesAt(s) : f.pc = "drop"

StageFits(s) ==
  ChainedInOrder(s) /\ RunnerIsAlone(s) /\ RunnerHasTheState(s) /\ SomebodyRuns(s) /\ ClosedOnce(s)

RunnersFit == \A s \in States : StageFits(s)

\* ... and the first one by the producer.
RunnerInv == TypeOK /\ RunnersFit /\ (finished[1] => closed)

-----------------------------------------------------------------------------
(* The order of the values *)

\* How many elements were sent, the end of the stream included, and which was the nth.
Total == sent + (IF closed THEN 1 ELSE 0)
Nth(n) == IF n <= sent THEN n ELSE EndOfStream

\* With p[s] elements put into state s so far, in the order of sending, this many were taken out.
Popped(p, s) == p[s] - Len(queue[s])

\* What is queued in state s are the last of the p[s] elements.
QueuesInOrder(p) ==
  \A s \in States :
    /\ p[s] <= Total /\ Len(queue[s]) <= p[s]
    /\ \A i \in 1 .. Len(queue[s]) : queue[s][i] = Nth(Popped(p, s) + i)
    /\ s > chained + 1 => queue[s] = << >>

\* Continuation k has put all it has taken out of its state into the next one, but for the
\* element it has in its hands.
HandedOn(p, k) ==
  /\ k <= chained /\ ~processing[k] => p[k + 1] = Popped(p, k)
  /\ \A j \in JobsAt(k) : p[k + 1] + 1 = Popped(p, k) /\ j.value = Nth(Popped(p, k))
  /\ \A f \in FramesAt(k) :
       /\ f.pc = "push" => p[k + 1] + 1 = Popped(p, k) /\ f.value = Nth(Popped(p, k))
       /\ f.pc = "close" => p[k + 1] + 1 = Popped(p, k) /\ EndOfStream = Nth(Popped(p, k))
       /\ f.pc = "finish" => p[k + 1] = Popped(p, k)

\* get() returned the elements taken out of the last state, from the first one on.
GotInOrder(p) ==
  /\ Len(got) = Popped(p, chained + 1)
  /\ \A i \in 1 .. Len(got) : got[i] = Nth(i)

Flow(p) ==
  p[1] = Total /\ QueuesInOrder(p) /\ (\A k \in Stages : HandedOn(p, k)) /\ GotInOrder(p)

ValuesFlow == \E p \in [States -> 0 .. MaxValues + 1] : Flow(p)

-----------------------------------------------------------------------------
(* Frames and queues *)

\* The fields of a frame; the client's frame in get() is the one that need not belong to a continuation.
LEMMA FrameFields ==
  ASSUME NEW f \in Frame
  PROVE  /\ f.thread \in Threads /\ f.stage \in States /\ f.value \in Elements
         /\ f.pc \in {"pop", "close", "drop", "push", "finish", "got"}
         /\ f.pc = "got" => f.thread = "client"
         /\ f.pc # "got" => f.stage \in Stages
BY StreamAssumption DEF Frame, Stages, States, Threads

\* A frame of continueWith goes on.
LEMMA FrameGoesOn ==
  ASSUME NEW f \in Frame, f.pc # "got", NEW pc \in {"pop", "close", "drop", "push", "finish"}
  PROVE  /\ [f EXCEPT !.pc = pc] \in Frame
         /\ [f EXCEPT !.pc = pc].stage = f.stage
         /\ [f EXCEPT !.pc = pc].thread = f.thread
         /\ [f EXCEPT !.pc = pc].value = f.value
         /\ [f EXCEPT !.pc = pc].pc = pc
BY DEF Frame

\* A call of continueWith.
LEMMA CallFields ==
  ASSUME NEW t \in Threads, NEW k \in Stages
  PROVE  Call(t, k) \in Frame /\ Call(t, k).stage = k /\ Call(t, k).pc = "pop" /\ Call(t, k).thread = t
BY DEF Call, Frame, Elements, EndOfStream

\* Whoever pushes to a state calls at most its continuation.
LEMMA CalledFields ==
  ASSUME NEW t \in Threads, NEW s \in States
  PROVE  /\ CalledAfterPush(t, s) \subseteq Frame
         /\ CalledAfterPush(t, s) = IF MustExecute(s) THEN {Call(t, s)} ELSE {}
BY CallFields DEF CalledAfterPush, MustExecute, HasContinuation

\* What pushing an element does to the queues.
LEMMA PushedQueue ==
  ASSUME TypeOK, NEW s \in States, NEW e \in Elements, Pushed(s, e)
  PROVE  /\ queue' \in [States -> Seq(Elements)]
         /\ queue'[s] # << >> /\ queue'[s] = Append(queue[s], e)
         /\ \A r \in States : r # s => queue'[r] = queue[r]
<1>1. queue[s] \in Seq(Elements)
  BY DEF TypeOK
<1>2. Append(queue[s], e) \in Seq(Elements) /\ Append(queue[s], e) # << >>
  BY <1>1, AppendProperties
<1>. QED
  BY <1>2 DEF Pushed, TypeOK

\* What taking an element out does to them.
LEMMA PoppedQueue ==
  ASSUME TypeOK, NEW s \in States, queue[s] # << >>, queue' = [queue EXCEPT ![s] = Tail(@)]
  PROVE  /\ queue' \in [States -> Seq(Elements)]
         /\ Head(queue[s]) \in Elements
         /\ queue'[s] = Tail(queue[s])
         /\ \A r \in States : r # s => queue'[r] = queue[r]
<1>1. queue[s] \in Seq(Elements)
  BY DEF TypeOK
<1>2. Tail(queue[s]) \in Seq(Elements) /\ Head(queue[s]) \in Elements
  BY <1>1, HeadTailProperties
<1>. QED
  BY <1>2 DEF TypeOK

\* A step leaves every variable in its type.
LEMMA NextTypes ==
  ASSUME TypeOK, [Next]_vars
  PROVE  TypeOK'
<1>. USE StreamAssumption
<1>1. /\ "producer" \in Threads /\ "client" \in Threads /\ Workers \subseteq Threads
      /\ 1 \in States /\ \A k \in Stages : k \in States /\ k + 1 \in States
      /\ EndOfStream \in Elements /\ Values \subseteq Elements
  BY DEF Threads, States, Stages, Elements
<1>2. \A f \in frames : f \in Frame
  BY DEF TypeOK
<1>3. CASE Send
  <2>1. sent + 1 \in 0 .. MaxValues /\ sent + 1 \in Elements
    BY <1>3 DEF Send, TypeOK, Elements, Values
  <2>2. queue' \in [States -> Seq(Elements)]
    BY <1>1, <1>3, <2>1, PushedQueue DEF Send
  <2>3. frames' \subseteq Frame
    BY <1>1, <1>3, CalledFields DEF Send, TypeOK
  <2>. QED
    BY <1>3, <2>1, <2>2, <2>3 DEF Send, TypeOK
<1>4. CASE ResetProducer
  <2>1. queue' \in [States -> Seq(Elements)] /\ finished' \in [States -> BOOLEAN]
    BY <1>1, <1>4, PushedQueue DEF ResetProducer, Closed, TypeOK
  <2>2. frames' \subseteq Frame
    BY <1>1, <1>4, CalledFields DEF ResetProducer, TypeOK
  <2>. QED
    BY <1>4, <2>1, <2>2 DEF ResetProducer, TypeOK
<1>5. CASE Then
  <2>1. chained + 1 \in Stages /\ chained + 1 \in 0 .. Continuations
    BY <1>5 DEF Then, TypeOK, Stages
  <2>2. frames' \subseteq Frame
    BY <1>1, <1>5, <2>1, CallFields DEF Then, TypeOK
  <2>. QED
    BY <1>5, <2>1, <2>2 DEF Then, TypeOK
<1>6. CASE Get
  <2>. DEFINE s == chained + 1
  <2>1. s \in States
    BY DEF TypeOK, States
  <2>2. queue' \in [States -> Seq(Elements)] /\ Head(queue[s]) \in Elements
    BY <1>6, <2>1, PoppedQueue DEF Get
  <2>3. got' \in Seq(Elements)
    BY <1>6, <2>2, AppendProperties DEF Get, TypeOK
  <2>4. [thread |-> "client", stage |-> s, pc |-> "got", value |-> Head(queue[s])] \in Frame
    BY <2>1, <2>2 DEF Frame
  <2>5. frames' \subseteq Frame
    BY <1>6, <2>4 DEF Get, TypeOK
  <2>. QED
    BY <1>6, <2>1, <2>2, <2>3, <2>5 DEF Get, TypeOK
<1>7. CASE Reset
  BY <1>7 DEF Reset, TypeOK
<1>8. ASSUME NEW f \in frames, PopValue(f)
      PROVE  TypeOK'
  <2>1. f \in Frame /\ f.pc # "got" /\ f.stage \in Stages /\ f.stage \in States
    BY <1>1, <1>2, <1>8, FrameFields DEF PopValue
  <2>2. queue' \in [States -> Seq(Elements)] /\ Head(queue[f.stage]) \in Elements
    BY <1>8, <2>1, PoppedQueue DEF PopValue
  <2>3. CASE Head(queue[f.stage]) = EndOfStream
    <3>1. [f EXCEPT !.pc = "close"] \in Frame
      BY <2>1, FrameGoesOn
    <3>2. frames' = (frames \ {f}) \cup {[f EXCEPT !.pc = "close"]} /\ jobs' = jobs
      BY <1>8, <2>3 DEF PopValue
    <3>. QED
      BY <1>8, <2>1, <2>2, <3>1, <3>2 DEF PopValue, TypeOK
  <2>4. CASE Head(queue[f.stage]) # EndOfStream
    <3>1. Head(queue[f.stage]) \in Values
      BY <2>2, <2>4 DEF Elements
    <3>2. frames' \subseteq Frame /\ jobs' \subseteq [stage : Stages, value : Values]
      BY <1>8, <2>1, <2>4, <3>1 DEF PopValue, TypeOK
    <3>. QED
      BY <1>8, <2>1, <2>2, <3>2 DEF PopValue, TypeOK
  <2>. QED
    BY <2>3, <2>4
<1>9. ASSUME NEW f \in frames, CloseNext(f)
      PROVE  TypeOK'
  <2>1. f \in Frame /\ f.pc # "got" /\ f.thread \in Threads /\ f.stage + 1 \in States
    BY <1>1, <1>2, <1>9, FrameFields DEF CloseNext
  <2>2. queue' \in [States -> Seq(Elements)] /\ finished' \in [States -> BOOLEAN]
    BY <1>1, <1>9, <2>1, PushedQueue DEF CloseNext, Closed, TypeOK
  <2>3. frames' \subseteq Frame
    <3>1. [f EXCEPT !.pc = "drop"] \in Frame
      BY <2>1, FrameGoesOn
    <3>2. CalledAfterPush(f.thread, f.stage + 1) \subseteq Frame
      BY <2>1, CalledFields
    <3>. QED
      BY <1>9, <3>1, <3>2 DEF CloseNext, TypeOK
  <2>. QED
    BY <1>9, <2>2, <2>3 DEF CloseNext, TypeOK
<1>10. ASSUME NEW f \in frames, ResetContinuation(f)
       PROVE  TypeOK'
  BY <1>10 DEF ResetContinuation, TypeOK
<1>11. ASSUME NEW f \in frames, PushResult(f)
       PROVE  TypeOK'
  <2>1. /\ f \in Frame /\ f.pc # "got" /\ f.thread \in Threads /\ f.stage + 1 \in States
        /\ f.value \in Elements
    BY <1>1, <1>2, <1>11, FrameFields DEF PushResult
  <2>2. queue' \in [States -> Seq(Elements)]
    BY <1>11, <2>1, PushedQueue DEF PushResult
  <2>3. frames' \subseteq Frame
    <3>1. [f EXCEPT !.pc = "finish"] \in Frame
      BY <2>1, FrameGoesOn
    <3>2. CalledAfterPush(f.thread, f.stage + 1) \subseteq Frame
      BY <2>1, CalledFields
    <3>. QED
      BY <1>11, <3>1, <3>2 DEF PushResult, TypeOK
  <2>. QED
    BY <1>11, <2>2, <2>3 DEF PushResult, TypeOK
<1>12. ASSUME NEW f \in frames, FinishedProcessing(f)
       PROVE  TypeOK'
  <2>1. f.thread \in Threads /\ f.stage \in Stages /\ f.stage \in States
    BY <1>1, <1>2, <1>12, FrameFields DEF FinishedProcessing
  <2>2. frames' \subseteq Frame
    BY <1>12, <2>1, CallFields DEF FinishedProcessing, TypeOK
  <2>. QED
    BY <1>12, <2>1, <2>2 DEF FinishedProcessing, TypeOK
<1>13. ASSUME NEW f \in frames, GetReturns(f)
       PROVE  TypeOK'
  BY <1>13 DEF GetReturns, TypeOK
<1>14. ASSUME NEW j \in jobs, DiscardValue(j)
       PROVE  TypeOK'
  BY <1>14 DEF DiscardValue, TypeOK
<1>15. ASSUME NEW j \in jobs, NEW w \in Workers, StartJob(w, j)
       PROVE  TypeOK'
  <2>1. [thread |-> w, stage |-> j.stage, pc |-> "push", value |-> j.value] \in Frame
    BY <1>1 DEF TypeOK, Frame
  <2>2. frames' \subseteq Frame /\ jobs' \subseteq [stage : Stages, value : Values]
    BY <1>15, <2>1 DEF StartJob, TypeOK
  <2>. QED
    BY <1>15, <2>2 DEF StartJob, TypeOK
<1>16. CASE UNCHANGED vars
  BY <1>16 DEF vars, TypeOK
<1>. QED
  BY <1>3, <1>4, <1>5, <1>6, <1>7, <1>8, <1>9, <1>10, <1>11, <1>12, <1>13, <1>14, <1>15, <1>16
  DEF Next, Progress, RunJob, Continue, Terminated

-----------------------------------------------------------------------------
(* One runner *)

\* What a frame finds: it is alone at its stage, with the state as RunnerHasTheState says.
LEMMA FrameStage ==
  ASSUME TypeOK, RunnersFit, NEW f \in frames
  PROVE  /\ f \in Frame /\ f.thread \in Threads /\ f.value \in Elements
         /\ f.stage \in States /\ StageFits(f.stage)
         /\ FramesAt(f.stage) = {f} /\ JobsAt(f.stage) = {}
         /\ f.pc = "got" => processing[f.stage] /\ f.stage = chained + 1
         /\ f.pc # "got" => /\ f.stage \in Stages /\ f.stage + 1 \in States /\ f.stage + 1 # f.stage
                            /\ cont[f.stage] = "there" /\ f.stage <= chained
                            /\ f.pc # "pop" => processing[f.stage]
<1>1. f \in Frame /\ f.stage \in States /\ f \in FramesAt(f.stage)
  BY FrameFields DEF TypeOK, FramesAt
<1>2. StageFits(f.stage)
  BY <1>1 DEF RunnersFit
<1>3. FramesAt(f.stage) = {f} /\ JobsAt(f.stage) = {}
  BY <1>1, <1>2 DEF StageFits, RunnerIsAlone
<1>4. /\ f.pc = "got" => processing[f.stage] /\ f.stage = chained + 1
      /\ f.pc # "got" => f.stage \in Stages /\ cont[f.stage] = "there" /\ (f.pc # "pop" => processing[f.stage])
  BY <1>1, <1>2 DEF StageFits, RunnerHasTheState
<1>5. f.pc # "got" => f.stage + 1 \in States /\ f.stage + 1 # f.stage /\ f.stage <= chained
  BY <1>2, <1>4, StreamAssumption DEF StageFits, ChainedInOrder, Stages, States, TypeOK
<1>. QED
  BY <1>1, <1>2, <1>3, <1>4, <1>5, FrameFields

\* What a job finds.
LEMMA JobStage ==
  ASSUME TypeOK, RunnersFit, NEW j \in jobs
  PROVE  /\ j.stage \in Stages /\ j.stage \in States /\ j.value \in Values /\ StageFits(j.stage)
         /\ JobsAt(j.stage) = {j} /\ FramesAt(j.stage) = {}
         /\ processing[j.stage] /\ cont[j.stage] = "there" /\ j.stage <= chained
<1>1. j.stage \in Stages /\ j.stage \in States /\ j.value \in Values /\ j \in JobsAt(j.stage)
  BY StreamAssumption DEF TypeOK, JobsAt, Stages, States
<1>2. StageFits(j.stage)
  BY <1>1 DEF RunnersFit
<1>3. JobsAt(j.stage) = {j} /\ FramesAt(j.stage) = {}
  BY <1>1, <1>2 DEF StageFits, RunnerIsAlone
<1>4. processing[j.stage] /\ cont[j.stage] = "there"
  BY <1>1, <1>2 DEF StageFits, RunnerHasTheState
<1>5. j.stage <= chained
  BY <1>1, <1>2, <1>4 DEF StageFits, ChainedInOrder, Stages, TypeOK
<1>. QED
  BY <1>1, <1>2, <1>3, <1>4, <1>5

\* The frames at a stage after frames at one stage have come.
LEMMA FrameAdded ==
  ASSUME NEW k, NEW G, \A g \in G : g.stage = k, frames' = frames \cup G
  PROVE  FramesAt(k)' = FramesAt(k) \cup G /\ \A s : s # k => FramesAt(s)' = FramesAt(s)
BY DEF FramesAt

\* A stage that a step leaves alone stays as it is.
LEMMA StageStays ==
  ASSUME NEW s \in States, StageFits(s),
         FramesAt(s)' = FramesAt(s), JobsAt(s)' = JobsAt(s),
         queue'[s] = queue[s], processing'[s] = processing[s],
         s \in Stages => cont'[s] = cont[s] /\ finished'[s + 1] = finished[s + 1],
         chained' = chained, canceled => canceled'
  PROVE  StageFits(s)'
<1>1. ChainedInOrder(s)' /\ RunnerIsAlone(s)'
  BY DEF StageFits, ChainedInOrder, RunnerIsAlone
<1>2. RunnerHasTheState(s)'
  BY DEF StageFits, RunnerHasTheState
<1>3. SomebodyRuns(s)' /\ ClosedOnce(s)'
  BY DEF StageFits, SomebodyRuns, ClosedOnce
<1>. QED
  BY <1>1, <1>2, <1>3 DEF StageFits

\* A push: the caller runs the continuation of the state if nobody does and there is one.
LEMMA PushFits ==
  ASSUME TypeOK, NEW t \in Threads, NEW s \in States, NEW e \in Elements,
         StageFits(s), Pushed(s, e),
         FramesAt(s)' = FramesAt(s) \cup CalledAfterPush(t, s), JobsAt(s)' = JobsAt(s),
         s \in Stages => finished'[s + 1] = finished[s + 1],
         UNCHANGED <<processing, cont, chained, canceled>>
  PROVE  StageFits(s)'
<1>1. queue'[s] # << >>
  BY PushedQueue
<1>2. ChainedInOrder(s)'
  BY DEF StageFits, ChainedInOrder
<1>3. CASE MustExecute(s)
  <2>1. s \in Stages /\ cont[s] = "there" /\ ~processing[s] /\ queue[s] = << >>
    BY <1>3 DEF MustExecute, HasContinuation
  <2>2. FramesAt(s) = {} /\ JobsAt(s) = {}
    BY <2>1 DEF StageFits, RunnerHasTheState
  <2>3. PICK c : c = Call(t, s) /\ c.pc = "pop" /\ FramesAt(s)' = {c}
    BY <1>3, <2>1, <2>2, CallFields DEF CalledAfterPush
  <2>4. RunnerIsAlone(s)' /\ RunnerHasTheState(s)'
    BY <1>1, <2>1, <2>2, <2>3 DEF RunnerIsAlone, RunnerHasTheState
  <2>5. SomebodyRuns(s)'
    BY <2>1, <2>3 DEF SomebodyRuns
  <2>6. ClosedOnce(s)'
    BY <2>1, <2>2 DEF StageFits, ClosedOnce
  <2>. QED
    BY <1>2, <2>4, <2>5, <2>6 DEF StageFits
<1>4. CASE ~MustExecute(s)
  <2>1. FramesAt(s)' = FramesAt(s)
    BY <1>4 DEF CalledAfterPush
  <2>2. RunnerIsAlone(s)' /\ RunnerHasTheState(s)'
    BY <1>1, <2>1 DEF StageFits, RunnerIsAlone, RunnerHasTheState
  <2>3. SomebodyRuns(s)'
    BY <1>4, <2>1 DEF StageFits, SomebodyRuns, MustExecute, HasContinuation
  <2>4. ClosedOnce(s)'
    BY <2>1 DEF StageFits, ClosedOnce
  <2>. QED
    BY <1>2, <2>2, <2>3, <2>4 DEF StageFits
<1>. QED
  BY <1>3, <1>4

\* While the client is in no call, nothing is in process in the last state.
LEMMA LastIsIdle ==
  ASSUME TypeOK, RunnersFit, IsIdle("client")
  PROVE  /\ chained + 1 \in States /\ StageFits(chained + 1)
         /\ ~processing[chained + 1] /\ FramesAt(chained + 1) = {} /\ JobsAt(chained + 1) = {}
         /\ \A f \in frames : f.pc # "got"
<1>1. \A f \in frames : f.pc # "got"
  <2>. SUFFICES ASSUME NEW f \in frames, f.pc = "got" PROVE FALSE
    OBVIOUS
  <2>1. f.thread = "client"
    BY FrameFields DEF TypeOK
  <2>. QED
    BY <2>1 DEF IsIdle
<1>2. chained + 1 \in States /\ chained < chained + 1
  BY StreamAssumption DEF TypeOK, States
<1>3. StageFits(chained + 1)
  BY <1>2 DEF RunnersFit
<1>4. chained + 1 \in Stages => cont[chained + 1] = "none"
  BY <1>2, <1>3 DEF StageFits, ChainedInOrder
<1>5. FramesAt(chained + 1) = {}
  <2>. SUFFICES ASSUME NEW f \in FramesAt(chained + 1) PROVE FALSE
    OBVIOUS
  <2>1. f \in frames
    BY DEF FramesAt
  <2>. QED
    BY <1>1, <1>3, <1>4, <2>1 DEF StageFits, RunnerHasTheState
<1>6. JobsAt(chained + 1) = {}
  BY <1>3, <1>4 DEF StageFits, RunnerHasTheState
<1>7. ~processing[chained + 1]
  BY <1>2, <1>3, <1>5 DEF StageFits, SomebodyRuns
<1>. QED
  BY <1>1, <1>2, <1>3, <1>5, <1>6, <1>7


\* A push by a thread that is in no other call.
LEMMA PushOnly ==
  ASSUME TypeOK, RunnersFit, NEW t \in Threads, NEW e \in Elements, NEW r \in States,
         Pushed(r, e), frames' = frames \cup CalledAfterPush(t, r),
         UNCHANGED <<processing, cont, chained, canceled, jobs>>,
         \A k \in Stages : finished'[k + 1] = finished[k + 1],
         NEW s \in States
  PROVE  StageFits(s)'
<1>1. StageFits(s) /\ JobsAt(s)' = JobsAt(s)
  BY DEF RunnersFit, JobsAt
<1>2. \A c \in CalledAfterPush(t, r) : c.stage = r
  BY CalledFields, CallFields DEF MustExecute, HasContinuation
<1>3. /\ FramesAt(r)' = FramesAt(r) \cup CalledAfterPush(t, r)
      /\ s # r => FramesAt(s)' = FramesAt(s) /\ queue'[s] = queue[s]
  BY <1>2, FrameAdded, PushedQueue
<1>4. CASE s = r
  BY <1>1, <1>3, <1>4, PushFits
<1>5. CASE s # r
  BY <1>1, <1>3, <1>5, StageStays
<1>. QED
  BY <1>4, <1>5

\* A push by continuation k, which goes on to its next step.
LEMMA ContinuationPushes ==
  ASSUME TypeOK, RunnersFit, NEW f \in frames, f.pc \in {"close", "push"}, NEW pc \in {"drop", "finish"},
         NEW e \in Elements, Pushed(f.stage + 1, e),
         frames' = (frames \ {f}) \cup {[f EXCEPT !.pc = pc]} \cup CalledAfterPush(f.thread, f.stage + 1),
         UNCHANGED <<processing, cont, chained, canceled, jobs>>,
         \A r \in States : r # f.stage + 1 \/ pc # "drop" => finished'[r] = finished[r],
         NEW s \in States
  PROVE  StageFits(s)'
<1>. DEFINE k == f.stage
<1>1. /\ f \in Frame /\ f.pc # "got" /\ f.thread \in Threads
      /\ k \in States /\ k + 1 \in States /\ k + 1 # k /\ k \in Stages
      /\ StageFits(k) /\ FramesAt(k) = {f} /\ JobsAt(k) = {} /\ cont[k] = "there" /\ processing[k]
  BY FrameStage
<1>2. PICK g : g = [f EXCEPT !.pc = pc] /\ g.stage = k /\ g.pc = pc
  <2>1. pc \in {"pop", "close", "drop", "push", "finish"}
    OBVIOUS
  <2>2. [f EXCEPT !.pc = pc].stage = f.stage /\ [f EXCEPT !.pc = pc].pc = pc
    BY <1>1, <2>1, FrameGoesOn
  <2>. QED
    BY <2>2
<1>3. StageFits(s) /\ JobsAt(s)' = JobsAt(s)
  BY DEF RunnersFit, JobsAt
<1>4. \A c \in CalledAfterPush(f.thread, k + 1) : c.stage = k + 1
  BY <1>1, CalledFields, CallFields DEF MustExecute, HasContinuation
<1>5. frames' = (frames \ {f}) \cup {g} \cup CalledAfterPush(f.thread, k + 1)
  BY <1>2
<1>6. /\ FramesAt(k)' = {g}
      /\ FramesAt(k + 1)' = FramesAt(k + 1) \cup CalledAfterPush(f.thread, k + 1)
      /\ s # k /\ s # k + 1 => FramesAt(s)' = FramesAt(s)
  <2>. DEFINE called == CalledAfterPush(f.thread, k + 1)
  <2>1. /\ \A c \in called : c.stage = k + 1
        /\ \A h \in frames : h.stage = k <=> h = f
        /\ f \in frames /\ g.stage = k /\ k + 1 # k
    BY <1>1, <1>2, <1>4 DEF FramesAt
  <2>. HIDE DEF called
  <2>2. frames' = (frames \ {f}) \cup {g} \cup called
    BY <1>5 DEF called
  <2>. HIDE DEF k
  <2>3. {h \in frames' : h.stage = k} = {g}
    BY <2>1, <2>2
  <2>4. {h \in frames' : h.stage = k + 1} = {h \in frames : h.stage = k + 1} \cup called
    BY <2>1, <2>2
  <2>5. s # k /\ s # k + 1 => {h \in frames' : h.stage = s} = {h \in frames : h.stage = s}
    BY <2>1, <2>2
  <2>. QED
    BY <2>3, <2>4, <2>5 DEF FramesAt, called
<1>7. s # k + 1 => queue'[s] = queue[s]
  BY <1>1, PushedQueue
<1>8. s \in Stages /\ s # k => finished'[s + 1] = finished[s + 1]
  BY <1>1, StreamAssumption DEF Stages, States
<1>9. CASE s = k
  <2>1. ChainedInOrder(k)' /\ RunnerIsAlone(k)'
    BY <1>1, <1>3, <1>6, <1>9 DEF StageFits, ChainedInOrder, RunnerIsAlone
  <2>2. RunnerHasTheState(k)'
    BY <1>1, <1>2, <1>3, <1>6, <1>9 DEF RunnerHasTheState
  <2>3. SomebodyRuns(k)'
    BY <1>6 DEF SomebodyRuns
  <2>4. ClosedOnce(k)'
    <3>1. CASE pc = "drop"
      BY <1>2, <1>6, <3>1 DEF ClosedOnce
    <3>2. CASE pc # "drop"
      <4>1. ~finished[k + 1]
        BY <1>1 DEF StageFits, ClosedOnce
      <4>. QED
        BY <1>1, <3>2, <4>1 DEF ClosedOnce
    <3>. QED
      BY <3>1, <3>2
  <2>. QED
    BY <1>9, <2>1, <2>2, <2>3, <2>4 DEF StageFits
<1>10. CASE s = k + 1
  BY <1>1, <1>3, <1>6, <1>8, <1>10, PushFits
<1>11. CASE s # k /\ s # k + 1
  BY <1>3, <1>6, <1>7, <1>8, <1>11, StageStays
<1>. QED
  BY <1>9, <1>10, <1>11

\* Each step of the producer, a continuation, a job and the client keeps all stages as they should be.
LEMMA NextRunners ==
  ASSUME TypeOK, RunnersFit, [Next]_vars
  PROVE  RunnersFit'
<1>1. /\ "producer" \in Threads /\ "client" \in Threads /\ 1 \in States /\ EndOfStream \in Elements
      /\ \A k \in Stages : k \in States /\ k + 1 \in States /\ k + 1 # 1 /\ k + 1 # k
      /\ \A k, l \in Stages : k + 1 = l + 1 => k = l
  BY StreamAssumption DEF Threads, Stages, States, Elements
<1>2. /\ queue \in [States -> Seq(Elements)]
      /\ processing \in [States -> BOOLEAN] /\ finished \in [States -> BOOLEAN]
      /\ cont \in [Stages -> {"none", "there", "reset"}]
  BY DEF TypeOK
<1>3. CASE Send
  <2>1. /\ Pushed(1, sent + 1)
        /\ frames' = frames \cup CalledAfterPush("producer", 1)
        /\ UNCHANGED <<processing, cont, finished, chained, canceled, jobs>>
    BY <1>3 DEF Send
  <2>2. sent + 1 \in Elements
    BY <1>3, StreamAssumption DEF Send, TypeOK, Elements, Values
  <2>. SUFFICES ASSUME NEW s \in States PROVE StageFits(s)'
    BY DEF RunnersFit
  <2>. QED
    BY <1>1, <2>1, <2>2, PushOnly
<1>4. CASE ResetProducer
  <2>1. /\ Pushed(1, EndOfStream)
        /\ frames' = frames \cup CalledAfterPush("producer", 1)
        /\ UNCHANGED <<processing, cont, chained, canceled, jobs>>
        /\ \A k \in Stages : finished'[k + 1] = finished[k + 1]
    BY <1>1, <1>2, <1>4 DEF ResetProducer, Closed
  <2>. SUFFICES ASSUME NEW s \in States PROVE StageFits(s)'
    BY DEF RunnersFit
  <2>. QED
    BY <1>1, <2>1, PushOnly
<1>5. ASSUME NEW f \in frames, CloseNext(f)
      PROVE  RunnersFit'
  <2>1. /\ f.pc = "close" /\ Pushed(f.stage + 1, EndOfStream)
        /\ frames' = (frames \ {f}) \cup {[f EXCEPT !.pc = "drop"]} \cup CalledAfterPush(f.thread, f.stage + 1)
        /\ UNCHANGED <<processing, cont, chained, canceled, jobs>>
        /\ \A r \in States : r # f.stage + 1 => finished'[r] = finished[r]
    BY <1>2, <1>5 DEF CloseNext, Closed
  <2>. SUFFICES ASSUME NEW s \in States PROVE StageFits(s)'
    BY DEF RunnersFit
  <2>. QED
    BY <1>1, <2>1, ContinuationPushes
<1>6. ASSUME NEW f \in frames, PushResult(f)
      PROVE  RunnersFit'
  <2>1. /\ f.pc = "push" /\ Pushed(f.stage + 1, f.value) /\ f.value \in Elements
        /\ frames' = (frames \ {f}) \cup {[f EXCEPT !.pc = "finish"]} \cup CalledAfterPush(f.thread, f.stage + 1)
        /\ UNCHANGED <<processing, cont, finished, chained, canceled, jobs>>
    BY <1>6, FrameStage DEF PushResult
  <2>. SUFFICES ASSUME NEW s \in States PROVE StageFits(s)'
    BY DEF RunnersFit
  <2>. QED
    BY <2>1, ContinuationPushes
<1>7. ASSUME NEW f \in frames, PopValue(f)
      PROVE  RunnersFit'
  <2>. DEFINE k == f.stage
  <2>1. /\ f \in Frame /\ f.pc = "pop" /\ k \in States /\ k \in Stages /\ StageFits(k)
        /\ FramesAt(k) = {f} /\ JobsAt(k) = {} /\ cont[k] = "there" /\ queue[k] # << >>
    BY <1>7, FrameStage DEF PopValue
  <2>2. /\ \A s \in States : s # k => queue'[s] = queue[s] /\ processing'[s] = processing[s]
        /\ processing'[k] = TRUE
        /\ UNCHANGED <<cont, finished, chained, canceled>>
    BY <1>2, <1>7, <2>1, PoppedQueue DEF PopValue
  <2>3. ~ \E g \in FramesAt(k) : g.pc = "drop"
    BY <2>1
  <2>4. ~finished[k + 1]
    BY <2>1, <2>3 DEF StageFits, ClosedOnce
  <2>5. CASE Head(queue[k]) = EndOfStream
    <3>1. PICK g \in Frame : g = [f EXCEPT !.pc = "close"] /\ g.stage = k /\ g.pc = "close"
      BY <2>1, FrameGoesOn
    <3>2. frames' = (frames \ {f}) \cup {g} /\ jobs' = jobs
      BY <1>7, <2>5, <3>1 DEF PopValue
    <3>3. FramesAt(k)' = {g} /\ \A s \in States : s # k => FramesAt(s)' = FramesAt(s)
      BY <2>1, <3>1, <3>2 DEF FramesAt
    <3>4. \A s : JobsAt(s)' = JobsAt(s)
      BY <3>2 DEF JobsAt
    <3>5. ASSUME NEW s \in States PROVE StageFits(s)'
      <4>1. CASE s # k
        BY <2>2, <3>3, <3>4, <4>1, StageStays DEF RunnersFit
      <4>2. StageFits(k)'
        BY <2>1, <2>2, <2>4, <3>1, <3>3, <3>4
        DEF StageFits, ChainedInOrder, RunnerIsAlone, RunnerHasTheState, SomebodyRuns, ClosedOnce
      <4>. QED
        BY <4>1, <4>2
    <3>. QED
      BY <3>5 DEF RunnersFit
  <2>6. CASE Head(queue[k]) # EndOfStream
    <3>. DEFINE j == [stage |-> f.stage, value |-> Head(queue[f.stage])]
    <3>1. j.stage = k /\ jobs' = jobs \cup {j} /\ frames' = (frames \ {f}) \cup {}
      BY <1>7, <2>6 DEF PopValue
    <3>2. FramesAt(k)' = {} /\ \A s \in States : s # k => FramesAt(s)' = FramesAt(s)
      BY <2>1, <3>1 DEF FramesAt
    <3>. HIDE DEF j
    <3>3. JobsAt(k)' = {j} /\ \A s \in States : s # k => JobsAt(s)' = JobsAt(s)
      BY <2>1, <3>1 DEF JobsAt
    <3>4. ASSUME NEW s \in States PROVE StageFits(s)'
      <4>1. CASE s # k
        BY <2>2, <3>2, <3>3, <4>1, StageStays DEF RunnersFit
      <4>2. StageFits(k)'
        <5>1. ChainedInOrder(k)' /\ RunnerIsAlone(k)'
          BY <2>1, <2>2, <3>2, <3>3 DEF StageFits, ChainedInOrder, RunnerIsAlone
        <5>2. RunnerHasTheState(k)' /\ SomebodyRuns(k)' /\ ClosedOnce(k)'
          <6>1. chained >= k /\ chained \in Nat /\ k \in Nat
            BY <1>7, FrameStage, StreamAssumption DEF PopValue, TypeOK, Stages
          <6>. QED
            BY <2>1, <2>2, <2>4, <3>2, <3>3, <6>1 DEF RunnerHasTheState, SomebodyRuns, ClosedOnce
        <5>. QED
          BY <5>1, <5>2 DEF StageFits
      <4>. QED
        BY <4>1, <4>2
    <3>. QED
      BY <3>4 DEF RunnersFit
  <2>. QED
    BY <2>5, <2>6
<1>8. ASSUME NEW f \in frames, ResetContinuation(f)
      PROVE  RunnersFit'
  <2>. DEFINE k == f.stage
  <2>1. /\ f.pc = "drop" /\ k \in States /\ k \in Stages /\ StageFits(k) /\ k <= chained
        /\ FramesAt(k) = {f} /\ JobsAt(k) = {} /\ cont[k] = "there"
    BY <1>8, FrameStage DEF ResetContinuation
  <2>2. /\ \A s \in Stages : s # k => cont'[s] = cont[s]
        /\ cont'[k] = "reset"
        /\ frames' = frames \ {f}
        /\ UNCHANGED <<queue, processing, finished, chained, canceled, jobs>>
    BY <1>2, <1>8, <2>1 DEF ResetContinuation
  <2>3. FramesAt(k)' = {} /\ \A s \in States : s # k => FramesAt(s)' = FramesAt(s)
    BY <2>1, <2>2 DEF FramesAt
  <2>4. \A s : JobsAt(s)' = JobsAt(s)
    BY <2>2 DEF JobsAt
  <2>5. ASSUME NEW s \in States PROVE StageFits(s)'
    <3>1. CASE s # k
      BY <2>2, <2>3, <2>4, <3>1, StageStays DEF RunnersFit
    <3>2. StageFits(k)'
      <4>1. ~(chained < k)
        BY <2>1 DEF StageFits, ChainedInOrder
      <4>2. chained \in Nat /\ k \in Nat
        BY <2>1, StreamAssumption DEF TypeOK, Stages
      <4>. QED
        BY <2>1, <2>2, <2>3, <2>4, <4>1, <4>2
        DEF StageFits, ChainedInOrder, RunnerIsAlone, RunnerHasTheState, SomebodyRuns, ClosedOnce
    <3>. QED
      BY <3>1, <3>2
  <2>. QED
    BY <2>5 DEF RunnersFit
<1>9. ASSUME NEW f \in frames, FinishedProcessing(f)
      PROVE  RunnersFit'
  <2>. DEFINE k == f.stage
  <2>1. /\ f.pc = "finish" /\ k \in States /\ k \in Stages /\ StageFits(k) /\ f.thread \in Threads
        /\ FramesAt(k) = {f} /\ JobsAt(k) = {} /\ cont[k] = "there"
    BY <1>9, FrameStage DEF FinishedProcessing
  <2>2. /\ \A s \in States : s # k => processing'[s] = processing[s]
        /\ processing'[k] = FALSE
        /\ UNCHANGED <<queue, cont, finished, chained, canceled, jobs>>
    BY <1>2, <1>9, <2>1 DEF FinishedProcessing
  <2>3. PICK c : c = Call(f.thread, k) /\ c.stage = k /\ c.pc = "pop"
    BY <2>1, CallFields
  <2>4. frames' = (frames \ {f}) \cup (IF queue[k] # << >> THEN {c} ELSE {})
    BY <1>9, <2>1, <2>3 DEF FinishedProcessing, MustGoOn, HasContinuation
  <2>5. /\ FramesAt(k)' = IF queue[k] # << >> THEN {c} ELSE {}
        /\ \A s \in States : s # k => FramesAt(s)' = FramesAt(s)
    BY <2>1, <2>3, <2>4 DEF FramesAt
  <2>6. \A s : JobsAt(s)' = JobsAt(s)
    BY <2>2 DEF JobsAt
  <2>7. ~ \E g \in FramesAt(k) : g.pc = "drop"
    BY <2>1
  <2>8. ~finished[k + 1]
    BY <2>1, <2>7 DEF StageFits, ClosedOnce
  <2>9. ASSUME NEW s \in States PROVE StageFits(s)'
    <3>1. CASE s # k
      BY <2>2, <2>5, <2>6, <3>1, StageStays DEF RunnersFit
    <3>2. StageFits(k)'
      <4>1. ChainedInOrder(k)' /\ RunnerIsAlone(k)'
        BY <2>1, <2>2, <2>5, <2>6 DEF StageFits, ChainedInOrder, RunnerIsAlone
      <4>2. RunnerHasTheState(k)' /\ SomebodyRuns(k)' /\ ClosedOnce(k)'
        BY <2>1, <2>2, <2>3, <2>5, <2>6, <2>8 DEF RunnerHasTheState, SomebodyRuns, ClosedOnce
      <4>. QED
        BY <4>1, <4>2 DEF StageFits
    <3>. QED
      BY <3>1, <3>2
  <2>. QED
    BY <2>9 DEF RunnersFit
<1>10. ASSUME NEW f \in frames, GetReturns(f)
       PROVE  RunnersFit'
  <2>. DEFINE k == f.stage
  <2>1. /\ f.pc = "got" /\ k \in States /\ StageFits(k) /\ k = chained + 1
        /\ FramesAt(k) = {f} /\ JobsAt(k) = {}
    BY <1>10, FrameStage DEF GetReturns
  <2>2. /\ \A s \in States : s # k => processing'[s] = processing[s]
        /\ processing'[k] = FALSE /\ frames' = frames \ {f}
        /\ UNCHANGED <<queue, cont, finished, chained, canceled, jobs>>
    BY <1>2, <1>10, <2>1 DEF GetReturns
  <2>3. FramesAt(k)' = {} /\ \A s \in States : s # k => FramesAt(s)' = FramesAt(s)
    BY <2>1, <2>2 DEF FramesAt
  <2>4. \A s : JobsAt(s)' = JobsAt(s)
    BY <2>2 DEF JobsAt
  <2>5. k \in Stages => cont[k] = "none"
    BY <2>1, StreamAssumption DEF StageFits, ChainedInOrder, TypeOK, States
  <2>6. ~ \E g \in FramesAt(k) : g.pc = "drop"
    BY <2>1
  <2>7. ASSUME NEW s \in States PROVE StageFits(s)'
    <3>1. CASE s # k
      BY <2>2, <2>3, <2>4, <3>1, StageStays DEF RunnersFit
    <3>2. StageFits(k)'
      <4>1. ChainedInOrder(k)' /\ RunnerIsAlone(k)'
        BY <2>1, <2>2, <2>3, <2>4 DEF StageFits, ChainedInOrder, RunnerIsAlone
      <4>2. RunnerHasTheState(k)' /\ SomebodyRuns(k)'
        BY <2>1, <2>2, <2>3, <2>4, <2>5 DEF RunnerHasTheState, SomebodyRuns
      <4>3. ClosedOnce(k)'
        BY <2>1, <2>2, <2>6 DEF StageFits, ClosedOnce
      <4>. QED
        BY <4>1, <4>2, <4>3 DEF StageFits
    <3>. QED
      BY <3>1, <3>2
  <2>. QED
    BY <2>7 DEF RunnersFit
<1>11. ASSUME NEW j \in jobs, DiscardValue(j)
       PROVE  RunnersFit'
  <2>. DEFINE k == j.stage
  <2>1. /\ k \in States /\ StageFits(k) /\ ~(k > chained)
        /\ FramesAt(k) = {} /\ JobsAt(k) = {j}
    <3>1. k \in Stages /\ k <= chained /\ chained \in Nat
      BY JobStage, StreamAssumption DEF TypeOK
    <3>2. ~(k > chained)
      BY <3>1, StreamAssumption DEF Stages
    <3>. QED
      BY <3>2, JobStage
  <2>2. /\ canceled /\ jobs' = jobs \ {j}
        /\ UNCHANGED <<queue, processing, cont, finished, chained, canceled, frames>>
    BY <1>11 DEF DiscardValue
  <2>3. JobsAt(k)' = {} /\ \A s \in States : s # k => JobsAt(s)' = JobsAt(s)
    BY <2>1, <2>2 DEF JobsAt
  <2>4. \A s : FramesAt(s)' = FramesAt(s)
    BY <2>2 DEF FramesAt
  <2>5. ASSUME NEW s \in States PROVE StageFits(s)'
    <3>1. CASE s # k
      BY <2>2, <2>3, <2>4, <3>1, StageStays DEF RunnersFit
    <3>2. StageFits(k)'
      BY <2>1, <2>2, <2>3, <2>4
      DEF StageFits, ChainedInOrder, RunnerIsAlone, RunnerHasTheState, SomebodyRuns, ClosedOnce
    <3>. QED
      BY <3>1, <3>2
  <2>. QED
    BY <2>5 DEF RunnersFit
<1>12. ASSUME NEW j \in jobs, NEW w \in Workers, StartJob(w, j)
       PROVE  RunnersFit'
  <2>. DEFINE k == j.stage
              g == [thread |-> w, stage |-> j.stage, pc |-> "push", value |-> j.value]
  <2>1. /\ k \in States /\ k \in Stages /\ StageFits(k)
        /\ FramesAt(k) = {} /\ JobsAt(k) = {j} /\ cont[k] = "there" /\ processing[k]
    BY JobStage
  <2>2. /\ g.stage = k /\ g.pc = "push"
        /\ jobs' = jobs \ {j} /\ frames' = frames \cup {g}
        /\ UNCHANGED <<queue, processing, cont, finished, chained, canceled>>
    BY <1>12 DEF StartJob
  <2>. HIDE DEF g
  <2>3. JobsAt(k)' = {} /\ \A s \in States : s # k => JobsAt(s)' = JobsAt(s)
    BY <2>1, <2>2 DEF JobsAt
  <2>4. FramesAt(k)' = {g} /\ \A s \in States : s # k => FramesAt(s)' = FramesAt(s)
    BY <2>1, <2>2 DEF FramesAt
  <2>5. ASSUME NEW s \in States PROVE StageFits(s)'
    <3>1. CASE s # k
      BY <2>2, <2>3, <2>4, <3>1, StageStays DEF RunnersFit
    <3>2. StageFits(k)'
      <4>1. ChainedInOrder(k)' /\ RunnerIsAlone(k)'
        BY <2>1, <2>2, <2>3, <2>4 DEF StageFits, ChainedInOrder, RunnerIsAlone
      <4>2. RunnerHasTheState(k)' /\ SomebodyRuns(k)'
        BY <2>1, <2>2, <2>3, <2>4 DEF RunnerHasTheState, SomebodyRuns
      <4>3. ClosedOnce(k)'
        BY <2>1, <2>2 DEF StageFits, ClosedOnce
      <4>. QED
        BY <4>1, <4>2, <4>3 DEF StageFits
    <3>. QED
      BY <3>1, <3>2
  <2>. QED
    BY <2>5 DEF RunnersFit
<1>13. CASE Then
  <2>. DEFINE k == chained + 1
  <2>1. /\ k \in States /\ StageFits(k) /\ ~processing[k] /\ FramesAt(k) = {} /\ JobsAt(k) = {}
        /\ \A f \in frames : f.pc # "got"
    BY <1>13, LastIsIdle DEF Then
  <2>2. k \in Stages /\ \A s \in States : s # k => (chained < s <=> k < s)
    BY <1>13, StreamAssumption DEF Then, TypeOK, Stages, States
  <2>3. PICK n \in Stages : n = chained + 1
    BY <2>2
  <2>4. /\ \A s \in Stages : s # n => cont'[s] = cont[s]
        /\ cont'[n] = "there" /\ chained' = n
        /\ UNCHANGED <<queue, processing, finished, canceled, jobs>>
    BY <1>2, <1>13, <2>3 DEF Then
  <2>5. PICK c : c = Call("client", n) /\ c.stage = n /\ c.pc = "pop"
    BY <1>1, CallFields
  <2>6. frames' = frames \cup (IF queue[n] # << >> THEN {c} ELSE {})
    BY <1>13, <2>3, <2>5 DEF Then
  <2>7. /\ FramesAt(n)' = IF queue[n] # << >> THEN {c} ELSE {}
        /\ \A s \in States : s # n => FramesAt(s)' = FramesAt(s)
    BY <2>1, <2>3, <2>5, <2>6 DEF FramesAt
  <2>8. \A s : JobsAt(s)' = JobsAt(s)
    BY <2>4 DEF JobsAt
  <2>9. ASSUME NEW s \in States, s # n PROVE StageFits(s)'
    <3>1. StageFits(s) /\ FramesAt(s)' = FramesAt(s) /\ (chained < s <=> n < s)
      BY <2>2, <2>3, <2>7, <2>9 DEF RunnersFit
    <3>2. \A f \in FramesAt(s) : f.pc # "got"
      BY <2>1 DEF FramesAt
    <3>3. ChainedInOrder(s)' /\ RunnerIsAlone(s)'
      BY <2>4, <2>8, <2>9, <3>1 DEF StageFits, ChainedInOrder, RunnerIsAlone
    <3>4. RunnerHasTheState(s)'
      BY <2>4, <2>8, <2>9, <3>1, <3>2 DEF StageFits, RunnerHasTheState
    <3>5. SomebodyRuns(s)'
      <4>1. s > n => s > chained
        BY <3>1
      <4>. QED
        BY <2>4, <2>8, <2>9, <3>1, <4>1 DEF StageFits, SomebodyRuns
    <3>6. ClosedOnce(s)'
      BY <2>4, <2>9, <3>1 DEF StageFits, ClosedOnce
    <3>. QED
      BY <3>3, <3>4, <3>5, <3>6 DEF StageFits
  <2>10. StageFits(n)'
    <3>1. n \in Nat /\ chained < n /\ n \in States
      BY <2>1, <2>3, StreamAssumption DEF TypeOK, Stages
    <3>2. cont[n] = "none"
      BY <2>1, <2>3, <3>1 DEF StageFits, ChainedInOrder
    <3>3. ~finished[n + 1]
      BY <2>1, <2>3, <3>2 DEF StageFits, ClosedOnce
    <3>4. ChainedInOrder(n)' /\ RunnerIsAlone(n)'
      BY <2>1, <2>3, <2>4, <2>7, <2>8, <3>1 DEF ChainedInOrder, RunnerIsAlone
    <3>5. RunnerHasTheState(n)' /\ SomebodyRuns(n)'
      BY <2>1, <2>3, <2>4, <2>5, <2>7, <2>8, <3>1 DEF RunnerHasTheState, SomebodyRuns
    <3>6. ClosedOnce(n)'
      BY <2>4, <3>3 DEF ClosedOnce
    <3>. QED
      BY <3>4, <3>5, <3>6 DEF StageFits
  <2>. QED
    BY <2>9, <2>10 DEF RunnersFit
<1>14. CASE Get
  <2>1. PICK k \in States : /\ k = chained + 1 /\ StageFits(k) /\ FramesAt(k) = {} /\ JobsAt(k) = {}
    BY <1>14, LastIsIdle DEF Get
  <2>2. PICK g : g.stage = k /\ g.pc = "got" /\ frames' = frames \cup {g}
    BY <1>14, <2>1 DEF Get
  <2>3. /\ \A s \in States : s # k => queue'[s] = queue[s] /\ processing'[s] = processing[s]
        /\ processing'[k] = TRUE
        /\ UNCHANGED <<cont, finished, chained, canceled, jobs>>
    BY <1>2, <1>14, <2>1 DEF Get
  <2>4. FramesAt(k)' = {g} /\ \A s \in States : s # k => FramesAt(s)' = FramesAt(s)
    BY <2>1, <2>2 DEF FramesAt
  <2>5. \A s : JobsAt(s)' = JobsAt(s)
    BY <2>3 DEF JobsAt
  <2>6. ASSUME NEW s \in States PROVE StageFits(s)'
    <3>1. CASE s # k
      BY <2>3, <2>4, <2>5, <3>1, StageStays DEF RunnersFit
    <3>2. StageFits(k)'
      <4>1. ChainedInOrder(k)' /\ RunnerIsAlone(k)'
        BY <2>1, <2>3, <2>4, <2>5 DEF StageFits, ChainedInOrder, RunnerIsAlone
      <4>2. RunnerHasTheState(k)' /\ SomebodyRuns(k)'
        BY <2>1, <2>2, <2>3, <2>4, <2>5 DEF RunnerHasTheState, SomebodyRuns
      <4>3. ClosedOnce(k)'
        BY <2>1, <2>3 DEF StageFits, ClosedOnce
      <4>. QED
        BY <4>1, <4>2, <4>3 DEF StageFits
    <3>. QED
      BY <3>1, <3>2
  <2>. QED
    BY <2>6 DEF RunnersFit
<1>15. CASE Reset
  <2>1. /\ canceled' = TRUE
        /\ UNCHANGED <<queue, processing, cont, finished, chained, jobs, frames>>
    BY <1>15 DEF Reset
  <2>2. \A s : FramesAt(s)' = FramesAt(s) /\ JobsAt(s)' = JobsAt(s)
    BY <2>1 DEF FramesAt, JobsAt
  <2>. QED
    BY <2>1, <2>2, StageStays DEF RunnersFit
<1>16. CASE UNCHANGED vars
  <2>1. \A s : FramesAt(s)' = FramesAt(s) /\ JobsAt(s)' = JobsAt(s)
    BY <1>16 DEF vars, FramesAt, JobsAt
  <2>. QED
    BY <1>16, <2>1, StageStays DEF vars, RunnersFit
<1>. QED
  BY <1>3, <1>4, <1>5, <1>6, <1>7, <1>8, <1>9, <1>10, <1>11, <1>12, <1>13, <1>14, <1>15, <1>16
  DEF Next, Progress, RunJob, Continue, Terminated

\* A stream has one end: the first state is closed by the producer's reset only.
LEMMA NextFirstClosed ==
  ASSUME TypeOK, RunnersFit, finished[1] => closed, [Next]_vars
  PROVE  finished'[1] => closed'
<1>1. ASSUME NEW f \in frames, CloseNext(f)
      PROVE  finished'[1] = finished[1]
  <2>1. f.stage + 1 # 1
    BY <1>1, FrameStage, StreamAssumption DEF CloseNext, States, Stages
  <2>2. finished' = [finished EXCEPT ![f.stage + 1] = TRUE]
    BY <1>1 DEF CloseNext, Closed
  <2>3. finished \in [States -> BOOLEAN] /\ 1 \in States
    BY StreamAssumption DEF TypeOK, States
  <2>. QED
    BY <2>1, <2>2, <2>3
<1>. QED
  BY <1>1 DEF Next, vars, Progress, RunJob, Continue, Terminated, Send, ResetProducer, Then, Get, Reset,
              DiscardValue, StartJob, PopValue, CloseNext, ResetContinuation, PushResult,
              FinishedProcessing, GetReturns

\* Nothing runs at first.
LEMMA InitRunners ==
  ASSUME Init
  PROVE  RunnerInv
<1>1. TypeOK
  <2>1. << >> \in Seq(Elements)
    OBVIOUS
  <2>2. 0 \in 0 .. Continuations /\ 0 \in 0 .. MaxValues
    BY StreamAssumption
  <2>. QED
    BY <2>1, <2>2 DEF Init, TypeOK
<1>2. ASSUME NEW s \in States PROVE StageFits(s)
  <2>1. FramesAt(s) = {} /\ JobsAt(s) = {}
    BY DEF Init, FramesAt, JobsAt
  <2>2. ChainedInOrder(s) /\ RunnerIsAlone(s)
    BY <2>1, StreamAssumption DEF Init, ChainedInOrder, RunnerIsAlone, Stages
  <2>3. RunnerHasTheState(s) /\ SomebodyRuns(s)
    BY <2>1 DEF Init, RunnerHasTheState, SomebodyRuns
  <2>4. s \in Stages => ~finished[s + 1]
    BY StreamAssumption DEF Init, Stages, States
  <2>. QED
    BY <2>2, <2>3, <2>4 DEF StageFits, ClosedOnce
<1>3. ~finished[1]
  BY StreamAssumption DEF Init, States
<1>. QED
  BY <1>1, <1>2, <1>3 DEF RunnerInv, RunnersFit

\* The inductive invariant: in every state of the stream at most one frame or job has a
\* continuation, and it has the StreamState as continueWith, its job or get() left it.
THEOREM RunnerInvariant == Spec => []RunnerInv
<1>1. Init => RunnerInv
  BY InitRunners
<1>2. RunnerInv /\ [Next]_vars => RunnerInv'
  BY NextTypes, NextRunners, NextFirstClosed DEF RunnerInv
<1>. QED
  BY <1>1, <1>2, PTL DEF Spec

\* The assertions of StreamState hold where every runner has its state.
LEMMA RunnersFitAssertions ==
  ASSUME RunnerInv
  PROVE  AssertionsHold
<1>. USE DEF RunnerInv
<1>1. ASSUME NEW f \in frames, f.pc = "pop"
      PROVE  queue[f.stage] # << >> /\ ~processing[f.stage] /\ HasContinuation(f.stage)
  BY <1>1, FrameStage DEF StageFits, RunnerHasTheState, HasContinuation
<1>2. ASSUME NEW f \in frames, f.pc \in {"push", "close"}
      PROVE  ~finished[f.stage + 1]
  <2>1. f.stage \in Stages /\ cont[f.stage] = "there" /\ FramesAt(f.stage) = {f} /\ StageFits(f.stage)
    BY <1>2, FrameStage
  <2>2. ~ \E g \in FramesAt(f.stage) : g.pc = "drop"
    BY <1>2, <2>1
  <2>. QED
    BY <2>1, <2>2 DEF StageFits, ClosedOnce
<1>3. IsIdle("client") /\ ~canceled => ~processing[chained + 1]
  BY LastIsIdle
<1>. QED
  BY <1>1, <1>2, <1>3 DEF AssertionsHold

\* The right to run a continuation is given to one frame or job at a time, and to one as long
\* as there is a value for it; and no assertion of StreamState fails.
THEOREM OneRunnerAtATime == Spec => []OneRunner
<1>1. ASSUME RunnerInv, NEW s \in States
      PROVE  /\ \A a, b \in Runners(s) : a = b
             /\ HasContinuation(s) /\ queue[s] # << >> => Runners(s) # {} \/ canceled
  <2>1. Runners(s) = FramesAt(s) \cup JobsAt(s) /\ StageFits(s)
    BY <1>1 DEF Runners, FramesAt, JobsAt, RunnerInv, RunnersFit
  <2>. QED
    BY <2>1 DEF StageFits, RunnerIsAlone, SomebodyRuns, HasContinuation
<1>2. RunnerInv => OneRunner
  BY <1>1, RunnersFitAssertions DEF OneRunner
<1>. QED
  BY <1>2, RunnerInvariant, PTL

-----------------------------------------------------------------------------
(* The order of the values *)

\* Numbers of a state.
LEMMA FlowNumbers ==
  ASSUME TypeOK, NEW p \in [States -> Nat], QueuesInOrder(p), NEW s \in States
  PROVE  /\ p[s] \in Nat /\ Len(queue[s]) \in Nat /\ Total \in Nat /\ Total <= MaxValues + 1
         /\ Popped(p, s) \in Nat /\ Popped(p, s) <= p[s] /\ p[s] <= Total
         /\ Popped(p, s) = p[s] - Len(queue[s])
         /\ queue[s] = << >> <=> Popped(p, s) = p[s]
<1>1. queue[s] \in Seq(Elements) /\ p[s] \in Nat
  BY DEF TypeOK
<1>2. Len(queue[s]) \in Nat /\ (queue[s] = << >> <=> Len(queue[s]) = 0)
  BY <1>1, EmptySeq
<1>3. Total \in Nat /\ Total <= MaxValues + 1
  BY StreamAssumption DEF TypeOK, Total
<1>. QED
  BY <1>1, <1>2, <1>3 DEF QueuesInOrder, Popped

\* The next element is put into state r.
LEMMA PushKeepsOrder ==
  ASSUME TypeOK, NEW p \in [States -> Nat], QueuesInOrder(p), NEW r \in States, NEW e \in Elements,
         Pushed(r, e), UNCHANGED chained, r <= chained + 1,
         Total' \in Nat, Total <= Total', p[r] + 1 <= Total', \A n \in Nat : n <= Total => Nth(n)' = Nth(n),
         e = Nth(p[r] + 1)',
         NEW q \in [States -> Nat], q = [p EXCEPT ![r] = p[r] + 1]
  PROVE  QueuesInOrder(q)' /\ \A s \in States : Popped(q, s)' = Popped(p, s)
<1>1. queue[r] \in Seq(Elements) /\ p[r] \in Nat /\ q[r] = p[r] + 1 /\ \A s \in States : s # r => q[s] = p[s]
  BY DEF TypeOK
<1>2. /\ queue'[r] = Append(queue[r], e) /\ \A s \in States : s # r => queue'[s] = queue[s]
      /\ queue'[r] # << >>
  BY PushedQueue
<1>3. /\ Len(queue[r]) \in Nat /\ Len(queue'[r]) = Len(queue[r]) + 1
      /\ \A i \in 1 .. Len(queue[r]) : queue'[r][i] = queue[r][i]
      /\ queue'[r][Len(queue[r]) + 1] = e
  BY <1>1, <1>2, AppendProperties, LenProperties
<1>4. \A s \in States : Popped(q, s)' = Popped(p, s)
  <2>. SUFFICES ASSUME NEW s \in States PROVE q[s] - Len(queue'[s]) = p[s] - Len(queue[s])
    BY DEF Popped
  <2>1. CASE s = r
    BY <1>1, <1>3, <2>1, SMTT(20)
  <2>2. CASE s # r
    BY <1>1, <1>2, <2>2
  <2>. QED
    BY <2>1, <2>2
<1>5. ASSUME NEW s \in States
      PROVE  q[s] <= Total' /\ Len(queue'[s]) <= q[s] /\ (s > chained' + 1 => queue'[s] = << >>)
  <2>1. s # r => p[s] <= Total' /\ Len(queue[s]) <= p[s] /\ (s > chained + 1 => queue[s] = << >>)
    BY FlowNumbers DEF QueuesInOrder
  <2>2. Len(queue[r]) <= p[r] /\ ~(r > chained + 1)
    BY StreamAssumption DEF QueuesInOrder, TypeOK, States
  <2>. QED
    BY <1>1, <1>2, <1>3, <2>1, <2>2
<1>6. ASSUME NEW s \in States, NEW i \in 1 .. Len(queue'[s])
      PROVE  queue'[s][i] = Nth(Popped(q, s) + i)'
  <2>1. /\ p[s] \in Nat /\ Len(queue[s]) \in Nat /\ Popped(p, s) = p[s] - Len(queue[s]) /\ Popped(p, s) \in Nat
        /\ p[s] <= Total /\ Total \in Nat /\ i \in Nat
    BY FlowNumbers
  <2>2. CASE i \in 1 .. Len(queue[s])
    <3>1. queue'[s][i] = queue[s][i]
      BY <1>2, <1>3, <2>2
    <3>2. queue[s][i] = Nth(Popped(p, s) + i)
      BY <2>2 DEF QueuesInOrder
    <3>3. Popped(p, s) + i \in Nat /\ Popped(p, s) + i <= Total
      BY <2>1, <2>2, SMTT(20)
    <3>. QED
      BY <1>4, <3>1, <3>2, <3>3
  <2>3. CASE i \notin 1 .. Len(queue[s])
    <3>1. s = r
      BY <1>2, <2>3
    <3>2. i \in 1 .. Len(queue[r]) + 1 /\ i \notin 1 .. Len(queue[r])
      BY <1>3, <2>3, <3>1
    <3>3. i = Len(queue[r]) + 1
      BY <1>3, <3>2
    <3>4. Popped(p, s) + i = p[r] + 1
      BY <2>1, <3>1, <3>3
    <3>. QED
      BY <1>3, <1>4, <3>1, <3>3, <3>4
  <2>. QED
    BY <2>2, <2>3
<1>. QED
  BY <1>4, <1>5, <1>6 DEF QueuesInOrder

\* The next element is taken out of state r.
LEMMA PopKeepsOrder ==
  ASSUME TypeOK, NEW p \in [States -> Nat], QueuesInOrder(p), NEW r \in States,
         queue[r] # << >>, queue' = [queue EXCEPT ![r] = Tail(@)], UNCHANGED <<sent, closed, chained>>
  PROVE  /\ QueuesInOrder(p)'
         /\ Head(queue[r]) = Nth(Popped(p, r) + 1)
         /\ Popped(p, r)' = Popped(p, r) + 1 /\ Popped(p, r) + 1 <= p[r]
         /\ \A s \in States : s # r => Popped(p, s)' = Popped(p, s)
<1>1. /\ queue[r] \in Seq(Elements) /\ queue'[r] = Tail(queue[r])
      /\ \A s \in States : s # r => queue'[s] = queue[s]
  BY PoppedQueue DEF TypeOK
<1>2. /\ Len(queue[r]) \in Nat \ {0} /\ Len(queue'[r]) = Len(queue[r]) - 1
      /\ \A i \in 1 .. Len(queue'[r]) : queue'[r][i] = queue[r][i + 1]
      /\ Head(queue[r]) = queue[r][1]
  <2>1. Len(queue[r]) \in Nat \ {0}
    BY <1>1, EmptySeq
  <2>2. /\ Len(Tail(queue[r])) = Len(queue[r]) - 1
        /\ \A i \in 1 .. Len(Tail(queue[r])) : Tail(queue[r])[i] = queue[r][i + 1]
    BY <1>1, HeadTailProperties
  <2>3. Head(queue[r]) = queue[r][1]
    OBVIOUS
  <2>. QED
    BY <1>1, <2>1, <2>2, <2>3
<1>3. /\ p[r] \in Nat /\ Popped(p, r) \in Nat /\ Popped(p, r) = p[r] - Len(queue[r])
  BY FlowNumbers
<1>4. Total' = Total /\ \A n : Nth(n)' = Nth(n)
  BY DEF Total, Nth
<1>5. Head(queue[r]) = Nth(Popped(p, r) + 1)
  BY <1>2 DEF QueuesInOrder
<1>6. Popped(p, r)' = Popped(p, r) + 1 /\ Popped(p, r) + 1 <= p[r]
  BY <1>2, <1>3 DEF Popped
<1>7. \A s \in States : s # r => Popped(p, s)' = Popped(p, s)
  BY <1>1 DEF Popped
<1>8. ASSUME NEW s \in States
      PROVE  p[s] <= Total' /\ Len(queue'[s]) <= p[s] /\ (s > chained' + 1 => queue'[s] = << >>)
  <2>1. p[s] <= Total /\ Len(queue[s]) <= p[s] /\ (s > chained + 1 => queue[s] = << >>)
    BY DEF QueuesInOrder
  <2>. QED
    BY <1>1, <1>2, <1>3, <1>4, <2>1
<1>9. ASSUME NEW s \in States, NEW i \in 1 .. Len(queue'[s])
      PROVE  queue'[s][i] = Nth(Popped(p, s) + i)'
  <2>1. CASE s = r
    <3>. DEFINE m == Popped(p, r)  l == Len(queue[r])
    <3>0. i \in 1 .. l - 1 /\ l \in Nat /\ m \in Nat /\ Popped(p, r)' = m + 1
      BY <1>2, <1>3, <1>6, <2>1
    <3>. HIDE DEF m, l
    <3>1. i + 1 \in 1 .. l /\ m + (i + 1) = Popped(p, r)' + i
      BY <3>0
    <3>. USE DEF m, l
    <3>2. queue'[s][i] = Nth(Popped(p, r) + (i + 1))
      BY <1>2, <2>1, <3>1 DEF QueuesInOrder
    <3>. QED
      BY <1>4, <2>1, <3>1, <3>2
  <2>2. CASE s # r
    BY <1>1, <1>4, <1>7, <2>2 DEF QueuesInOrder
  <2>. QED
    BY <2>1, <2>2
<1>. QED
  BY <1>5, <1>6, <1>7, <1>8, <1>9 DEF QueuesInOrder

\* A continuation whose hands a step leaves alone has handed on what it had.
LEMMA HandedOnStays ==
  ASSUME NEW p, NEW q, NEW k \in Stages, NEW n, HandedOn(p, k),
         \A f \in FramesAt(k)' : f \in FramesAt(k) \/ f.pc \notin {"push", "close", "finish"},
         JobsAt(k)' \subseteq JobsAt(k),
         k <= chained' /\ ~processing'[k] => k <= chained /\ ~processing[k],
         n = Popped(p, k), Popped(q, k)' = n, q[k + 1] = p[k + 1], Nth(n)' = Nth(n)
  PROVE  HandedOn(q, k)'
<1>1. Nth(Popped(q, k))' = Nth(n)
  BY DEF Nth
<1>2. k <= chained' /\ ~processing'[k] => q[k + 1] = Popped(q, k)'
  BY DEF HandedOn
<1>3. ASSUME NEW j \in JobsAt(k)'
      PROVE  q[k + 1] + 1 = Popped(q, k)' /\ j.value = Nth(Popped(q, k))'
  BY <1>1, <1>3 DEF HandedOn
<1>4. ASSUME NEW f \in FramesAt(k)'
      PROVE  /\ f.pc = "push" => q[k + 1] + 1 = Popped(q, k)' /\ f.value = Nth(Popped(q, k))'
             /\ f.pc = "close" => q[k + 1] + 1 = Popped(q, k)' /\ EndOfStream = Nth(Popped(q, k))'
             /\ f.pc = "finish" => q[k + 1] = Popped(q, k)'
  BY <1>1, <1>4 DEF HandedOn
<1>. QED
  BY <1>2, <1>3, <1>4 DEF HandedOn

\* A step that moves no element and gives nobody one keeps the flow.
LEMMA FlowStays ==
  ASSUME NEW p \in [States -> Nat], Flow(p), TypeOK, UNCHANGED <<queue, sent, closed, chained, got>>,
         \A f \in frames' : f \in frames \/ f.pc \notin {"push", "close", "finish"},
         jobs' \subseteq jobs,
         \A k \in Stages : k <= chained /\ ~processing'[k] => ~processing[k]
  PROVE  Flow(p)'
<1>1. Total' = Total /\ (\A n : Nth(n)' = Nth(n)) /\ \A s : Popped(p, s)' = Popped(p, s)
  BY DEF Total, Nth, Popped
<1>2. QueuesInOrder(p)'
  BY DEF Flow, QueuesInOrder, Total, Nth, Popped
<1>3. GotInOrder(p)'
  BY DEF Flow, GotInOrder, Nth, Popped
<1>4. ASSUME NEW k \in Stages
      PROVE  HandedOn(p, k)'
  <2>1. /\ \A f \in FramesAt(k)' : f \in FramesAt(k) \/ f.pc \notin {"push", "close", "finish"}
        /\ JobsAt(k)' \subseteq JobsAt(k)
    BY DEF FramesAt, JobsAt
  <2>. QED
    BY <1>1, <2>1, HandedOnStays DEF Flow
<1>. QED
  BY <1>1, <1>2, <1>3, <1>4 DEF Flow

\* What the client has got stays in order while its last state does.
LEMMA GotStays ==
  ASSUME TypeOK, NEW p \in [States -> Nat], NEW q \in [States -> Nat], QueuesInOrder(p), GotInOrder(p),
         UNCHANGED <<got, chained>>, Popped(q, chained + 1)' = Popped(p, chained + 1),
         \A n \in Nat : n <= Total => Nth(n)' = Nth(n)
  PROVE  GotInOrder(q)'
<1>1. chained + 1 \in States
  BY StreamAssumption DEF TypeOK, States
<1>2. /\ Popped(p, chained + 1) \in Nat /\ Popped(p, chained + 1) <= p[chained + 1]
      /\ p[chained + 1] <= Total /\ p[chained + 1] \in Nat /\ Total \in Nat
  BY <1>1, FlowNumbers
<1>3. ASSUME NEW i \in 1 .. Len(got)
      PROVE  got[i] = Nth(i)'
  BY <1>2, <1>3 DEF GotInOrder
<1>. QED
  BY <1>3 DEF GotInOrder

\* The producer's next element is the next one in the first state.
LEMMA ProducerFlow ==
  ASSUME RunnerInv, NEW p \in [States -> Nat], Flow(p), NEW e \in Elements, Pushed(1, e),
         frames' = frames \cup CalledAfterPush("producer", 1),
         UNCHANGED <<processing, chained, jobs, got>>,
         Total' = Total + 1, \A n \in Nat : n <= Total => Nth(n)' = Nth(n), e = Nth(p[1] + 1)'
  PROVE  \E q \in [States -> Nat] : Flow(q)'
<1>. DEFINE q == [p EXCEPT ![1] = p[1] + 1]
<1>1. TypeOK /\ QueuesInOrder(p) /\ p[1] = Total /\ p[1] \in Nat /\ 1 \in States /\ 1 <= chained + 1
  BY StreamAssumption DEF RunnerInv, Flow, States, TypeOK
<1>2. q \in [States -> Nat] /\ q[1] = Total + 1 /\ \A s \in States : s # 1 => q[s] = p[s]
  BY <1>1
<1>3. Total \in Nat /\ Total <= Total' /\ p[1] + 1 <= Total' /\ Total' \in Nat
  BY <1>1
<1>4. QueuesInOrder(q)' /\ \A s \in States : Popped(q, s)' = Popped(p, s)
  BY <1>1, <1>2, <1>3, PushKeepsOrder
<1>5. GotInOrder(q)'
  <2>1. chained + 1 \in States
    BY <1>1, StreamAssumption DEF TypeOK, States
  <2>2. Popped(q, chained + 1)' = Popped(p, chained + 1)
    BY <1>4, <2>1
  <2>. HIDE DEF q
  <2>. QED
    BY <1>1, <1>2, <2>2, GotStays DEF Flow
<1>6. ASSUME NEW k \in Stages
      PROVE  HandedOn(q, k)'
  <2>1. k \in States /\ k + 1 \in States /\ k + 1 # 1
    BY StreamAssumption DEF Stages, States
  <2>2. PICK n \in Nat : n = Popped(p, k) /\ n <= Total
    <3>1. Popped(p, k) \in Nat /\ Popped(p, k) <= p[k] /\ p[k] <= Total /\ p[k] \in Nat
      BY <1>1, <2>1, FlowNumbers
    <3>. QED
      BY <1>3, <3>1
  <2>3. \A f \in FramesAt(k)' : f \in FramesAt(k) \/ f.pc \notin {"push", "close", "finish"}
    BY DEF FramesAt, CalledAfterPush, Call
  <2>4. JobsAt(k)' \subseteq JobsAt(k)
    BY DEF JobsAt
  <2>5. Popped(q, k)' = n /\ q[k + 1] = p[k + 1] /\ Nth(n)' = Nth(n) /\ HandedOn(p, k)
    BY <1>2, <1>4, <2>1, <2>2 DEF Flow
  <2>. HIDE DEF q
  <2>. QED
    BY <2>2, <2>3, <2>4, <2>5, HandedOnStays
<1>. QED
  <2>1. q[1] = Total'
    BY <1>2
  <2>. HIDE DEF q
  <2>. QED
    BY <1>2, <1>4, <1>5, <1>6, <2>1 DEF Flow

\* A continuation puts the element in its hands into the next state.
LEMMA ContinuationFlow ==
  ASSUME RunnerInv, NEW p \in [States -> Nat], Flow(p), NEW f \in frames, NEW e \in Elements,
         \/ f.pc = "push" /\ e = f.value
         \/ f.pc = "close" /\ e = EndOfStream,
         Pushed(f.stage + 1, e), NEW pc \in {"drop", "finish"},
         frames' = (frames \ {f}) \cup {[f EXCEPT !.pc = pc]} \cup CalledAfterPush(f.thread, f.stage + 1),
         UNCHANGED <<processing, sent, closed, chained, jobs, got>>
  PROVE  \E q \in [States -> Nat] : Flow(q)'
<1>. DEFINE k == f.stage
            q == [p EXCEPT ![k + 1] = p[k + 1] + 1]
<1>1. TypeOK /\ RunnersFit /\ QueuesInOrder(p)
  BY DEF RunnerInv, Flow
<1>2. /\ f \in Frame /\ f.pc # "got" /\ k \in Stages /\ k \in States /\ k + 1 \in States /\ k + 1 # k
      /\ FramesAt(k) = {f} /\ JobsAt(k) = {} /\ k <= chained /\ processing[k] /\ f \in FramesAt(k)
  BY <1>1, FrameStage
<1>3. p[k + 1] \in Nat /\ p[k + 1] + 1 = Popped(p, k) /\ e = Nth(p[k + 1] + 1)
  BY <1>2 DEF Flow, HandedOn
<1>4. q \in [States -> Nat] /\ q[k + 1] = p[k + 1] + 1 /\ \A s \in States : s # k + 1 => q[s] = p[s]
  BY <1>2, <1>3
<1>5. Total' = Total /\ \A n : Nth(n)' = Nth(n)
  BY DEF Total, Nth
<1>6. p[k + 1] + 1 <= Total /\ k + 1 <= chained + 1 /\ Total \in Nat
  <2>1. p[k] \in Nat /\ Popped(p, k) <= p[k] /\ p[k] <= Total /\ Total \in Nat
    BY <1>1, <1>2, FlowNumbers
  <2>2. k + 1 <= chained + 1
    BY <1>1, <1>2, StreamAssumption DEF TypeOK, Stages
  <2>. QED
    BY <1>3, <2>1, <2>2
<1>7. QueuesInOrder(q)' /\ \A s \in States : Popped(q, s)' = Popped(p, s)
  <2>. HIDE DEF q, k
  <2>1. e = Nth(p[k + 1] + 1)' /\ Total <= Total' /\ Total' \in Nat /\ p[k + 1] + 1 <= Total'
    BY <1>3, <1>5, <1>6
  <2>2. q = [p EXCEPT ![k + 1] = p[k + 1] + 1] /\ Pushed(k + 1, e)
    BY DEF q, k
  <2>. QED
    BY <1>1, <1>2, <1>4, <1>5, <1>6, <2>1, <2>2, PushKeepsOrder
<1>8. GotInOrder(q)'
  <2>1. chained + 1 \in States
    BY <1>1, StreamAssumption DEF TypeOK, States
  <2>2. Popped(q, chained + 1)' = Popped(p, chained + 1)
    BY <1>7, <2>1
  <2>. HIDE DEF q
  <2>. QED
    BY <1>1, <1>4, <1>5, <2>2, GotStays DEF Flow
<1>9. PICK g : g = [f EXCEPT !.pc = pc] /\ g.stage = k /\ g.pc = pc
  <2>1. pc \in {"pop", "close", "drop", "push", "finish"}
    OBVIOUS
  <2>2. [f EXCEPT !.pc = pc].stage = f.stage /\ [f EXCEPT !.pc = pc].pc = pc
    BY <1>2, <2>1, FrameGoesOn
  <2>. QED
    BY <2>2
<1>10. \A c \in CalledAfterPush(f.thread, k + 1) : c.pc = "pop"
  BY DEF CalledAfterPush, Call
<1>11. frames' = (frames \ {f}) \cup {g} \cup CalledAfterPush(f.thread, k + 1)
  BY <1>9
<1>12. \A l : JobsAt(l)' = JobsAt(l)
  BY DEF JobsAt
<1>13. ASSUME NEW l \in Stages, l # k
       PROVE  HandedOn(q, l)'
  <2>1. l \in States /\ l + 1 \in States /\ l + 1 # k + 1
    BY <1>2, <1>13, StreamAssumption, SMTT(20) DEF Stages, States
  <2>2. \A h \in FramesAt(l)' : h \in FramesAt(l) \/ h.pc \notin {"push", "close", "finish"}
    BY <1>9, <1>10, <1>11, <1>13 DEF FramesAt
  <2>3. Popped(q, l)' = Popped(p, l) /\ q[l + 1] = p[l + 1] /\ HandedOn(p, l)
    BY <1>4, <1>7, <2>1 DEF Flow
  <2>. HIDE DEF q
  <2>. QED
    BY <1>5, <1>12, <2>2, <2>3, HandedOnStays
<1>14. HandedOn(q, k)'
  <2>1. \A h \in FramesAt(k)' : h.pc \in {"drop", "finish", "pop"}
    BY <1>2, <1>9, <1>10, <1>11 DEF FramesAt
  <2>2. q[k + 1] = Popped(q, k)'
    BY <1>2, <1>3, <1>4, <1>7
  <2>. HIDE DEF q
  <2>3. JobsAt(k)' = {} /\ processing'[k]
    BY <1>2, <1>12
  <2>. QED
    BY <2>1, <2>2, <2>3 DEF HandedOn
<1>. QED
  <2>1. q[1] = Total'
    BY <1>2, <1>4, <1>5, StreamAssumption DEF Flow, Stages, States
  <2>. HIDE DEF q
  <2>. QED
    BY <1>4, <1>7, <1>8, <1>13, <1>14, <2>1 DEF Flow

\* Popping hands the next element of its state to a continuation.
LEMMA PopFlow ==
  ASSUME RunnerInv, NEW p \in [States -> Nat], Flow(p), NEW f \in frames, PopValue(f)
  PROVE  Flow(p)'
<1>. DEFINE k == f.stage
            element == Head(queue[f.stage])
<1>1. TypeOK /\ RunnersFit /\ QueuesInOrder(p)
  BY DEF RunnerInv, Flow
<1>2. /\ f \in Frame /\ f.pc = "pop" /\ k \in Stages /\ k \in States /\ k + 1 \in States /\ StageFits(k)
      /\ FramesAt(k) = {f} /\ JobsAt(k) = {} /\ k <= chained
  BY <1>1, FrameStage DEF PopValue
<1>3. ~processing[k] /\ p[k + 1] = Popped(p, k)
  BY <1>2 DEF StageFits, RunnerHasTheState, Flow, HandedOn
<1>4. /\ queue[k] # << >> /\ queue' = [queue EXCEPT ![k] = Tail(@)]
      /\ UNCHANGED <<sent, closed, chained, got>>
      /\ processing'[k] = TRUE /\ \A l \in Stages : l # k => processing'[l] = processing[l]
  BY <1>1, <1>2 DEF PopValue, TypeOK, Stages, States
<1>5. /\ QueuesInOrder(p)' /\ element = Nth(Popped(p, k) + 1) /\ Popped(p, k)' = Popped(p, k) + 1
      /\ \A s \in States : s # k => Popped(p, s)' = Popped(p, s)
  BY <1>1, <1>2, <1>4, PopKeepsOrder
<1>6. Total' = Total /\ \A n : Nth(n)' = Nth(n)
  BY <1>4 DEF Total, Nth
<1>7. GotInOrder(p)'
  <2>1. chained + 1 \in States /\ chained + 1 # k
    BY <1>1, <1>2, StreamAssumption DEF TypeOK, States, Stages
  <2>2. Popped(p, chained + 1)' = Popped(p, chained + 1)
    BY <1>4, <1>5, <2>1
  <2>. QED
    BY <1>1, <1>4, <1>6, <2>2, GotStays DEF Flow
<1>8. element = EndOfStream \/ element # EndOfStream
  OBVIOUS
<1>9. /\ element = EndOfStream => frames' = (frames \ {f}) \cup {[f EXCEPT !.pc = "close"]} /\ jobs' = jobs
      /\ element # EndOfStream => /\ frames' = frames \ {f}
                                  /\ jobs' = jobs \cup {[stage |-> f.stage, value |-> element]}
  BY DEF PopValue
<1>10. [f EXCEPT !.pc = "close"].stage = k /\ [f EXCEPT !.pc = "close"].pc = "close"
  BY <1>2, FrameGoesOn
<1>. HIDE DEF element
<1>11. ASSUME NEW l \in Stages, l # k
       PROVE  HandedOn(p, l)'
  <2>1. l \in States
    BY StreamAssumption DEF Stages, States
  <2>2. FramesAt(l)' = FramesAt(l) /\ JobsAt(l)' = JobsAt(l)
    <3>1. CASE element = EndOfStream
      BY <1>9, <1>10, <1>11, <3>1 DEF FramesAt, JobsAt
    <3>2. CASE element # EndOfStream
      BY <1>9, <1>11, <3>2 DEF FramesAt, JobsAt
    <3>. QED
      BY <3>1, <3>2
  <2>3. Popped(p, l)' = Popped(p, l) /\ HandedOn(p, l) /\ processing'[l] = processing[l]
    BY <1>4, <1>5, <1>11, <2>1 DEF Flow
  <2>. QED
    BY <1>4, <1>6, <2>2, <2>3, HandedOnStays
<1>12. HandedOn(p, k)'
  <2>1. p[k + 1] + 1 = Popped(p, k)' /\ element = Nth(Popped(p, k))'
    BY <1>3, <1>5, <1>6 DEF Nth
  <2>2. CASE element = EndOfStream
    <3>1. FramesAt(k)' = {[f EXCEPT !.pc = "close"]} /\ JobsAt(k)' = {}
      BY <1>2, <1>9, <1>10, <2>2 DEF FramesAt, JobsAt
    <3>. QED
      BY <1>4, <1>10, <2>1, <2>2, <3>1 DEF HandedOn
  <2>3. CASE element # EndOfStream
    <3>1. FramesAt(k)' = {} /\ JobsAt(k)' = {[stage |-> f.stage, value |-> element]}
      BY <1>2, <1>9, <2>3 DEF FramesAt, JobsAt
    <3>. QED
      BY <1>4, <2>1, <3>1 DEF HandedOn
  <2>. QED
    BY <2>2, <2>3
<1>. QED
  BY <1>5, <1>6, <1>7, <1>11, <1>12 DEF Flow

\* then() begins a new last state: all the client has got so far counts as put into it.
LEMMA ThenFlow ==
  ASSUME RunnerInv, NEW p \in [States -> Nat], Flow(p), Then
  PROVE  \E q \in [States -> Nat] : Flow(q)'
<1>1. TypeOK /\ RunnersFit /\ QueuesInOrder(p)
  BY DEF RunnerInv, Flow
<1>2. PICK k \in Stages : k = chained + 1 /\ k \in States /\ k + 1 \in States /\ k \in Nat
  BY <1>1, StreamAssumption DEF Then, TypeOK, Stages, States
<1>3. /\ chained' = k /\ UNCHANGED <<queue, processing, sent, closed, jobs, got>>
      /\ frames' = frames \cup (IF queue[k] # << >> THEN {Call("client", k)} ELSE {})
  BY <1>2 DEF Then
<1>4. FramesAt(k) = {} /\ JobsAt(k) = {} /\ ~processing[k]
  BY <1>1, <1>2, LastIsIdle DEF Then
<1>5. PICK n \in Nat : n = Popped(p, k) /\ n <= Total
  <2>1. Popped(p, k) \in Nat /\ Popped(p, k) <= p[k] /\ p[k] <= Total /\ p[k] \in Nat /\ Total \in Nat
    BY <1>1, <1>2, FlowNumbers
  <2>. QED
    BY <2>1
<1>6. PICK q \in [States -> Nat] : q = [p EXCEPT ![k + 1] = n]
  BY <1>2
<1>7. q[k + 1] = n /\ \A s \in States : s # k + 1 => q[s] = p[s]
  BY <1>2, <1>6
<1>8. Total' = Total /\ \A m : Nth(m)' = Nth(m)
  BY <1>3 DEF Total, Nth
<1>9. queue[k + 1] = << >> /\ Len(queue[k + 1]) = 0
  <2>1. k + 1 > chained + 1
    BY <1>1, <1>2 DEF TypeOK
  <2>. QED
    BY <1>2, <2>1, <1>1 DEF QueuesInOrder
<1>10. \A s \in States : s # k + 1 => Popped(q, s)' = Popped(p, s)
  BY <1>3, <1>7 DEF Popped
<1>11. Popped(q, k + 1)' = n
  BY <1>3, <1>7, <1>9 DEF Popped
<1>12. QueuesInOrder(q)'
  <2>1. ASSUME NEW s \in States, s # k + 1
        PROVE  /\ q[s] <= Total' /\ Len(queue'[s]) <= q[s]
               /\ \A i \in 1 .. Len(queue'[s]) : queue'[s][i] = Nth(Popped(q, s) + i)'
               /\ s > chained' + 1 => queue'[s] = << >>
    <3>1. s > chained' + 1 => s > chained + 1
      BY <1>1, <1>2, <1>3, StreamAssumption DEF States, TypeOK
    <3>2. Popped(q, s)' = Popped(p, s) /\ q[s] = p[s]
      BY <1>7, <1>10, <2>1
    <3>3. /\ p[s] <= Total /\ Len(queue[s]) <= p[s]
          /\ \A i \in 1 .. Len(queue[s]) : queue[s][i] = Nth(Popped(p, s) + i)
          /\ s > chained + 1 => queue[s] = << >>
      BY <1>1 DEF QueuesInOrder
    <3>. QED
      BY <1>3, <1>8, <3>1, <3>2, <3>3 DEF Nth
  <2>2. /\ q[k + 1] <= Total' /\ Len(queue'[k + 1]) <= q[k + 1]
        /\ \A i \in 1 .. Len(queue'[k + 1]) : queue'[k + 1][i] = Nth(Popped(q, k + 1) + i)'
        /\ k + 1 > chained' + 1 => queue'[k + 1] = << >>
    BY <1>3, <1>5, <1>7, <1>8, <1>9
  <2>. QED
    BY <2>1, <2>2 DEF QueuesInOrder
<1>13. GotInOrder(q)'
  <2>1. Len(got) = n /\ \A i \in 1 .. Len(got) : got[i] = Nth(i)
    BY <1>2, <1>5 DEF Flow, GotInOrder
  <2>. QED
    BY <1>3, <1>8, <1>11, <2>1 DEF GotInOrder
<1>14. ASSUME NEW l \in Stages, l # k
       PROVE  HandedOn(q, l)'
  <2>1. l \in States /\ l + 1 \in States /\ l + 1 # k + 1
    BY <1>2, <1>14, StreamAssumption DEF Stages, States
  <2>2. \A h \in FramesAt(l)' : h \in FramesAt(l) \/ h.pc \notin {"push", "close", "finish"}
    BY <1>3 DEF FramesAt, Call
  <2>3. JobsAt(l)' \subseteq JobsAt(l)
    BY <1>3 DEF JobsAt
  <2>4. l <= chained' /\ ~processing'[l] => l <= chained /\ ~processing[l]
    BY <1>1, <1>2, <1>3, <1>14 DEF TypeOK, Stages
  <2>5. HandedOn(p, l) /\ q[l + 1] = p[l + 1]
    BY <1>7, <2>1 DEF Flow
  <2>6. l # k + 1 => Popped(q, l)' = Popped(p, l)
    BY <1>10, <2>1
  <2>7. CASE l # k + 1
    BY <1>8, <2>2, <2>3, <2>4, <2>5, <2>6, <2>7, HandedOnStays
  <2>8. CASE l = k + 1
    <3>1. StageFits(l) /\ cont[l] = "none"
      <4>1. chained < l
        BY <1>1, <1>2, <2>8 DEF TypeOK
      <4>. QED
        BY <1>1, <2>1, <4>1 DEF RunnersFit, StageFits, ChainedInOrder
    <3>2. \A h \in FramesAt(l) : h.pc = "got"
      BY <3>1 DEF StageFits, RunnerHasTheState
    <3>3. JobsAt(l) = {}
      BY <3>1 DEF StageFits, RunnerHasTheState
    <3>4. ~(l <= chained')
      BY <1>2, <1>3, <2>8
    <3>5. \A h \in FramesAt(l)' : h.pc \notin {"push", "close", "finish"}
      BY <2>2, <3>2
    <3>. QED
      BY <2>3, <3>3, <3>4, <3>5 DEF HandedOn
  <2>. QED
    BY <2>7, <2>8
<1>15. HandedOn(q, k)'
  <2>1. \A h \in FramesAt(k)' : h.pc = "pop"
    BY <1>3, <1>4 DEF FramesAt, Call
  <2>2. JobsAt(k)' = {}
    BY <1>3, <1>4 DEF JobsAt
  <2>3. k # k + 1 /\ Popped(q, k)' = n
    BY <1>2, <1>5, <1>10
  <2>. QED
    BY <1>7, <2>1, <2>2, <2>3 DEF HandedOn
<1>16. q[1] = Total'
  BY <1>2, <1>7, <1>8, StreamAssumption DEF Flow, Stages, States
<1>. QED
  BY <1>12, <1>13, <1>14, <1>15, <1>16 DEF Flow

\* get() takes the next element of the last state.
LEMMA GetFlow ==
  ASSUME RunnerInv, NEW p \in [States -> Nat], Flow(p), Get
  PROVE  Flow(p)'
<1>1. TypeOK /\ RunnersFit /\ QueuesInOrder(p)
  BY DEF RunnerInv, Flow
<1>2. PICK s \in States : s = chained + 1
  BY <1>1, StreamAssumption DEF TypeOK, States
<1>3. /\ queue[s] # << >> /\ queue' = [queue EXCEPT ![s] = Tail(@)]
      /\ got' = Append(got, Head(queue[s]))
      /\ UNCHANGED <<sent, closed, chained, jobs>>
      /\ \A r \in States : r # s => processing'[r] = processing[r]
  BY <1>1, <1>2 DEF Get, TypeOK
<1>4. \A f \in frames' : f \in frames \/ f.pc \notin {"push", "close", "finish"}
  BY DEF Get
<1>5. /\ QueuesInOrder(p)' /\ Head(queue[s]) = Nth(Popped(p, s) + 1) /\ Popped(p, s)' = Popped(p, s) + 1
      /\ \A r \in States : r # s => Popped(p, r)' = Popped(p, r)
  BY <1>1, <1>3, PopKeepsOrder
<1>6. Total' = Total /\ \A n : Nth(n)' = Nth(n)
  BY <1>3 DEF Total, Nth
<1>7. ASSUME NEW k \in Stages
      PROVE  HandedOn(p, k)'
  <2>1. k \in States /\ (k <= chained => k # s)
    BY <1>1, <1>2, StreamAssumption DEF Stages, States, TypeOK
  <2>2. /\ \A f \in FramesAt(k)' : f \in FramesAt(k) \/ f.pc \notin {"push", "close", "finish"}
        /\ JobsAt(k)' \subseteq JobsAt(k)
    BY <1>3, <1>4 DEF FramesAt, JobsAt
  <2>3. HandedOn(p, k)
    BY DEF Flow
  <2>4. CASE k # s
    BY <1>3, <1>5, <1>6, <2>1, <2>2, <2>3, <2>4, HandedOnStays
  <2>5. CASE k = s
    <3>1. ~(k <= chained') /\ FramesAt(k) = {} /\ JobsAt(k) = {}
      BY <1>1, <1>2, <1>3, <2>1, <2>5, LastIsIdle DEF Get
    <3>. QED
      BY <2>2, <3>1 DEF HandedOn
  <2>. QED
    BY <2>4, <2>5
<1>8. GotInOrder(p)'
  <2>1. Len(got) \in Nat /\ Len(got) = Popped(p, s) /\ \A i \in 1 .. Len(got) : got[i] = Nth(i)
    BY <1>1, <1>2, LenProperties DEF Flow, GotInOrder, TypeOK
  <2>2. Head(queue[s]) \in Elements
    BY <1>1, <1>3, PoppedQueue
  <2>3. /\ Len(got') = Len(got) + 1
        /\ \A i \in 1 .. Len(got) : got'[i] = got[i]
        /\ got'[Len(got) + 1] = Head(queue[s])
    BY <1>1, <1>3, <2>2, AppendProperties DEF TypeOK
  <2>4. ASSUME NEW i \in 1 .. Len(got')
        PROVE  got'[i] = Nth(i)'
    <3>1. CASE i = Len(got) + 1
      BY <1>5, <1>6, <2>1, <2>3, <3>1
    <3>2. CASE i # Len(got) + 1
      <4>1. i \in 1 .. Len(got)
        BY <2>1, <2>3, <2>4, <3>2
      <4>. QED
        BY <1>6, <2>1, <2>3, <4>1
    <3>. QED
      BY <3>1, <3>2
  <2>. QED
    BY <1>2, <1>3, <1>5, <2>1, <2>3, <2>4 DEF GotInOrder
<1>. QED
  BY <1>5, <1>6, <1>7, <1>8 DEF Flow

\* Each step keeps the flow.
LEMMA NextFlow ==
  ASSUME RunnerInv, NEW p \in [States -> Nat], Flow(p), [Next]_vars
  PROVE  \E q \in [States -> Nat] : Flow(q)'
<1>1. TypeOK /\ RunnersFit /\ 1 \in States /\ p[1] \in Nat /\ p[1] = Total
  BY StreamAssumption DEF RunnerInv, Flow, States
<1>2. CASE Send
  <2>1. /\ Pushed(1, sent + 1) /\ frames' = frames \cup CalledAfterPush("producer", 1)
        /\ UNCHANGED <<processing, chained, jobs, got>>
        /\ sent' = sent + 1 /\ closed' = FALSE /\ closed = FALSE /\ sent \in Nat /\ sent + 1 \in Elements
    BY <1>1, <1>2, StreamAssumption DEF Send, TypeOK, Elements, Values
  <2>2. /\ Total = sent /\ Total' = sent + 1
        /\ \A n \in Nat : n <= Total => Nth(n)' = Nth(n)
        /\ sent + 1 = Nth(p[1] + 1)'
    BY <1>1, <2>1 DEF Total, Nth
  <2>. QED
    BY <2>1, <2>2, ProducerFlow
<1>3. CASE ResetProducer
  <2>1. /\ Pushed(1, EndOfStream) /\ frames' = frames \cup CalledAfterPush("producer", 1)
        /\ UNCHANGED <<processing, chained, jobs, got>>
        /\ sent' = sent /\ closed' = TRUE /\ closed = FALSE /\ sent \in Nat /\ EndOfStream \in Elements
    BY <1>1, <1>3 DEF ResetProducer, Closed, TypeOK, Elements
  <2>2. /\ Total = sent /\ Total' = sent + 1
        /\ \A n \in Nat : n <= Total => Nth(n)' = Nth(n)
        /\ EndOfStream = Nth(p[1] + 1)'
    BY <1>1, <2>1 DEF Total, Nth
  <2>. QED
    BY <2>1, <2>2, ProducerFlow
<1>4. CASE Then
  BY <1>4, ThenFlow
<1>5. CASE Get
  BY <1>5, GetFlow
<1>6. CASE Reset
  BY <1>1, <1>6, FlowStays DEF Reset
<1>7. ASSUME NEW f \in frames, PopValue(f)
      PROVE  Flow(p)'
  BY <1>7, PopFlow
<1>8. ASSUME NEW f \in frames, CloseNext(f)
      PROVE  \E q \in [States -> Nat] : Flow(q)'
  <2>1. /\ f.pc = "close" /\ Pushed(f.stage + 1, EndOfStream) /\ EndOfStream \in Elements
        /\ frames' = (frames \ {f}) \cup {[f EXCEPT !.pc = "drop"]} \cup CalledAfterPush(f.thread, f.stage + 1)
        /\ UNCHANGED <<processing, sent, closed, chained, jobs, got>>
    BY <1>8 DEF CloseNext, Closed, Elements
  <2>. QED
    BY <2>1, ContinuationFlow
<1>9. ASSUME NEW f \in frames, PushResult(f)
      PROVE  \E q \in [States -> Nat] : Flow(q)'
  <2>1. /\ f.pc = "push" /\ Pushed(f.stage + 1, f.value) /\ f.value \in Elements
        /\ frames' = (frames \ {f}) \cup {[f EXCEPT !.pc = "finish"]} \cup CalledAfterPush(f.thread, f.stage + 1)
        /\ UNCHANGED <<processing, sent, closed, chained, jobs, got>>
    BY <1>1, <1>9, FrameStage DEF PushResult
  <2>2. PICK e \in Elements : e = f.value
    BY <2>1
  <2>3. Pushed(f.stage + 1, e) /\ f.pc = "push" /\ e = f.value
    BY <2>1, <2>2 DEF Pushed
  <2>. QED
    BY <2>1, <2>3, ContinuationFlow
<1>10. ASSUME NEW f \in frames, ResetContinuation(f)
       PROVE  Flow(p)'
  BY <1>1, <1>10, FlowStays DEF ResetContinuation
<1>11. ASSUME NEW f \in frames, FinishedProcessing(f)
       PROVE  Flow(p)'
  <2>. DEFINE k == f.stage
  <2>1. /\ f.pc = "finish" /\ f \in FramesAt(k) /\ FramesAt(k) = {f} /\ JobsAt(k) = {}
        /\ k \in Stages /\ k \in States
    BY <1>1, <1>11, FrameStage DEF FinishedProcessing
  <2>2. p[k + 1] = Popped(p, k)
    BY <2>1 DEF Flow, HandedOn
  <2>3. /\ UNCHANGED <<queue, sent, closed, chained, got, jobs>>
        /\ \A s \in States : s # k => processing'[s] = processing[s]
        /\ \A g \in frames' : g \in frames \/ g.pc = "pop"
    BY <1>1, <1>11 DEF FinishedProcessing, TypeOK, Call
  <2>4. \A g \in frames' : g # f
    BY <1>11, <2>1 DEF FinishedProcessing, Call
  <2>5. Total' = Total /\ (\A n : Nth(n)' = Nth(n)) /\ \A s : Popped(p, s)' = Popped(p, s)
    BY <2>3 DEF Total, Nth, Popped
  <2>6. QueuesInOrder(p)' /\ GotInOrder(p)'
    BY <2>3 DEF Flow, QueuesInOrder, GotInOrder, Total, Nth, Popped
  <2>7. ASSUME NEW l \in Stages, l # k
        PROVE  HandedOn(p, l)'
    <3>1. /\ \A g \in FramesAt(l)' : g \in FramesAt(l) \/ g.pc \notin {"push", "close", "finish"}
          /\ JobsAt(l)' \subseteq JobsAt(l)
      BY <2>3 DEF FramesAt, JobsAt
    <3>2. HandedOn(p, l) /\ l \in States
      BY StreamAssumption DEF Flow, Stages, States
    <3>. QED
      BY <2>3, <2>5, <2>7, <3>1, <3>2, HandedOnStays
  <2>8. HandedOn(p, k)'
    <3>1. \A g \in FramesAt(k)' : g.pc = "pop"
      BY <2>1, <2>3, <2>4 DEF FramesAt
    <3>2. JobsAt(k)' = {}
      BY <2>1, <2>3 DEF JobsAt
    <3>. QED
      BY <2>2, <2>5, <3>1, <3>2 DEF HandedOn
  <2>. QED
    BY <2>5, <2>6, <2>7, <2>8 DEF Flow
<1>12. ASSUME NEW f \in frames, GetReturns(f)
       PROVE  Flow(p)'
  <2>1. f.stage = chained + 1 /\ f.stage \in States
    BY <1>1, <1>12, FrameStage DEF GetReturns
  <2>2. \A k \in Stages : k <= chained => processing'[k] = processing[k]
    <3>1. \A k \in Stages : k \in States /\ (k <= chained => k # f.stage)
      BY <1>1, <2>1, StreamAssumption DEF TypeOK, Stages, States
    <3>2. processing' = [processing EXCEPT ![f.stage] = FALSE] /\ processing \in [States -> BOOLEAN]
      BY <1>1, <1>12 DEF GetReturns, TypeOK
    <3>. QED
      BY <3>1, <3>2
  <2>. QED
    BY <1>1, <1>12, <2>2, FlowStays DEF GetReturns
<1>13. ASSUME NEW j \in jobs, DiscardValue(j)
       PROVE  Flow(p)'
  BY <1>1, <1>13, FlowStays DEF DiscardValue
<1>14. ASSUME NEW j \in jobs, NEW w \in Workers, StartJob(w, j)
       PROVE  Flow(p)'
  <2>. DEFINE k == j.stage
              g == [thread |-> w, stage |-> j.stage, pc |-> "push", value |-> j.value]
  <2>1. k \in Stages /\ FramesAt(k) = {} /\ JobsAt(k) = {j} /\ j \in JobsAt(k) /\ processing[k]
    BY <1>1, JobStage
  <2>2. p[k + 1] + 1 = Popped(p, k) /\ j.value = Nth(Popped(p, k))
    BY <2>1 DEF Flow, HandedOn
  <2>3. /\ UNCHANGED <<queue, sent, closed, chained, got, processing>>
        /\ jobs' = jobs \ {j} /\ frames' = frames \cup {g}
        /\ g.stage = k /\ g.pc = "push" /\ g.value = j.value
    BY <1>14 DEF StartJob
  <2>. HIDE DEF g
  <2>4. Total' = Total /\ (\A n : Nth(n)' = Nth(n)) /\ \A s : Popped(p, s)' = Popped(p, s)
    BY <2>3 DEF Total, Nth, Popped
  <2>5. QueuesInOrder(p)' /\ GotInOrder(p)'
    BY <2>3 DEF Flow, QueuesInOrder, GotInOrder, Total, Nth, Popped
  <2>6. ASSUME NEW l \in Stages, l # k
        PROVE  HandedOn(p, l)'
    <3>1. FramesAt(l)' = FramesAt(l) /\ JobsAt(l)' = JobsAt(l)
      BY <2>3, <2>6 DEF FramesAt, JobsAt
    <3>2. HandedOn(p, l)
      BY DEF Flow
    <3>. QED
      BY <2>3, <2>4, <2>6, <3>1, <3>2, HandedOnStays
  <2>7. HandedOn(p, k)'
    <3>1. FramesAt(k)' = {g} /\ JobsAt(k)' = {}
      BY <2>1, <2>3 DEF FramesAt, JobsAt
    <3>2. Nth(Popped(p, k))' = Nth(Popped(p, k))
      BY <2>4 DEF Nth
    <3>. QED
      BY <2>1, <2>2, <2>3, <2>4, <3>1, <3>2 DEF HandedOn
  <2>. QED
    BY <2>4, <2>5, <2>6, <2>7 DEF Flow
<1>15. CASE UNCHANGED vars
  BY <1>1, <1>15, FlowStays DEF vars
<1>. QED
  BY <1>2, <1>3, <1>4, <1>5, <1>6, <1>7, <1>8, <1>9, <1>10, <1>11, <1>12, <1>13, <1>14, <1>15
  DEF Next, Progress, RunJob, Continue, Terminated

\* Nothing is sent at first.
LEMMA InitFlow ==
  ASSUME Init
  PROVE  ValuesFlow
<1>. DEFINE p == [s \in States |-> 0]
<1>1. p \in [States -> 0 .. MaxValues + 1] /\ \A s \in States : p[s] = 0
  BY StreamAssumption
<1>2. \A s \in States : queue[s] = << >> /\ Len(queue[s]) = 0 /\ Popped(p, s) = 0
  BY <1>1 DEF Init, Popped
<1>3. chained + 1 \in States /\ \A k \in Stages : k \in States /\ k + 1 \in States
  BY StreamAssumption DEF Init, States, Stages
<1>4. Total = 0 /\ p[1] = 0
  BY <1>1, StreamAssumption DEF Init, Total, States
<1>. HIDE DEF p
<1>5. QueuesInOrder(p)
  BY <1>1, <1>2, <1>4 DEF QueuesInOrder
<1>6. GotInOrder(p)
  BY <1>2, <1>3 DEF Init, GotInOrder
<1>7. ASSUME NEW k \in Stages
      PROVE  HandedOn(p, k)
  BY <1>1, <1>2, <1>3 DEF Init, HandedOn, FramesAt, JobsAt
<1>. QED
  BY <1>1, <1>4, <1>5, <1>6, <1>7 DEF ValuesFlow, Flow

\* At each place of the chain the values are in the order they were sent in.
LEMMA FlowInvariant == Spec => [](RunnerInv /\ ValuesFlow)
<1>1. Init => RunnerInv /\ ValuesFlow
  BY InitRunners, InitFlow
<1>2. RunnerInv /\ [Next]_vars => RunnerInv'
  BY NextTypes, NextRunners, NextFirstClosed DEF RunnerInv
<1>3. ASSUME RunnerInv, ValuesFlow, [Next]_vars
      PROVE  ValuesFlow'
  <2>1. PICK p \in [States -> 0 .. MaxValues + 1] : Flow(p)
    BY <1>3 DEF ValuesFlow
  <2>2. p \in [States -> Nat]
    BY StreamAssumption
  <2>3. PICK q \in [States -> Nat] : Flow(q)'
    BY <1>3, <2>1, <2>2, NextFlow
  <2>4. TypeOK'
    BY <1>2, <1>3 DEF RunnerInv
  <2>5. q \in [States -> 0 .. MaxValues + 1]
    <3>1. Total' \in Nat /\ Total' <= MaxValues + 1
      <4>1. sent' \in Nat /\ sent' <= MaxValues /\ closed' \in BOOLEAN
        BY <2>4, StreamAssumption DEF TypeOK
      <4>2. closed' => Total' = sent' + 1
        BY DEF Total
      <4>3. ~closed' => Total' = sent' + 0
        BY DEF Total
      <4>. QED
        BY <4>1, <4>2, <4>3, StreamAssumption
    <3>2. \A s \in States : q[s] <= Total' /\ q[s] \in Nat
      BY <2>3 DEF Flow, QueuesInOrder
    <3>3. \A s \in States : q[s] \in 0 .. MaxValues + 1
      BY <3>1, <3>2, StreamAssumption
    <3>. QED
      BY <3>3
  <2>. QED
    BY <2>3, <2>5 DEF ValuesFlow
<1>. QED
  BY <1>1, <1>2, <1>3, PTL DEF Spec

\* The elements that were sent, by number.
LEMMA SentElements ==
  ASSUME TypeOK
  PROVE  Sent \in Seq(Elements) /\ Len(Sent) = Total /\ \A i \in 1 .. Total : Sent[i] = Nth(i)
<1>. DEFINE values == [n \in 1 .. sent |-> n]
            end == IF closed THEN <<EndOfStream>> ELSE << >>
<1>1. sent \in Nat /\ 1 .. sent \subseteq Elements
  BY StreamAssumption DEF TypeOK, Elements, Values
<1>2. values \in Seq(Elements) /\ Len(values) = sent /\ \A i \in 1 .. sent : values[i] = i
  BY <1>1
<1>3. end \in Seq(Elements) /\ Len(end) = (IF closed THEN 1 ELSE 0) /\ (closed => end[1] = EndOfStream)
  <2>1. EndOfStream \in Elements
    BY DEF Elements
  <2>2. CASE closed
    <3>1. end = <<EndOfStream>>
      BY <2>2
    <3>. QED
      BY <2>1, <2>2, <3>1
  <2>3. CASE ~closed
    <3>1. end = << >>
      BY <2>3
    <3>. QED
      BY <2>3, <3>1
  <2>. QED
    BY <2>2, <2>3
<1>4. Sent = values \o end
  BY DEF Sent
<1>. HIDE DEF values, end
<1>5. /\ Sent \in Seq(Elements) /\ Len(Sent) = Len(values) + Len(end)
      /\ \A i \in 1 .. Len(values) + Len(end) :
           Sent[i] = IF i <= Len(values) THEN values[i] ELSE end[i - Len(values)]
  BY <1>2, <1>3, <1>4, ConcatProperties
<1>6. Len(Sent) = Total
  BY <1>2, <1>3, <1>5 DEF Total
<1>7. ASSUME NEW i \in 1 .. Total
      PROVE  Sent[i] = Nth(i)
  <2>1. CASE i <= sent
    BY <1>1, <1>2, <1>5, <1>6, <1>7, <2>1 DEF Nth
  <2>2. CASE ~(i <= sent)
    <3>1. closed /\ i = sent + 1
      BY <1>1, <1>7, <2>2 DEF Total
    <3>. QED
      BY <1>1, <1>2, <1>3, <1>5, <1>6, <2>2, <3>1 DEF Nth
  <2>. QED
    BY <2>1, <2>2
<1>. QED
  BY <1>5, <1>6, <1>7

\* A sequence that agrees with a longer one is a beginning of it.
LEMMA AgreeingIsPrefix ==
  ASSUME NEW S, NEW s \in Seq(S), NEW t \in Seq(S), Len(s) <= Len(t),
         \A i \in 1 .. Len(s) : s[i] = t[i]
  PROVE  IsPrefix(s, t)
<1>1. Len(s) \in Nat /\ Len(t) \in Nat
  BY LenProperties
<1>2. \A i \in 1 .. Len(s) : s[i] \in S /\ t[i] \in S
  BY <1>1, ElementOfSeq
<1>3. SubSeq(s, 1, Len(s)) \in Seq(S) /\ Len(SubSeq(s, 1, Len(s))) = Len(s)
      /\ \A i \in 1 .. Len(s) : SubSeq(s, 1, Len(s))[i] = s[i]
  BY <1>1, <1>2, SubSeqProperties
<1>4. SubSeq(t, 1, Len(s)) \in Seq(S) /\ Len(SubSeq(t, 1, Len(s))) = Len(s)
      /\ \A i \in 1 .. Len(s) : SubSeq(t, 1, Len(s))[i] = t[i]
  BY <1>1, <1>2, SubSeqProperties
<1>5. SubSeq(s, 1, Len(s)) = SubSeq(t, 1, Len(s))
  BY <1>3, <1>4, SeqEqual
<1>. QED
  BY <1>5 DEF IsPrefix

\* No value is lost, doubled or overtaken on its way through the chain, whatever threads
\* push, pop, chain and finish, and in whatever order the executor runs the jobs.
THEOREM ValuesKeepTheirOrder == Spec => []ValuesInOrder
<1>1. ASSUME RunnerInv, ValuesFlow
      PROVE  ValuesInOrder
  <2>1. PICK p \in [States -> 0 .. MaxValues + 1] : Flow(p)
    BY <1>1 DEF ValuesFlow
  <2>2. TypeOK /\ p \in [States -> Nat] /\ QueuesInOrder(p) /\ GotInOrder(p)
    BY <1>1, <2>1, StreamAssumption DEF RunnerInv, Flow
  <2>3. PICK s \in States : s = chained + 1
    BY <2>2, StreamAssumption DEF TypeOK, States
  <2>4. got \in Seq(Elements) /\ queue[s] \in Seq(Elements)
    BY <2>2 DEF TypeOK
  <2>5. /\ got \o queue[s] \in Seq(Elements) /\ Len(got \o queue[s]) = Len(got) + Len(queue[s])
        /\ \A i \in 1 .. Len(got) + Len(queue[s]) :
             (got \o queue[s])[i] = IF i <= Len(got) THEN got[i] ELSE queue[s][i - Len(got)]
    BY <2>4, ConcatProperties
  <2>6. /\ Len(got) = Popped(p, s) /\ Popped(p, s) = p[s] - Len(queue[s]) /\ p[s] <= Total
        /\ p[s] \in Nat /\ Total \in Nat /\ Len(queue[s]) \in Nat /\ Len(got) \in Nat
    BY <2>2, <2>3, FlowNumbers DEF GotInOrder
  <2>7. ASSUME NEW i \in 1 .. Len(got) + Len(queue[s])
        PROVE  (got \o queue[s])[i] = Sent[i]
    <3>1. i \in 1 .. Total /\ Sent[i] = Nth(i)
      BY <2>2, <2>6, <2>7, SentElements
    <3>2. CASE i <= Len(got)
      BY <2>2, <2>5, <2>6, <2>7, <3>1, <3>2 DEF GotInOrder
    <3>3. CASE ~(i <= Len(got))
      <4>. DEFINE m == Len(got)  n == Len(queue[s])
      <4>0. m \in Nat /\ n \in Nat /\ i \in 1 .. m + n /\ ~(i <= m) /\ Popped(p, s) = m
        BY <2>6, <2>7, <3>3
      <4>. HIDE DEF m, n
      <4>1. PICK l \in 1 .. n : l = i - m /\ Popped(p, s) + l = i
        BY <4>0
      <4>. USE DEF m, n
      <4>2. queue[s][l] = Nth(i)
        BY <2>2, <4>1 DEF QueuesInOrder
      <4>. QED
        BY <2>5, <2>7, <3>1, <3>3, <4>1, <4>2
    <3>. QED
      BY <3>2, <3>3
  <2>8. Sent \in Seq(Elements) /\ Len(got \o queue[s]) <= Len(Sent)
    BY <2>2, <2>5, <2>6, SentElements
  <2>9. IsPrefix(got \o queue[s], Sent)
    BY <2>5, <2>7, <2>8, AgreeingIsPrefix
  <2>. QED
    BY <2>3, <2>9 DEF ValuesInOrder
<1>. QED
  BY <1>1, FlowInvariant, PTL
=============================================================================
