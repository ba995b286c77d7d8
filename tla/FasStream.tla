------------------------------ MODULE FasStream ------------------------------
(***************************************************************************)
(* fas/stream.h: a producer sends values into a stream, the client hangs a *)
(* chain of continuations on it with then(), and reads what comes out at   *)
(* its end with get().                                                     *)
(*                                                                         *)
(* State s of the chain is the StreamState that continuation s reads from; *)
(* its results go to state s + 1.  What a continuation makes of a value is *)
(* left out: a result is named as the value it was made from.              *)
(*                                                                         *)
(* A section under a StreamState's mutex is one step.  continueWith runs   *)
(* on the thread that got the right to run it, inside the call that gave   *)
(* it, so a thread is a stack of frames, one for each continuation it is   *)
(* in; the frame with the highest stage is the one that takes steps.  The  *)
(* executor is external: it runs each job once, in any order, on any of    *)
(* its threads.                                                            *)
(***************************************************************************)
EXTENDS Naturals, Sequences, SequencesExt

CONSTANTS Continuations,   \* how many continuations the client chains
          MaxValues,       \* bound: values sent
          Workers          \* the executor's threads

ASSUME StreamAssumption ==
  /\ Continuations \in Nat \ {0}
  /\ MaxValues \in Nat
  /\ "producer" \notin Workers /\ "client" \notin Workers

Stages == 1 .. Continuations
States == 1 .. Continuations + 1
Threads == {"producer", "client"} \cup Workers

EndOfStream == 0
Values == 1 .. MaxValues
Elements == Values \cup {EndOfStream}

VARIABLES
  queue,       \* StreamState::_queue
  processing,  \* StreamState::_processingPoppedValue
  cont,        \* StreamState::_cont: not chained yet, there, or reset after the end
  chained,     \* how many times then() was called
  canceled,    \* the token shared by the continuations
  finished,    \* StreamState::_isFinished
  sent,        \* how many values were sent
  closed,      \* StreamProducer::reset was called
  jobs,        \* the jobs spawned on executors: stage and value
  frames,      \* what the threads are in
  got          \* all that get() has popped

vars == <<queue, processing, cont, finished, chained, canceled, sent, closed, jobs, frames, got>>

\* A frame of continueWith, of a job of it, or of get().
Frame == [thread : Threads, stage : Stages, pc : {"pop", "close", "drop", "push", "finish"}, value : Elements]
         \cup [thread : {"client"}, stage : States, pc : {"got"}, value : Elements]

Init ==
  /\ queue = [s \in States |-> << >>]
  /\ processing = [s \in States |-> FALSE]
  /\ cont = [k \in Stages |-> "none"]
  /\ chained = 0
  /\ canceled = FALSE
  /\ sent = 0
  /\ closed = FALSE
  /\ jobs = {}
  /\ frames = {}
  /\ finished = [s \in States |-> FALSE]
  /\ got = << >>

IsIdle(t) == \A f \in frames : f.thread # t
IsActive(f) == f \in frames /\ \A g \in frames : g.thread = f.thread => g.stage <= f.stage

HasContinuation(s) == s \in Stages /\ cont[s] = "there"

\* A thread calls continueWith of a continuation.
Call(t, k) == [thread |-> t, stage |-> k, pc |-> "pop", value |-> EndOfStream]

-----------------------------------------------------------------------------
(* StreamState *)

\* A mutated form of the next operator: a value in process does not count.
MustExecuteIfEmpty(s) == queue[s] = << >> /\ HasContinuation(s)

\* pushValue and close: whether the caller has to execute the continuation.
MustExecute(s) == queue[s] = << >> /\ ~processing[s] /\ HasContinuation(s)

Pushed(s, element) == queue' = [queue EXCEPT ![s] = Append(@, element)]
Closed(s) == Pushed(s, EndOfStream) /\ finished' = [finished EXCEPT ![s] = TRUE]

\* The thread that has pushed calls continueWith if it has to.
CalledAfterPush(t, s) == IF MustExecute(s) THEN {Call(t, s)} ELSE {}

\* A mutated form of the next operator: the caller never goes on.
NeverGoOn(s) == FALSE

\* finishedProcessingPoppedValue: whether the caller has to go on with the next value.
MustGoOn(s) == queue[s] # << >> /\ HasContinuation(s)

-----------------------------------------------------------------------------
(* The producer *)

Send ==
  /\ IsIdle("producer") /\ ~closed
  /\ sent < MaxValues
  /\ sent' = sent + 1
  /\ Pushed(1, sent + 1)
  /\ frames' = frames \cup CalledAfterPush("producer", 1)
  /\ UNCHANGED <<processing, cont, finished, chained, canceled, closed, jobs, got>>

\* StreamProducer::reset, also by the destructor
ResetProducer ==
  /\ IsIdle("producer") /\ ~closed
  /\ closed' = TRUE
  /\ Closed(1)
  /\ frames' = frames \cup CalledAfterPush("producer", 1)
  /\ UNCHANGED <<processing, cont, chained, canceled, sent, jobs, got>>

-----------------------------------------------------------------------------
(* continueWith *)

\* popValue, and the spawn of the job that handles the value
PopValue(f) ==
  /\ IsActive(f) /\ f.pc = "pop" /\ queue[f.stage] # << >>
  /\ queue' = [queue EXCEPT ![f.stage] = Tail(@)]
  /\ processing' = [processing EXCEPT ![f.stage] = TRUE]
  /\ LET element == Head(queue[f.stage])
     IN  IF element = EndOfStream
           THEN /\ frames' = (frames \ {f}) \cup {[f EXCEPT !.pc = "close"]}
                /\ UNCHANGED jobs
           ELSE /\ frames' = frames \ {f}
                /\ jobs' = jobs \cup {[stage |-> f.stage, value |-> element]}
  /\ UNCHANGED <<cont, finished, chained, canceled, sent, closed, got>>

\* The end of the stream: the next state is closed ...
CloseNext(f) ==
  /\ IsActive(f) /\ f.pc = "close"
  /\ Closed(f.stage + 1)
  /\ frames' = (frames \ {f}) \cup {[f EXCEPT !.pc = "drop"]} \cup CalledAfterPush(f.thread, f.stage + 1)
  /\ UNCHANGED <<processing, cont, chained, canceled, sent, closed, jobs, got>>

\* ... and the continuation is destroyed.
ResetContinuation(f) ==
  /\ IsActive(f) /\ f.pc = "drop"
  /\ cont' = [cont EXCEPT ![f.stage] = "reset"]
  /\ frames' = frames \ {f}
  /\ UNCHANGED <<finished, queue, processing, chained, canceled, sent, closed, jobs, got>>

-----------------------------------------------------------------------------
(* The jobs *)

\* A job returns at once if the stream was canceled.
DiscardValue(j) ==
  /\ j \in jobs /\ canceled
  /\ jobs' = jobs \ {j}
  /\ UNCHANGED <<queue, processing, cont, finished, chained, canceled, sent, closed, frames, got>>

StartJob(w, j) ==
  /\ IsIdle(w) /\ j \in jobs /\ ~canceled
  /\ jobs' = jobs \ {j}
  /\ frames' = frames \cup {[thread |-> w, stage |-> j.stage, pc |-> "push", value |-> j.value]}
  /\ UNCHANGED <<queue, processing, cont, finished, chained, canceled, sent, closed, got>>

\* The continuation function has returned: its result goes to the next state.
PushResult(f) ==
  /\ IsActive(f) /\ f.pc = "push"
  /\ Pushed(f.stage + 1, f.value)
  /\ frames' = (frames \ {f}) \cup {[f EXCEPT !.pc = "finish"]} \cup CalledAfterPush(f.thread, f.stage + 1)
  /\ UNCHANGED <<processing, cont, finished, chained, canceled, sent, closed, jobs, got>>

FinishedProcessing(f) ==
  /\ IsActive(f) /\ f.pc = "finish"
  /\ processing' = [processing EXCEPT ![f.stage] = FALSE]
  /\ frames' = (frames \ {f}) \cup (IF MustGoOn(f.stage) THEN {Call(f.thread, f.stage)} ELSE {})
  /\ UNCHANGED <<queue, cont, finished, chained, canceled, sent, closed, jobs, got>>

-----------------------------------------------------------------------------
(* The client *)

Then ==
  /\ IsIdle("client") /\ ~canceled
  /\ chained < Continuations
  /\ chained' = chained + 1
  /\ cont' = [cont EXCEPT ![chained + 1] = "there"]
  /\ frames' = frames \cup (IF queue[chained + 1] # << >> THEN {Call("client", chained + 1)} ELSE {})
  /\ UNCHANGED <<finished, queue, processing, canceled, sent, closed, jobs, got>>

\* get(), of the last stream: it waits for a value and pops it ...
Get ==
  /\ IsIdle("client") /\ ~canceled
  /\ LET s == chained + 1
     IN  /\ queue[s] # << >>
         /\ queue' = [queue EXCEPT ![s] = Tail(@)]
         /\ got' = Append(got, Head(queue[s]))
         /\ processing' = [processing EXCEPT ![s] = TRUE]
         /\ frames' = frames \cup {[thread |-> "client", stage |-> s, pc |-> "got", value |-> Head(queue[s])]}
  /\ UNCHANGED <<cont, finished, chained, canceled, sent, closed, jobs>>

\* ... and finishes with it before it returns it.
GetReturns(f) ==
  /\ IsActive(f) /\ f.pc = "got"
  /\ processing' = [processing EXCEPT ![f.stage] = FALSE]
  /\ frames' = frames \ {f}
  /\ UNCHANGED <<queue, cont, finished, chained, canceled, sent, closed, jobs, got>>

\* Stream::reset, also by the destructor
Reset ==
  /\ IsIdle("client") /\ ~canceled
  /\ canceled' = TRUE
  /\ UNCHANGED <<queue, processing, cont, finished, chained, sent, closed, jobs, frames, got>>

-----------------------------------------------------------------------------
Continue(f) ==
  PopValue(f) \/ CloseNext(f) \/ ResetContinuation(f) \/ PushResult(f) \/ FinishedProcessing(f)
    \/ GetReturns(f)

RunJob == \E j \in jobs : DiscardValue(j) \/ \E w \in Workers : StartJob(w, j)

Progress == RunJob \/ \E f \in frames : Continue(f)

\* Nothing moves any more, and nobody has to send, chain or read on.
Terminated == frames = {} /\ jobs = {} /\ UNCHANGED vars

Next == Send \/ ResetProducer \/ Then \/ Get \/ Reset \/ Progress \/ Terminated

Spec == Init /\ [][Next]_vars

\* The executors run their jobs and each thread goes on with what it has begun.
FairSpec == Spec /\ WF_vars(Progress)

-----------------------------------------------------------------------------
(* Properties *)

\* Every variable has its type.
TypeOK ==
  /\ queue \in [States -> Seq(Elements)]
  /\ processing \in [States -> BOOLEAN] /\ finished \in [States -> BOOLEAN]
  /\ cont \in [Stages -> {"none", "there", "reset"}]
  /\ chained \in 0 .. Continuations
  /\ canceled \in BOOLEAN /\ closed \in BOOLEAN
  /\ sent \in 0 .. MaxValues
  /\ jobs \subseteq [stage : Stages, value : Values]
  /\ frames \subseteq Frame
  /\ got \in Seq(Elements)

Runners(s) == {f \in frames : f.stage = s} \cup {j \in jobs : j.stage = s}

\* The assertions of StreamState: popValue finds a value, and none in process; then() finds no
\* value in process; nobody pushes or closes after the end.
AssertionsHold ==
  /\ \A f \in frames :
       CASE f.pc = "pop"   -> queue[f.stage] # << >> /\ ~processing[f.stage] /\ HasContinuation(f.stage)
         [] f.pc \in {"push", "close"} -> ~finished[f.stage + 1]
         [] OTHER -> TRUE
  /\ IsIdle("client") /\ ~canceled => ~processing[chained + 1]
  /\ ~closed => ~finished[1]

\* The right to run a continuation, which pushValue, finishedProcessingPoppedValue and chain
\* hand out: one frame or job has it, whatever threads push, pop, chain and finish; and
\* somebody has it as long as there is a value to handle and the stream is not canceled.
\* So no assertion of StreamState fails.
OneRunner ==
  /\ \A s \in States :
       /\ \A a, b \in Runners(s) : a = b
       /\ HasContinuation(s) /\ queue[s] # << >> => Runners(s) # {} \/ canceled
  /\ AssertionsHold

Sent == [n \in 1 .. sent |-> n] \o (IF closed THEN <<EndOfStream>> ELSE << >>)

\* What the client got, before and after it chained continuations, and what waits for it at
\* the end of the chain is a beginning of what was sent: no value is lost, doubled or
\* overtaken, not even by an executor that runs the last job first.
ValuesInOrder == IsPrefix(got \o queue[chained + 1], Sent)

\* Without cancellation all that is sent comes out at the end of the chain, and the end of
\* the stream after it.
AllArrives ==
  \A n \in 1 .. MaxValues + 1 :
    n <= Len(Sent) /\ chained = Continuations ~> n <= Len(got) + Len(queue[Continuations + 1]) \/ canceled
=============================================================================
