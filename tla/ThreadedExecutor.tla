-------------------------- MODULE ThreadedExecutor --------------------------
(***************************************************************************)
(* fas/threadedexecutor.h: the executor behind SystemExecutor, a thread    *)
(* that runs one job after the other.  Any thread may spawn jobs; a module *)
(* that extends this one says which and what the jobs do.                  *)
(***************************************************************************)
EXTENDS Naturals, Sequences

VARIABLES
  jobs,       \* _jobs
  quitFlag,   \* _quitFlag
  executorPc  \* threadMain: at the top of its loop, waiting, in a job or returned

executorVars == <<jobs, quitFlag, executorPc>>

ExecutorInit == jobs = << >> /\ quitFlag = FALSE /\ executorPc = "check"

\* A mutated form of WakeUpThread, and one of NotifyExecutor.
WakeUpBusyThread == jobs # << >>
NotifyNobody == UNCHANGED executorVars

\* spawn, the section under _jobsMutex.  The thread is woken only for the first job ...
Push(job) == jobs' = Append(jobs, job) /\ UNCHANGED <<quitFlag, executorPc>>

WakeUpThread == jobs = << >>

\* ... after the mutex was released: notify_one.
NotifyExecutor ==
  /\ executorPc' = IF executorPc = "waiting" THEN "check" ELSE executorPc
  /\ UNCHANGED <<jobs, quitFlag>>

\* threadMain, under _jobsMutex: it pops a job, waits or returns.
PopJob ==
  /\ executorPc = "check" /\ ~quitFlag /\ jobs # << >>
  /\ jobs' = Tail(jobs)
  /\ executorPc' = "job"
  /\ UNCHANGED quitFlag

WaitForJobs ==
  /\ executorPc = "check" /\ ~quitFlag /\ jobs = << >>
  /\ executorPc' = "waiting"
  /\ UNCHANGED <<jobs, quitFlag>>

Return ==
  /\ executorPc = "check" /\ quitFlag
  /\ executorPc' = "done"
  /\ UNCHANGED <<jobs, quitFlag>>

\* wait() may return without a notification.
WakeSpuriously ==
  /\ executorPc = "waiting"
  /\ executorPc' = "check"
  /\ UNCHANGED <<jobs, quitFlag>>

JobReturns ==
  /\ executorPc = "job"
  /\ executorPc' = "check"
  /\ UNCHANGED <<jobs, quitFlag>>

\* stop, the section under _jobsMutex; notify_one and join come after it.
SetQuitFlag ==
  /\ quitFlag' = TRUE
  /\ UNCHANGED <<jobs, executorPc>>
=============================================================================
