-------------------------------- MODULE Jobs --------------------------------
(***************************************************************************)
(* The task.created.v1 jobs in SAQ's PostgreSQL queue (external, as the    *)
(* relay and the worker use it) and the executions of                      *)
(* process_task_created_job.                                               *)
(*                                                                         *)
(* A message and its task are the same element of Msg.  A job has one row  *)
(* in SAQ but may have several executions at once: one that SAQ gave up    *)
(* (swept, timed out) can still be about to commit when the job is run     *)
(* again.                                                                  *)
(***************************************************************************)
EXTENDS Naturals

CONSTANTS
  Msg,       \* messages, and the tasks they announce
  MaxTries,  \* retries given to queue.enqueue
  MaxRuns    \* bound: executions of one job at a time (worker concurrency)

VARIABLE job  \* SAQ's row for the message's key, and the executions of that job

Job == [ status  : {"absent", "queued", "active", "complete", "failed"},
         tries   : 0 .. MaxTries,
         running : 0 .. MaxRuns,   \* executions before their commit
         stamped : 0 .. MaxRuns ]  \* executions after it, their result not yet reported

TypeOK == job \in [Msg -> Job]

NoJob == [status |-> "absent", tries |-> 0, running |-> 0, stamped |-> 0]

Init == job = [m \in Msg |-> NoJob]
-----------------------------------------------------------------------------
\* queue.enqueue with the message id as key: a live job under the key is left alone,
\* a finished one may be left alone or replaced.
Enqueue(m) ==
  \/ job[m].status # "absent" /\ UNCHANGED job
  \/ /\ job[m].status \in {"absent", "complete", "failed"}
     /\ job' = [job EXCEPT ![m].status = "queued", ![m].tries = 0]

StartJob(m) ==
  /\ job[m].status = "queued"
  /\ job[m].running + job[m].stamped < MaxRuns
  /\ job' = [job EXCEPT ![m].status = "active", ![m].tries = @ + 1, ![m].running = @ + 1]

\* The transaction of an execution commits.
CommitJob(m) == /\ job[m].running > 0
                /\ job' = [job EXCEPT ![m].running = @ - 1, ![m].stamped = @ + 1]

\* Mutations: tries are not counted; a job that failed is forgotten.
RetriedAlways(j) == IF j.status # "active" THEN j ELSE [j EXCEPT !.status = "queued"]
RetriedNever(j)  == IF j.status # "active" THEN j ELSE [j EXCEPT !.status = "absent"]

\* SAQ retries the job while it has tries left.
Retried(j) == IF j.status # "active" THEN j
              ELSE [j EXCEPT !.status = IF j.tries < MaxTries THEN "queued" ELSE "failed"]

\* An execution raises, before its commit or (the commit timed out) after it.
JobRaises(m) ==
  \/ job[m].running > 0 /\ job' = [job EXCEPT ![m] = Retried([job[m] EXCEPT !.running = @ - 1])]
  \/ job[m].stamped > 0 /\ job' = [job EXCEPT ![m] = Retried([job[m] EXCEPT !.stamped = @ - 1])]

\* Mutation: the job is reported complete before its transaction commits.
FinishJobEarly(m) ==
  /\ job[m].running > 0
  /\ job' = [job EXCEPT ![m].running = @ - 1, ![m].status = "complete"]

\* An execution returns and SAQ records the job complete.
FinishJob(m) == /\ job[m].stamped > 0
                /\ job' = [job EXCEPT ![m].stamped = @ - 1, ![m].status = "complete"]

\* The worker dies: its execution vanishes and SAQ's row still says active.
WorkerDies(m) == \/ job[m].running > 0 /\ job' = [job EXCEPT ![m].running = @ - 1]
                 \/ job[m].stamped > 0 /\ job' = [job EXCEPT ![m].stamped = @ - 1]

\* The sweep finds an active job stuck; an execution of it may still be running.
Sweep(m) == job[m].status = "active" /\ job' = [job EXCEPT ![m] = Retried(@)]

\* SAQ forgets a finished job when its result expires.
ExpireResult(m) == /\ job[m].status \in {"complete", "failed"}
                   /\ job' = [job EXCEPT ![m].status = "absent", ![m].tries = 0]

JobStep(m) == \/ StartJob(m)   \/ JobRaises(m) \/ FinishJob(m)
              \/ WorkerDies(m) \/ Sweep(m)     \/ ExpireResult(m)
=============================================================================
