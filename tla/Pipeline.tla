------------------------------ MODULE Pipeline ------------------------------
(***************************************************************************)
(* From the request that creates a task to the worker's effect on it: the  *)
(* outbox and its relays (Outbox) feeding the jobs (Jobs), whose           *)
(* transactions stamp the tasks that requests edit meanwhile (Tasks).  A   *)
(* transaction or a call that two of them share is one step of both.       *)
(***************************************************************************)
EXTENDS Naturals, FiniteSets

CONSTANTS Msg, Relay, Owner, OwnerOf, LeaseSeconds, BatchSize, MaxRun, NoOwner, NoLease,
          MaxTries, MaxRuns, Text, Request

ASSUME JobAssumption    == MaxTries \in Nat \ {0} /\ MaxRuns \in Nat \ {0}
ASSUME OutboxAssumption == /\ Msg \subseteq Nat /\ OwnerOf \in [Relay -> Owner] /\ NoOwner \notin Owner
                           /\ LeaseSeconds \in Nat \ {0} /\ NoLease \notin Nat
                           /\ BatchSize \in Nat \ {0} /\ MaxRun \in Nat \ {0}
ASSUME TaskAssumption   == Msg # {} /\ Text # {}

VARIABLES rows, relay, accepted,               \* Outbox
          job,                                 \* Jobs
          life, row, request, stamps, undone,  \* Tasks
          exhausted                            \* messages whose job once ran out of tries

O == INSTANCE Outbox
J == INSTANCE Jobs
T == INSTANCE Tasks WITH Task <- Msg

outboxVars == <<rows, relay, accepted>>
taskVars   == <<life, row, request, stamps, undone>>
vars       == <<outboxVars, job, taskVars, exhausted>>

TypeOK == O!TypeOK /\ J!TypeOK /\ T!TypeOK /\ exhausted \subseteq Msg

Init == O!Init /\ J!Init /\ T!Init /\ exhausted = {}
-----------------------------------------------------------------------------
\* Mutation: the request enqueues the job itself, beside the outbox.
CreateTaskEnqueues(m) == O!CreateTask(m) /\ T!CreateTask(m) /\ J!Enqueue(m) /\ UNCHANGED exhausted

\* Mutation: the task is committed without its message.
CreateTaskAlone(m) == T!CreateTask(m) /\ UNCHANGED <<outboxVars, job, exhausted>>

\* create_task: the task and its message, in one transaction.
CreateTask(m) == O!CreateTask(m) /\ T!CreateTask(m) /\ UNCHANGED <<job, exhausted>>

PublishMessage(r, m) == /\ O!PublishMessage(r, m) /\ J!Enqueue(m)
                        /\ UNCHANGED <<taskVars, exhausted>>

\* A call of enqueue that failed, or was cut short, may have stored the job.
PublishRaises(r, m) == /\ O!PublishRaises(r, m)
                       /\ \/ accepted' = accepted /\ UNCHANGED job
                          \/ m \in accepted' /\ J!Enqueue(m)
                       /\ UNCHANGED <<taskVars, exhausted>>

Interrupt(r) == /\ O!Interrupt(r)
                /\ \/ accepted' = accepted /\ UNCHANGED job
                   \/ /\ O!At(r, "publishing")
                      /\ \E m \in accepted' : O!Current(r, m) /\ J!Enqueue(m)
                /\ UNCHANGED <<taskVars, exhausted>>

RelayStep == /\ \/ \E r \in Relay : O!ClaimMessages(r) \/ O!CommitClaim(r)
                \/ \E r \in Relay, m \in Msg : \/ O!AcknowledgeMessage(r, m)
                                               \/ O!AcknowledgeRaises(r, m)
                                               \/ O!FailMessage(r, m)
                \/ O!Tick
             /\ UNCHANGED <<job, taskVars, exhausted>>

\* process_task_created_job commits its transaction.
ProcessTaskCreated(m) == /\ J!CommitJob(m) /\ T!MarkBackgroundProcessed(m)
                         /\ UNCHANGED <<outboxVars, exhausted>>

JobStep(m) == /\ J!JobStep(m)
              /\ exhausted' = IF job'[m].status = "failed" THEN exhausted \cup {m} ELSE exhausted
              /\ UNCHANGED <<outboxVars, taskVars>>

TaskStep == /\ T!RequestStep \/ \E m \in Msg : T!DeleteTask(m)
            /\ UNCHANGED <<outboxVars, job, exhausted>>

Next == \/ \E m \in Msg : CreateTask(m) \/ ProcessTaskCreated(m) \/ JobStep(m)
        \/ \E r \in Relay, m \in Msg : PublishMessage(r, m) \/ PublishRaises(r, m)
        \/ \E r \in Relay : Interrupt(r)
        \/ RelayStep
        \/ TaskStep

Spec == Init /\ [][Next]_vars

(***************************************************************************)
(* Fairness: the outbox's own, and SAQ does start queued jobs, sweeps the  *)
(* ones left active, and every execution ends (its job has a timeout) -    *)
(* well or not.                                                            *)
(***************************************************************************)
ExecutionEnds(m) == \/ ProcessTaskCreated(m)
                    \/ (J!FinishJob(m) \/ J!JobRaises(m) \/ J!WorkerDies(m)) /\ JobStep(m)

FairSpec == /\ Spec /\ O!Fairness
            /\ \A m \in Msg : /\ WF_vars(J!StartJob(m) /\ JobStep(m))
                             /\ WF_vars(J!Sweep(m) /\ JobStep(m))
                             /\ WF_vars(ExecutionEnds(m))
-----------------------------------------------------------------------------
(***************************************************************************)
(* Properties.                                                             *)
(***************************************************************************)

\* The worker's effect is applied once, although a message is enqueued any number of times
\* and several executions of its job race to commit; it is applied a second time only
\* where a request wrote over the first.
EffectOnce == \A m \in Msg : stamps[m] > 1 => m \in undone

\* The worker's effect has a cause: no task is stamped whose message was not committed
\* with it and accepted by SAQ.
EffectHasCause == \A m \in Msg : stamps[m] > 0 => rows[m].stored /\ m \in accepted

\* Once a message is published its effect is not lost: the task was stamped or is gone, or
\* SAQ still has a job that will run, or the job used up its tries.  It holds across
\* crashes of the relay and the worker, sweeps and expired results.
NothingLost ==
  \A m \in Msg :
    rows[m].published =>
      \/ stamps[m] > 0
      \/ life[m] = "deleted"
      \/ job[m].status \in {"queued", "active"}
      \/ m \in exhausted

\* A complete job means its task was stamped, or deleted before it was.
CompleteMeansDone ==
  \A m \in Msg : job[m].status = "complete" => stamps[m] > 0 \/ life[m] = "deleted"

\* Every created task is eventually stamped, unless it is deleted or its job exhausts
\* its tries.
EveryTaskProcessed ==
  \A m \in Msg : life[m] = "present" ~> stamps[m] > 0 \/ life[m] = "deleted" \/ m \in exhausted

\* Creating a task "eventually shows the worker's persisted processed timestamp": once all
\* jobs of a present task are done and none ran out of tries, it is shown processed.
DoneIsShown ==
  \A m \in Msg :
    /\ rows[m].published /\ life[m] = "present" /\ m \notin exhausted
    /\ job[m].status \in {"absent", "complete"} /\ job[m].running = 0
    => row[m].processed
=============================================================================
