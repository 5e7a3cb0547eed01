--------------------------- MODULE PipelineProofs ---------------------------
(***************************************************************************)
(* Proofs about the pipeline.  It implements the outbox and the tasks it   *)
(* is composed of, so what is proved of those holds of it; what crosses    *)
(* them, from a message to its effect, has an invariant of its own.        *)
(***************************************************************************)
EXTENDS Pipeline, TLAPS

OP == INSTANCE OutboxRefinement
TP == INSTANCE TasksProofs WITH Task <- Msg, late <- {}

-----------------------------------------------------------------------------
(***************************************************************************)
(* The parts.                                                              *)
(***************************************************************************)

\* A step of the tasks here is a step of the tasks there.
LEMMA TaskActions ==
  ASSUME NEW m \in Msg
  PROVE  /\ T!CreateTask(m) => TP!CreateTask(m)
         /\ T!DeleteTask(m) => TP!DeleteTask(m)
         /\ T!MarkBackgroundProcessed(m) => TP!MarkBackgroundProcessed(m)
         /\ T!RequestStep => TP!RequestStep
  <1>1. T!CreateTask(m) => TP!CreateTask(m)
        BY DEF T!CreateTask, TP!CreateTask, T!Blank, TP!Blank
  <1>2. T!DeleteTask(m) => TP!DeleteTask(m) BY DEF T!DeleteTask, TP!DeleteTask
  <1>3. T!MarkBackgroundProcessed(m) => TP!MarkBackgroundProcessed(m)
        BY DEF T!MarkBackgroundProcessed, TP!MarkBackgroundProcessed, T!Unprocessed, TP!Unprocessed
  <1>4. T!RequestStep => TP!RequestStep
        BY DEF T!RequestStep, TP!RequestStep, T!UpdateTask, TP!UpdateTask, T!ToggleTask,
               TP!ToggleTask, T!ReadTask, TP!ReadTask, T!Reread, TP!Reread, T!Flush, TP!Flush,
               T!Abandon, TP!Abandon, T!Close, TP!Close, T!Sent, TP!Sent, T!Rest, TP!Rest,
               T!Blank, TP!Blank, T!Column, TP!Column
  <1> QED BY <1>1, <1>2, <1>3, <1>4

\* Every step of the pipeline is a step of the tasks, or none of theirs.
LEMMA TaskSteps == [Next]_vars => [TP!Next]_TP!vars
  <1> SUFFICES ASSUME [Next]_vars PROVE TP!Next \/ UNCHANGED taskVars
      BY DEF TP!vars, taskVars
  <1>1. CASE UNCHANGED vars BY <1>1 DEF vars
  <1>2. ASSUME NEW m \in Msg, CreateTask(m) \/ ProcessTaskCreated(m) \/ JobStep(m)
        PROVE  TP!Next \/ UNCHANGED taskVars
        BY <1>2, TaskActions DEF CreateTask, ProcessTaskCreated, JobStep, TP!Next
  <1>3. CASE TaskStep
    <2>1. PICK m \in Msg : TRUE BY TaskAssumption
    <2>2. T!RequestStep => TP!RequestStep BY TaskActions
    <2>3. \A n \in Msg : T!DeleteTask(n) => TP!DeleteTask(n) BY TaskActions
    <2> QED BY <1>3, <2>2, <2>3 DEF TaskStep, TP!Next
  <1>4. CASE RelayStep BY <1>4 DEF RelayStep
  <1>5. CASE \/ \E r \in Relay, m \in Msg : PublishMessage(r, m) \/ PublishRaises(r, m)
             \/ \E r \in Relay : Interrupt(r)
        BY <1>5 DEF PublishMessage, PublishRaises, Interrupt
  <1> QED BY <1>1, <1>2, <1>3, <1>4, <1>5 DEF Next

\* A step of a relay or of time here is one there.
RelaySteps ==
  \/ \E r \in Relay : OP!ClaimMessages(r) \/ OP!CommitClaim(r) \/ OP!Interrupt(r)
  \/ \E r \in Relay, m \in Msg :
       \/ OP!PublishMessage(r, m)     \/ OP!PublishRaises(r, m)
       \/ OP!AcknowledgeMessage(r, m) \/ OP!AcknowledgeRaises(r, m)
       \/ OP!FailMessage(r, m)
  \/ OP!Tick

\* An action of the outbox here is the same action there.
LEMMA OutboxActions ==
  ASSUME NEW r \in Relay, NEW m \in Msg
  PROVE  /\ O!CreateTask(m) => OP!CreateTask(m)
         /\ O!ClaimMessages(r) => OP!ClaimMessages(r)
         /\ O!CommitClaim(r) => OP!CommitClaim(r)
         /\ O!PublishMessage(r, m) => OP!PublishMessage(r, m)
         /\ O!PublishRaises(r, m) => OP!PublishRaises(r, m)
         /\ O!AcknowledgeMessage(r, m) => OP!AcknowledgeMessage(r, m)
         /\ O!AcknowledgeRaises(r, m) => OP!AcknowledgeRaises(r, m)
         /\ O!FailMessage(r, m) => OP!FailMessage(r, m)
         /\ O!Interrupt(r) => OP!Interrupt(r)
         /\ O!Tick => OP!Tick
  <1>1. O!CreateTask(m) => OP!CreateTask(m) BY DEF O!CreateTask, OP!CreateTask
  <1>2. O!ClaimMessages(r) => OP!ClaimMessages(r)
        BY DEF O!ClaimMessages, OP!ClaimMessages, O!At, OP!At, O!Claimable, OP!Claimable, O!Unleased,
               OP!Unleased, O!Locked, OP!Locked, O!IsOldest, OP!IsOldest, O!Cardinality,
               OP!Cardinality
  <1>3. O!CommitClaim(r) => OP!CommitClaim(r)
        BY DEF O!CommitClaim, OP!CommitClaim, O!At, OP!At, O!Claimed, OP!Claimed, O!Leased,
               OP!Leased, O!Loop, OP!Loop, O!Resting, OP!Resting
  <1>4. O!PublishMessage(r, m) => OP!PublishMessage(r, m)
        BY DEF O!PublishMessage, OP!PublishMessage, O!At, OP!At, O!Current, OP!Current, O!Goto,
               OP!Goto
  <1>5. O!PublishRaises(r, m) => OP!PublishRaises(r, m)
        BY DEF O!PublishRaises, OP!PublishRaises, O!At, OP!At, O!Current, OP!Current, O!Goto,
               OP!Goto
  <1> USE DEF O!At, OP!At, O!Current, OP!Current, O!Locked, OP!Locked, O!HeldBy, OP!HeldBy,
              O!MarkPublished, OP!MarkPublished, O!AsPublished, OP!AsPublished, O!MarkFailed,
              OP!MarkFailed, O!AsFailed, OP!AsFailed, O!Resting, OP!Resting
  <1>6. O!AcknowledgeMessage(r, m) => OP!AcknowledgeMessage(r, m)
        BY DEF O!AcknowledgeMessage, OP!AcknowledgeMessage, O!Loop, OP!Loop
  <1>7. O!AcknowledgeRaises(r, m) => OP!AcknowledgeRaises(r, m)
        BY DEF O!AcknowledgeRaises, OP!AcknowledgeRaises, O!Goto, OP!Goto
  <1>8. O!FailMessage(r, m) => OP!FailMessage(r, m)
        BY DEF O!FailMessage, OP!FailMessage, O!Loop, OP!Loop
  <1>9. O!Interrupt(r) => OP!Interrupt(r)
        BY DEF O!Interrupt, OP!Interrupt, O!Claimed, OP!Claimed, O!Leased, OP!Leased
  <1>10. O!Tick => OP!Tick BY DEF O!Tick, OP!Tick, O!Sooner, OP!Sooner
  <1> QED BY <1>1, <1>2, <1>3, <1>4, <1>5, <1>6, <1>7, <1>8, <1>9, <1>10

\* The steps of relays and of time are such steps.
RelayMoves == \/ \E r \in Relay, m \in Msg : PublishMessage(r, m) \/ PublishRaises(r, m)
              \/ \E r \in Relay : Interrupt(r)
              \/ RelayStep

LEMMA RelayIsRelay == RelayMoves => RelaySteps
  <1> SUFFICES ASSUME RelayMoves PROVE RelaySteps OBVIOUS
  <1>1. PICK n \in Msg : TRUE BY TaskAssumption
  <1>2. CASE RelayStep
    <2>1. CASE O!Tick BY <2>1 DEF RelaySteps, O!Tick, OP!Tick, O!At, OP!At, O!Sooner, OP!Sooner
    <2>2. ASSUME NEW r \in Relay, O!ClaimMessages(r) \/ O!CommitClaim(r) PROVE RelaySteps
          BY <1>1, <2>2, OutboxActions DEF RelaySteps
    <2>3. ASSUME NEW r \in Relay, NEW m \in Msg,
                 O!AcknowledgeMessage(r, m) \/ O!AcknowledgeRaises(r, m) \/ O!FailMessage(r, m)
          PROVE  RelaySteps
          BY <2>3, OutboxActions DEF RelaySteps
    <2> QED BY <1>2, <2>1, <2>2, <2>3 DEF RelayStep
  <1>3. ASSUME NEW r \in Relay, NEW m \in Msg, PublishMessage(r, m) \/ PublishRaises(r, m)
        PROVE  RelaySteps
        BY <1>3, OutboxActions DEF PublishMessage, PublishRaises, RelaySteps
  <1>4. ASSUME NEW r \in Relay, Interrupt(r) PROVE RelaySteps
        BY <1>1, <1>4, OutboxActions DEF Interrupt, RelaySteps
  <1> QED BY <1>2, <1>3, <1>4 DEF RelayMoves

\* Of the outbox, a step of the pipeline creates a message, is a step of a relay or of time, or
\* does nothing.
LEMMA OutboxSteps ==
  ASSUME [Next]_vars
  PROVE  \/ \E m \in Msg : OP!CreateTask(m) /\ T!CreateTask(m)
         \/ RelaySteps
         \/ UNCHANGED outboxVars
  <1>1. CASE UNCHANGED vars BY <1>1 DEF vars
  <1>2. ASSUME NEW m \in Msg, CreateTask(m) PROVE OP!CreateTask(m) /\ T!CreateTask(m)
        BY <1>2 DEF CreateTask, O!CreateTask, OP!CreateTask
  <1>3. ASSUME NEW m \in Msg, ProcessTaskCreated(m) \/ JobStep(m) PROVE UNCHANGED outboxVars
        BY <1>3 DEF ProcessTaskCreated, JobStep
  <1>4. CASE TaskStep BY <1>4 DEF TaskStep
  <1>5. RelayMoves => RelaySteps BY RelayIsRelay
  <1> QED BY <1>1, <1>2, <1>3, <1>4, <1>5 DEF Next, RelayMoves

\* The pipeline keeps what is proved of the outbox and of the tasks.
Parts == OP!TypeOK /\ OP!Locking /\ OP!Acceptance /\ TP!IInv

LEMMA PartsInit == Init => Parts
  <1> SUFFICES ASSUME Init PROVE Parts OBVIOUS
  <1>1. OP!Init BY DEF Init, O!Init, OP!Init, O!NoRow, OP!NoRow, O!Resting, OP!Resting
  <1>2. OP!TypeOK BY <1>1, OutboxAssumption, OP!TypeInit
  <1>3. OP!Locking
        BY <1>1 DEF OP!Init, OP!NoRow, OP!Resting, OP!Locking, OP!PublishedIsClean,
                    OP!BatchIsStored, OP!LockedIsUnleased, OP!LocksAreExclusive, OP!At
  <1>4. OP!Acceptance
        BY <1>1 DEF OP!Init, OP!NoRow, OP!Resting, OP!Acceptance, OP!AcksAreAccepted,
                    OP!PublishedWasAccepted, OP!At
  <1>5. TP!Init BY DEF Init, T!Init, TP!Init, T!Blank, TP!Blank, T!Rest, TP!Rest
  <1>6. TP!IInv BY <1>5, TaskAssumption, TP!InitIInv
  <1> QED BY <1>2, <1>3, <1>4, <1>6 DEF Parts

LEMMA PartsNext == Parts /\ [Next]_vars => Parts'
  <1> SUFFICES ASSUME Parts, [Next]_vars PROVE Parts' OBVIOUS
  <1> USE DEF Parts
  <1>1. [OP!Next]_OP!vars BY OutboxSteps DEF OP!Next, RelaySteps, OP!vars, outboxVars
  <1>2. OP!TypeOK' BY <1>1, OutboxAssumption, OP!TypeNext
  <1>3. OP!Locking' BY <1>1, OutboxAssumption, OP!LockingNext
  <1>4. OP!Acceptance' BY <1>1, OutboxAssumption, OP!AcceptanceNext
  <1>5. TP!IInv' BY TaskAssumption, TaskSteps, TP!NextKeeps
  <1> QED BY <1>2, <1>3, <1>4, <1>5
-----------------------------------------------------------------------------
(***************************************************************************)
(* The jobs: whatever is done to one job leaves a job behind.              *)
(***************************************************************************)

\* A queued job has a try left, and no job has more executions than the worker runs.
JobInv == /\ J!TypeOK
          /\ \A m \in Msg : /\ job[m].status = "queued" => job[m].tries < MaxTries
                            /\ job[m].running + job[m].stamped <= MaxRuns

WritesJob(m, f) == job' = [job EXCEPT ![m] = f]

\* Two fields written at once.
LEMMA JobFields ==
  ASSUME NEW j \in J!Job
  PROVE  /\ [j EXCEPT !.status = "absent", !.tries = 0] =
              [status |-> "absent", tries |-> 0, running |-> j.running, stamped |-> j.stamped]
         /\ [j EXCEPT !.stamped = @ - 1, !.status = "complete"] =
              [status |-> "complete", tries |-> j.tries, running |-> j.running,
               stamped |-> j.stamped - 1]
  <1> DEFINE g == [j EXCEPT !.status = "absent"]
             h == [j EXCEPT !.stamped = @ - 1]
  <1>1. g = [status |-> "absent", tries |-> j.tries, running |-> j.running, stamped |-> j.stamped]
        BY DEF J!Job
  <1>2. [j EXCEPT !.status = "absent", !.tries = 0] = [g EXCEPT !.tries = 0] BY DEF J!Job
  <1>3. h = [status |-> j.status, tries |-> j.tries, running |-> j.running,
             stamped |-> j.stamped - 1]
        BY DEF J!Job
  <1>4. [j EXCEPT !.stamped = @ - 1, !.status = "complete"] = [h EXCEPT !.status = "complete"]
        BY DEF J!Job
  <1> HIDE DEF g, h
  <1> QED BY <1>1, <1>2, <1>3, <1>4

\* Each thing that may happen to a job, as the job it leaves.
LEMMA JobWrites ==
  ASSUME JobInv, NEW m \in Msg, J!Enqueue(m) \/ J!CommitJob(m) \/ J!JobStep(m)
  PROVE  \E f \in J!Job :
           /\ WritesJob(m, f)
           /\ f.status = "queued" => f.tries < MaxTries
           /\ f.running + f.stamped <= MaxRuns
  <1> DEFINE j == job[m]
             Fits(f) == /\ f \in J!Job
                        /\ f.status = "queued" => f.tries < MaxTries
                        /\ f.running + f.stamped <= MaxRuns
  <1>j. j \in J!Job /\ Fits(j) /\ job \in [Msg -> J!Job]
        BY DEF JobInv, J!TypeOK, J!Job
  <1>n. MaxTries \in Nat \ {0} /\ MaxRuns \in Nat \ {0} BY JobAssumption
  <1>r. ASSUME NEW f, Fits(f) PROVE Fits(J!Retried(f))
        BY <1>r, <1>n DEF J!Retried, J!Job
  <1>s. SUFFICES \E f : Fits(f) /\ WritesJob(m, f) OBVIOUS
  <1>0. CASE job' = job BY <1>0, <1>j DEF WritesJob
  <1>1. CASE J!Enqueue(m)
    <2> DEFINE f == [status |-> "queued", tries |-> 0, running |-> j.running,
                    stamped |-> j.stamped]
    <2>f. f \in J!Job /\ f.tries = 0 /\ f.running = j.running /\ f.stamped = j.stamped
          BY <1>j, <1>n DEF J!Job
    <2>1. Fits(f)
      <3> HIDE DEF f
      <3> QED BY <1>j, <1>n, <2>f
    <2>2. job' = job \/ WritesJob(m, f) BY <1>1, <1>j DEF J!Enqueue, WritesJob, J!TypeOK, J!Job
    <2> QED BY <1>0, <2>1, <2>2
  <1>2. CASE J!CommitJob(m)
    <2> DEFINE f == [j EXCEPT !.running = @ - 1, !.stamped = @ + 1]
    <2>1. Fits(f) BY <1>2, <1>j, <1>n DEF J!CommitJob, J!Job
    <2>2. WritesJob(m, f) BY <1>2, <1>j DEF J!CommitJob, WritesJob, J!TypeOK, J!Job
    <2> QED BY <2>1, <2>2
  <1>3. CASE J!StartJob(m)
    <2> DEFINE f == [j EXCEPT !.status = "active", !.tries = @ + 1, !.running = @ + 1]
    <2>1. Fits(f) BY <1>3, <1>j, <1>n DEF J!StartJob, J!Job
    <2>2. WritesJob(m, f) BY <1>3, <1>j DEF J!StartJob, WritesJob, J!Job
    <2> QED BY <2>1, <2>2
  <1>4. ASSUME j.running > 0 PROVE Fits([j EXCEPT !.running = @ - 1])
        BY <1>4, <1>j, <1>n DEF J!Job
  <1>5. ASSUME j.stamped > 0 PROVE Fits([j EXCEPT !.stamped = @ - 1])
        BY <1>5, <1>j, <1>n DEF J!Job
  <1>6. CASE J!WorkerDies(m)
    <2>1. \/ j.running > 0 /\ WritesJob(m, [j EXCEPT !.running = @ - 1])
          \/ j.stamped > 0 /\ WritesJob(m, [j EXCEPT !.stamped = @ - 1])
          BY <1>6, <1>j DEF J!WorkerDies, WritesJob, J!Job
    <2> QED BY <1>4, <1>5, <2>1
  <1>7. CASE J!JobRaises(m)
    <2>1. \/ j.running > 0 /\ WritesJob(m, J!Retried([j EXCEPT !.running = @ - 1]))
          \/ j.stamped > 0 /\ WritesJob(m, J!Retried([j EXCEPT !.stamped = @ - 1]))
          BY <1>7, Zenon DEF J!JobRaises, WritesJob
    <2> QED BY <1>4, <1>5, <1>r, <2>1
  <1>8. CASE J!FinishJob(m)
    <2> DEFINE f == [status |-> "complete", tries |-> j.tries, running |-> j.running,
                    stamped |-> j.stamped - 1]
    <2>f. /\ f \in J!Job /\ f.status = "complete"
          /\ f.running = j.running /\ f.stamped = j.stamped - 1
          BY <1>8, <1>j, <1>n DEF J!FinishJob, J!Job
    <2>1. Fits(f)
      <3> HIDE DEF f
      <3> QED BY <1>j, <1>n, <2>f DEF J!Job
    <2>2. [j EXCEPT !.stamped = @ - 1, !.status = "complete"] = f BY <1>j, JobFields
    <2>3. WritesJob(m, [j EXCEPT !.stamped = @ - 1, !.status = "complete"])
          BY <1>8, <1>j DEF J!FinishJob, WritesJob
    <2> QED BY <2>1, <2>2, <2>3
  <1>9. CASE J!Sweep(m)
    <2>1. WritesJob(m, J!Retried(j)) BY <1>9, <1>j DEF J!Sweep, WritesJob
    <2> QED BY <1>j, <1>r, <2>1
  <1>10. CASE J!ExpireResult(m)
    <2> DEFINE f == [status |-> "absent", tries |-> 0, running |-> j.running,
                    stamped |-> j.stamped]
    <2>f. /\ f \in J!Job /\ f.status = "absent"
          /\ f.running = j.running /\ f.stamped = j.stamped
          BY <1>j, <1>n DEF J!Job
    <2>1. Fits(f)
      <3> HIDE DEF f
      <3> QED BY <1>j, <2>f
    <2>2. [j EXCEPT !.status = "absent", !.tries = 0] = f BY <1>j, JobFields
    <2>3. WritesJob(m, [j EXCEPT !.status = "absent", !.tries = 0])
          BY <1>10, <1>j DEF J!ExpireResult, WritesJob
    <2> QED BY <2>1, <2>2, <2>3
  <1> QED BY <1>1, <1>2, <1>3, <1>6, <1>7, <1>8, <1>9, <1>10 DEF J!JobStep

\* So the jobs keep their invariant, and the other jobs are left alone.
LEMMA JobKeeps ==
  ASSUME JobInv, NEW m \in Msg, J!Enqueue(m) \/ J!CommitJob(m) \/ J!JobStep(m)
  PROVE  JobInv' /\ \A n \in Msg : n # m => job'[n] = job[n]
  <1>1. PICK f \in J!Job : /\ WritesJob(m, f)
                           /\ f.status = "queued" => f.tries < MaxTries
                           /\ f.running + f.stamped <= MaxRuns
        BY JobWrites
  <1>2. job \in [Msg -> J!Job] BY DEF JobInv, J!TypeOK
  <1>3. /\ job' \in [Msg -> J!Job] /\ job'[m] = f
        /\ \A n \in Msg : n # m => job'[n] = job[n]
        BY <1>1, <1>2 DEF WritesJob
  <1>4. \A n \in Msg : /\ job'[n].status = "queued" => job'[n].tries < MaxTries
                       /\ job'[n].running + job'[n].stamped <= MaxRuns
        BY <1>1, <1>3 DEF JobInv
  <1> QED BY <1>3, <1>4 DEF JobInv, J!TypeOK, J!Job

\* What each of them does to the job's status and its executions.
LEMMA JobEffects ==
  ASSUME JobInv, NEW m \in Msg
  PROVE  /\ J!Enqueue(m) => /\ job[m].status \in {"absent", "complete", "failed"}
                                 => \/ job'[m].status = "queued"
                                    \/ job[m].status # "absent" /\ job' = job
                            /\ job'[m].status \in {job[m].status, "queued"}
                            /\ job'[m].stamped = job[m].stamped
         /\ J!CommitJob(m) => job[m].running > 0 /\ job'[m].status = job[m].status
         /\ J!JobStep(m) =>
              /\ job'[m].status # "absent" => job[m].status # "absent" \/ job[m].stamped > 0
              /\ job'[m].running > 0 => job[m].running > 0 \/ job[m].status # "absent"
              /\ job'[m].stamped > 0 => job[m].stamped > 0
              /\ job'[m].status = "complete" => job[m].status = "complete" \/ job[m].stamped > 0
              /\ job[m].status \in {"queued", "active"} =>
                   \/ job'[m].status \in {"queued", "active", "failed"}
                   \/ job[m].stamped > 0
  <1> DEFINE j == job[m]
  <1>j. /\ j \in J!Job /\ job \in [Msg -> J!Job]
        BY DEF JobInv, J!TypeOK
  <1>1. ASSUME J!Enqueue(m)
        PROVE  /\ j.status \in {"absent", "complete", "failed"}
                    => job'[m].status = "queued" \/ (j.status # "absent" /\ job' = job)
               /\ job'[m].status \in {j.status, "queued"}
               /\ job'[m].stamped = j.stamped
        BY <1>1, <1>j DEF J!Enqueue, J!Job
  <1>2. ASSUME J!CommitJob(m) PROVE j.running > 0 /\ job'[m].status = j.status
        BY <1>2, <1>j DEF J!CommitJob, J!Job
  <1>3. ASSUME J!JobStep(m)
        PROVE  /\ job'[m].status # "absent" => j.status # "absent" \/ j.stamped > 0
               /\ job'[m].running > 0 => j.running > 0 \/ j.status # "absent"
               /\ job'[m].stamped > 0 => j.stamped > 0
               /\ job'[m].status = "complete" => j.status = "complete" \/ j.stamped > 0
               /\ j.status \in {"queued", "active"} =>
                    job'[m].status \in {"queued", "active", "failed"} \/ j.stamped > 0
    <2> USE <1>j DEF J!Job
    <2>1. CASE J!StartJob(m) BY <2>1 DEF J!StartJob
    <2>2. CASE J!JobRaises(m)
      <3>1. CASE j.running > 0 /\ job' = [job EXCEPT ![m] = J!Retried([j EXCEPT !.running = @ - 1])]
            BY <3>1 DEF J!Retried
      <3>2. CASE j.stamped > 0 /\ job' = [job EXCEPT ![m] = J!Retried([j EXCEPT !.stamped = @ - 1])]
            BY <3>2 DEF J!Retried
      <3> QED BY <2>2, <3>1, <3>2, Zenon DEF J!JobRaises
    <2>3. CASE J!FinishJob(m) BY <2>3 DEF J!FinishJob
    <2>4. CASE J!WorkerDies(m) BY <2>4 DEF J!WorkerDies
    <2>5. CASE J!Sweep(m) BY <2>5 DEF J!Sweep, J!Retried
    <2>6. CASE J!ExpireResult(m) BY <2>6 DEF J!ExpireResult
    <2> QED BY <1>3, <2>1, <2>2, <2>3, <2>4, <2>5, <2>6 DEF J!JobStep
  <1> QED BY <1>1, <1>2, <1>3
-----------------------------------------------------------------------------
(***************************************************************************)
(* From a message to its effect.                                           *)
(***************************************************************************)

\* Nothing is left to do for m: its task was stamped or is gone.
Settled(m) == stamps[m] > 0 \/ life[m] = "deleted"

Crosses(m) ==
  /\ rows[m].stored => life[m] # "absent"
  /\ m \in accepted => rows[m].stored
  /\ \/ stamps[m] > 0
     \/ job[m].status # "absent" \/ job[m].running > 0 \/ job[m].stamped > 0
     => m \in accepted
  /\ job[m].status = "complete" \/ job[m].stamped > 0 => Settled(m)
  /\ job[m].status = "failed" => m \in exhausted
  /\ m \in accepted => \/ Settled(m) \/ m \in exhausted
                       \/ job[m].status \in {"queued", "active"}

Cross == JobInv /\ exhausted \subseteq Msg /\ \A m \in Msg : Crosses(m)

LEMMA CrossInit == Init => Cross
  BY JobAssumption DEF Init, O!Init, O!NoRow, J!Init, J!NoJob, T!Init, Cross, Crosses, Settled,
                       JobInv, J!TypeOK, J!Job

\* What each step of the tasks does to their lives and stamps.
LEMMA TaskEffects ==
  ASSUME TP!IInv, NEW m \in Msg
  PROVE  /\ T!CreateTask(m) => /\ stamps' = stamps /\ life[m] = "absent" /\ life'[m] = "present"
                               /\ \A n \in Msg : n # m => life'[n] = life[n]
         /\ T!DeleteTask(m) => /\ stamps' = stamps /\ life'[m] = "deleted"
                               /\ \A n \in Msg : n # m => life'[n] = life[n]
         /\ T!RequestStep => stamps' = stamps /\ life' = life
         /\ T!MarkBackgroundProcessed(m) =>
              /\ life' = life
              /\ \A n \in Msg : n # m => stamps'[n] = stamps[n]
              /\ stamps[m] > 0 => stamps'[m] > 0
              /\ stamps'[m] > 0 \/ life[m] # "present"
  <1>t. /\ life \in [Msg -> {"absent", "present", "deleted"}]
        /\ stamps \in [Msg -> 0 .. 2]
        BY DEF TP!IInv, TP!TypeOK
  <1>1. T!CreateTask(m) => /\ stamps' = stamps /\ life[m] = "absent" /\ life'[m] = "present"
                           /\ \A n \in Msg : n # m => life'[n] = life[n]
        BY <1>t DEF T!CreateTask
  <1>2. T!DeleteTask(m) => /\ stamps' = stamps /\ life'[m] = "deleted"
                           /\ \A n \in Msg : n # m => life'[n] = life[n]
        BY <1>t DEF T!DeleteTask
  <1>3. T!RequestStep => stamps' = stamps /\ life' = life
        BY DEF T!RequestStep, T!UpdateTask, T!ToggleTask, T!ReadTask, T!Reread, T!Flush, T!Abandon
  <1>4. ASSUME T!MarkBackgroundProcessed(m)
        PROVE  /\ life' = life
               /\ \A n \in Msg : n # m => stamps'[n] = stamps[n]
               /\ stamps[m] > 0 => stamps'[m] > 0
               /\ stamps'[m] > 0 \/ life[m] # "present"
    <2>1. CASE T!Unprocessed(m) BY <1>4, <1>t, <2>1 DEF T!MarkBackgroundProcessed
    <2>2. CASE ~T!Unprocessed(m)
      <3>1. row[m].processed => stamps[m] > 0 BY DEF TP!IInv, TP!Stamped
      <3> QED BY <1>4, <2>2, <3>1 DEF T!MarkBackgroundProcessed, T!Unprocessed
    <2> QED BY <2>1, <2>2
  <1> QED BY <1>1, <1>2, <1>3, <1>4

\* What a step of a relay or of time shows outside: SAQ accepts a committed message and
\* enqueues its job, or nothing is accepted and no job touched.
LEMMA RelayEffects ==
  ASSUME Parts, RelayMoves
  PROVE  /\ \A n \in Msg : rows'[n].stored = rows[n].stored
         /\ UNCHANGED <<taskVars, exhausted>>
         /\ \/ accepted' = accepted /\ job' = job
            \/ \E m \in Msg : rows[m].stored /\ accepted' = accepted \cup {m} /\ J!Enqueue(m)
  <1>1. UNCHANGED <<taskVars, exhausted>>
        BY DEF RelayMoves, PublishMessage, PublishRaises, Interrupt, RelayStep
  <1>2. RelaySteps BY RelayIsRelay
  <1>3. \A n \in Msg : rows'[n].stored = rows[n].stored
        BY <1>2, OutboxAssumption, OP!OnlyRequestsStore DEF Parts, RelaySteps
  <1>4. ASSUME NEW r \in Relay, NEW m \in Msg, O!Current(r, m) PROVE rows[m].stored
        BY <1>4 DEF Parts, OP!Locking, OP!BatchIsStored, O!Current
  <1>5. ASSUME NEW r \in Relay, NEW m \in Msg, PublishMessage(r, m) \/ PublishRaises(r, m)
        PROVE  \/ accepted' = accepted /\ job' = job
               \/ rows[m].stored /\ accepted' = accepted \cup {m} /\ J!Enqueue(m)
    <2>1. O!Current(r, m)
          BY <1>5 DEF PublishMessage, PublishRaises, O!PublishMessage, O!PublishRaises
    <2>2. \/ accepted' = accepted /\ job' = job
          \/ accepted' = accepted \cup {m} /\ J!Enqueue(m)
          BY <1>5 DEF PublishMessage, PublishRaises, O!PublishMessage, O!PublishRaises
    <2> QED BY <1>4, <2>1, <2>2
  <1>6. ASSUME NEW r \in Relay, Interrupt(r)
        PROVE  \/ accepted' = accepted /\ job' = job
               \/ \E m \in Msg : rows[m].stored /\ accepted' = accepted \cup {m} /\ J!Enqueue(m)
    <2>1. CASE accepted' = accepted /\ UNCHANGED job BY <2>1
    <2>2. CASE ~(accepted' = accepted /\ UNCHANGED job)
      <3>1. PICK m \in accepted' : O!Current(r, m) /\ J!Enqueue(m) BY <1>6, <2>2 DEF Interrupt
      <3>2. accepted' = accepted \/ \E k \in Msg : O!Current(r, k) /\ accepted' = accepted \cup {k}
            BY <1>6 DEF Interrupt, O!Interrupt
      <3>3. accepted \subseteq Msg /\ m \in Msg BY <3>1, <3>2 DEF Parts, OP!TypeOK
      <3>4. accepted' = accepted \cup {m}
        <4>1. CASE accepted' = accepted BY <3>1, <4>1
        <4>2. ASSUME NEW k \in Msg, O!Current(r, k) PROVE k = m
              BY <3>1, <3>3, <4>2, OutboxAssumption DEF O!Current
        <4> QED BY <3>2, <4>1, <4>2
      <3> QED BY <1>4, <3>1, <3>3, <3>4
    <2> QED BY <2>1, <2>2
  <1>7. RelayStep => accepted' = accepted /\ job' = job
        BY DEF RelayStep, O!ClaimMessages, O!CommitClaim, O!AcknowledgeMessage,
               O!AcknowledgeRaises, O!FailMessage, O!Tick
  <1> QED BY <1>1, <1>3, <1>5, <1>6, <1>7 DEF RelayMoves

\* A message, its job and its task, as long as no step touches them.
LEMMA CrossKept ==
  ASSUME NEW n \in Msg, Crosses(n),
         rows'[n].stored = rows[n].stored, n \in accepted' <=> n \in accepted,
         job'[n] = job[n], life'[n] = life[n], stamps'[n] = stamps[n],
         n \in exhausted' <=> n \in exhausted
  PROVE  Crosses(n)'
  BY DEF Crosses, Settled

LEMMA CrossNext == Parts /\ Cross /\ [Next]_vars => Cross'
  <1> SUFFICES ASSUME Parts, Cross, [Next]_vars PROVE Cross' OBVIOUS
  <1>p. TP!IInv /\ JobInv /\ exhausted \subseteq Msg /\ \A n \in Msg : Crosses(n)
        BY DEF Parts, Cross
  <1>t. /\ \A n \in Msg : life[n] \in {"absent", "present", "deleted"} /\ stamps[n] \in 0 .. 2
        /\ \A n \in Msg : job[n] \in J!Job
        /\ rows \in [Msg -> OP!Row]
        BY <1>p DEF Parts, OP!TypeOK, TP!IInv, TP!TypeOK, JobInv, J!TypeOK
  <1>1. CASE UNCHANGED vars
    <2>1. \A n \in Msg : Crosses(n)'
          BY <1>1, <1>p, CrossKept DEF vars, outboxVars, taskVars
    <2> QED BY <1>1, <1>p, <2>1 DEF vars, Cross, JobInv, J!TypeOK
  <1>2. ASSUME NEW m \in Msg, CreateTask(m) PROVE Cross'
    <2>1. /\ stamps' = stamps /\ life'[m] = "present" /\ job' = job /\ exhausted' = exhausted
          /\ \A n \in Msg : n # m => life'[n] = life[n]
          BY <1>2, <1>p, TaskEffects DEF CreateTask
    <2>2. /\ accepted' = accepted /\ rows'[m].stored
          /\ \A n \in Msg : n # m => rows'[n] = rows[n]
          BY <1>2, <1>t DEF CreateTask, O!CreateTask, OP!Row
    <2>3. ~rows[m].stored BY <1>2 DEF CreateTask, O!CreateTask
    <2>4. Crosses(m)' BY <1>p, <2>1, <2>2, <2>3 DEF Crosses, Settled
    <2>5. \A n \in Msg : Crosses(n)' BY <1>p, <2>1, <2>2, <2>4, CrossKept
    <2> QED BY <1>p, <2>1, <2>5 DEF Cross, JobInv, J!TypeOK
  <1>3. ASSUME NEW m \in Msg, ProcessTaskCreated(m) PROVE Cross'
    <2>1. /\ life' = life /\ exhausted' = exhausted /\ rows' = rows /\ accepted' = accepted
          /\ \A n \in Msg : n # m => stamps'[n] = stamps[n]
          /\ stamps[m] > 0 => stamps'[m] > 0
          /\ stamps'[m] > 0 \/ life[m] # "present"
          BY <1>3, <1>p, TaskEffects DEF ProcessTaskCreated, outboxVars
    <2>2. /\ JobInv' /\ \A n \in Msg : n # m => job'[n] = job[n]
          /\ job[m].running > 0 /\ job'[m].status = job[m].status
          BY <1>3, <1>p, JobKeeps, JobEffects DEF ProcessTaskCreated
    <2>3. m \in accepted /\ rows[m].stored /\ life[m] # "absent" BY <1>p, <2>2 DEF Crosses
    <2>4. Settled(m)' BY <1>t, <2>1, <2>3 DEF Settled
    <2>5. Crosses(m)' BY <1>p, <2>1, <2>2, <2>3, <2>4 DEF Crosses
    <2>6. \A n \in Msg : Crosses(n)' BY <1>p, <2>1, <2>2, <2>5, CrossKept
    <2> QED BY <1>p, <2>1, <2>2, <2>6 DEF Cross
  <1>4. ASSUME NEW m \in Msg, JobStep(m) PROVE Cross'
    <2>1. /\ rows' = rows /\ accepted' = accepted /\ life' = life /\ stamps' = stamps
          /\ J!JobStep(m)
          /\ exhausted' = IF job'[m].status = "failed" THEN exhausted \cup {m} ELSE exhausted
          BY <1>4 DEF JobStep, outboxVars, taskVars
    <2>2. JobInv' /\ \A n \in Msg : n # m => job'[n] = job[n] BY <1>p, <2>1, JobKeeps
    <2>3. /\ job'[m].status # "absent" => job[m].status # "absent" \/ job[m].stamped > 0
          /\ job'[m].running > 0 => job[m].running > 0 \/ job[m].status # "absent"
          /\ job'[m].stamped > 0 => job[m].stamped > 0
          /\ job'[m].status = "complete" => job[m].status = "complete" \/ job[m].stamped > 0
          /\ job[m].status \in {"queued", "active"} =>
               job'[m].status \in {"queued", "active", "failed"} \/ job[m].stamped > 0
          BY <1>p, <2>1, JobEffects
    <2>4. Settled(m)' <=> Settled(m) BY <2>1 DEF Settled
    <2>5. Crosses(m)' BY <1>p, <2>1, <2>3, <2>4 DEF Crosses
    <2>6. \A n \in Msg : Crosses(n)' BY <1>p, <2>1, <2>2, <2>5, CrossKept
    <2> QED BY <1>p, <2>1, <2>2, <2>6 DEF Cross
  <1>5. CASE RelayMoves
    <2>1. /\ \A n \in Msg : rows'[n].stored = rows[n].stored
          /\ life' = life /\ stamps' = stamps /\ exhausted' = exhausted
          /\ \/ accepted' = accepted /\ job' = job
             \/ \E m \in Msg : rows[m].stored /\ accepted' = accepted \cup {m} /\ J!Enqueue(m)
          BY <1>5, RelayEffects DEF taskVars
    <2>2. CASE accepted' = accepted /\ job' = job
      <3>1. \A n \in Msg : Crosses(n)' BY <1>p, <2>1, <2>2, CrossKept
      <3> QED BY <1>p, <2>1, <2>2, <3>1 DEF Cross, JobInv, J!TypeOK
    <2>3. ASSUME NEW m \in Msg, rows[m].stored, accepted' = accepted \cup {m}, J!Enqueue(m)
          PROVE  Cross'
      <3>1. JobInv' /\ \A n \in Msg : n # m => job'[n] = job[n] BY <1>p, <2>3, JobKeeps
      <3>2. /\ job[m].status \in {"absent", "complete", "failed"} =>
                 job'[m].status = "queued" \/ (job[m].status # "absent" /\ job' = job)
            /\ job'[m].status \in {job[m].status, "queued"}
            /\ job'[m].stamped = job[m].stamped
            BY <1>p, <2>3, JobEffects
      <3>3. job[m].status \in {"absent", "queued", "active", "complete", "failed"}
            BY <1>t DEF J!Job
      <3>4. Settled(m)' <=> Settled(m) BY <2>1 DEF Settled
      <3>5. Crosses(m)' BY <1>p, <2>1, <2>3, <3>2, <3>3, <3>4 DEF Crosses
      <3>6. \A n \in Msg : Crosses(n)' BY <1>p, <2>1, <2>3, <3>1, <3>5, CrossKept
      <3> QED BY <1>p, <2>1, <3>1, <3>6 DEF Cross
    <2> QED BY <2>1, <2>2, <2>3
  <1>6. CASE TaskStep
    <2>1. /\ rows' = rows /\ accepted' = accepted /\ job' = job /\ exhausted' = exhausted
          /\ T!RequestStep \/ \E m \in Msg : T!DeleteTask(m)
          BY <1>6 DEF TaskStep, outboxVars
    <2>2. JobInv' BY <1>p, <2>1 DEF JobInv, J!TypeOK
    <2>3. CASE T!RequestStep
      <3>1. PICK m \in Msg : TRUE BY TaskAssumption
      <3>2. stamps' = stamps /\ life' = life BY <1>p, <2>3, TaskEffects
      <3>3. \A n \in Msg : Crosses(n)' BY <1>p, <2>1, <3>2, CrossKept
      <3> QED BY <1>p, <2>1, <2>2, <3>3 DEF Cross
    <2>4. ASSUME NEW m \in Msg, T!DeleteTask(m) PROVE Cross'
      <3>1. /\ stamps' = stamps /\ life'[m] = "deleted"
            /\ \A n \in Msg : n # m => life'[n] = life[n]
            BY <1>p, <2>4, TaskEffects
      <3>2. Crosses(m)' BY <1>p, <2>1, <3>1 DEF Crosses, Settled
      <3>3. \A n \in Msg : Crosses(n)' BY <1>p, <2>1, <3>1, <3>2, CrossKept
      <3> QED BY <1>p, <2>1, <2>2, <3>3 DEF Cross
    <2> QED BY <2>1, <2>3, <2>4
  <1> QED BY <1>1, <1>2, <1>3, <1>4, <1>5, <1>6 DEF Next, RelayMoves
-----------------------------------------------------------------------------
(***************************************************************************)
(* Theorems.                                                               *)
(***************************************************************************)
LEMMA Inductive == Spec => [](Parts /\ Cross)
  <1>1. Init => Parts /\ Cross BY PartsInit, CrossInit
  <1>2. (Parts /\ Cross) /\ [Next]_vars => (Parts /\ Cross)' BY PartsNext, CrossNext
  <1> QED BY <1>1, <1>2, PTL DEF Spec

\* The pipeline implements the outbox and the tasks it is made of: joining their steps and
\* running jobs lets neither do anything it would not do alone.
THEOREM ImplementsParts == Spec => O!Spec /\ T!Spec
  <1>1. Init => O!Init /\ T!Init BY DEF Init
  <1>2. [Next]_vars => [O!Next]_O!vars
    <2> SUFFICES ASSUME [Next]_vars PROVE O!Next \/ UNCHANGED outboxVars
        BY DEF O!vars, outboxVars
    <2>1. CASE UNCHANGED vars BY <2>1 DEF vars
    <2>2. ASSUME NEW m \in Msg, CreateTask(m) PROVE O!Next BY <2>2 DEF CreateTask, O!Next
    <2>3. ASSUME NEW m \in Msg, ProcessTaskCreated(m) \/ JobStep(m) PROVE UNCHANGED outboxVars
          BY <2>3 DEF ProcessTaskCreated, JobStep
    <2>4. RelayMoves => O!Next BY DEF RelayMoves, PublishMessage, PublishRaises, Interrupt,
                                     RelayStep, O!Next
    <2>5. TaskStep => UNCHANGED outboxVars BY DEF TaskStep
    <2> QED BY <2>1, <2>2, <2>3, <2>4, <2>5 DEF Next, RelayMoves
  <1>3. [Next]_vars => [T!Next]_T!vars
    <2> SUFFICES ASSUME [Next]_vars PROVE T!Next \/ UNCHANGED taskVars
        BY DEF T!vars, taskVars
    <2>1. CASE UNCHANGED vars BY <2>1 DEF vars
    <2>2. ASSUME NEW m \in Msg, CreateTask(m) \/ ProcessTaskCreated(m) PROVE T!Next
          BY <2>2 DEF CreateTask, ProcessTaskCreated, T!Next
    <2>3. ASSUME NEW m \in Msg, JobStep(m) PROVE UNCHANGED taskVars BY <2>3 DEF JobStep
    <2>4. RelayMoves => UNCHANGED taskVars
          BY DEF RelayMoves, PublishMessage, PublishRaises, Interrupt, RelayStep
    <2>5. TaskStep => T!Next BY DEF TaskStep, T!Next
    <2> QED BY <2>1, <2>2, <2>3, <2>4, <2>5 DEF Next, RelayMoves
  <1> QED BY <1>1, <1>2, <1>3, PTL DEF Spec, O!Spec, T!Spec

\* Outbox, jobs and tasks keep to their types together.
THEOREM TypeCorrect == Spec => []TypeOK
  <1>1. Parts /\ Cross => TypeOK
    <2> SUFFICES ASSUME Parts, Cross PROVE TypeOK OBVIOUS
    <2>1. O!TypeOK BY DEF Parts, OP!TypeOK, O!TypeOK, OP!Row, O!Row, OP!Execution, O!Execution
    <2>2. J!TypeOK /\ exhausted \subseteq Msg BY DEF Cross, JobInv
    <2>3. T!TypeOK BY DEF Parts, TP!IInv, TP!TypeOK, T!TypeOK, TP!Columns, T!Columns, TP!Editing,
                          T!Editing
    <2> QED BY <2>1, <2>2, <2>3 DEF TypeOK
  <1> QED BY <1>1, Inductive, PTL

\* However often a message is delivered and its job run, the worker's effect is applied once,
\* and again only where a request wrote over it.
THEOREM EffectHappensOnce == Spec => []EffectOnce
  <1>1. Parts => EffectOnce BY DEF Parts, TP!IInv, TP!Stamped, EffectOnce
  <1> QED BY <1>1, Inductive, PTL

\* No task is stamped but for a committed message that SAQ accepted.
THEOREM EffectsHaveCauses == Spec => []EffectHasCause
  <1>1. Cross => EffectHasCause BY DEF Cross, Crosses, EffectHasCause
  <1> QED BY <1>1, Inductive, PTL

\* A published message is never lost between the relay and the worker: its task is stamped or
\* gone, its job will run, or the job used up its tries.
THEOREM NothingIsLost == Spec => []NothingLost
  <1>1. Parts /\ Cross => NothingLost
    <2> SUFFICES ASSUME Parts, Cross, NEW m \in Msg, rows[m].published
                 PROVE  \/ stamps[m] > 0 \/ life[m] = "deleted" \/ m \in exhausted
                        \/ job[m].status \in {"queued", "active"}
        BY DEF NothingLost
    <2>1. m \in accepted BY DEF Parts, OP!Acceptance, OP!PublishedWasAccepted
    <2> QED BY <2>1 DEF Cross, Crosses, Settled
  <1> QED BY <1>1, Inductive, PTL

\* A job recorded complete has stamped its task, or the task was deleted first.
THEOREM CompleteIsDone == Spec => []CompleteMeansDone
  <1>1. Cross => CompleteMeansDone BY DEF Cross, Crosses, Settled, CompleteMeansDone
  <1> QED BY <1>1, Inductive, PTL
=============================================================================
