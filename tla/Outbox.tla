------------------------------- MODULE Outbox -------------------------------
(***************************************************************************)
(* The transactional outbox and the relay executions that drain it.        *)
(*                                                                         *)
(* A row of app.outbox_messages is written with its task in one            *)
(* transaction.  Each relay execution (one run of relay_once) claims a     *)
(* batch of unpublished rows under an expiring lease, hands them to SAQ    *)
(* one by one and acknowledges each in a transaction of its own.           *)
(*                                                                         *)
(* Time is a countdown: rows[m].lease is lease_expires_at minus the        *)
(* current time, 0 when the lease has run out and NoLease for NULL.        *)
(* Messages are numbers ordered as (created_at, id) orders the rows; they  *)
(* may be committed in any order.  attempt_count only feeds telemetry and  *)
(* is left out.                                                            *)
(***************************************************************************)
EXTENDS Naturals, FiniteSets

CONSTANTS
  Msg,          \* outbox messages, numbered in (created_at, id) order
  Relay,        \* executions of relay_once that may overlap
  Owner,        \* worker ids, used as lease owners
  OwnerOf,      \* the worker each relay execution runs in
  LeaseSeconds, \* outbox_lease_seconds, in ticks
  BatchSize,    \* outbox_batch_size
  MaxRun,       \* longest life of an execution: its job timeout and shielded cleanup
  NoOwner,      \* lease_owner IS NULL
  NoLease       \* lease_expires_at IS NULL

ASSUME MsgAssumption   == Msg \subseteq Nat
ASSUME OwnerAssumption == OwnerOf \in [Relay -> Owner] /\ NoOwner \notin Owner
ASSUME LeaseAssumption == LeaseSeconds \in Nat \ {0} /\ NoLease \notin Nat
ASSUME BatchAssumption == BatchSize \in Nat \ {0} /\ MaxRun \in Nat \ {0}

VARIABLES
  rows,     \* app.outbox_messages
  relay,    \* where each relay execution stands
  accepted  \* messages SAQ has accepted under their key, ever

vars == <<rows, relay, accepted>>

Row == [ stored    : BOOLEAN,                      \* the row is committed
         published : BOOLEAN,                      \* published_at IS NOT NULL
         owner     : Owner \cup {NoOwner},
         lease     : (0 .. LeaseSeconds) \cup {NoLease},
         error     : BOOLEAN ]                     \* last_error IS NOT NULL

\* `batch` is what the execution has still to handle, its current message the first
\* of them; `lease` counts down the lease it claimed them under, `left` the time
\* until it is cut off.
Execution == [ pc    : {"idle", "claiming", "publishing", "acking", "failing"},
               batch : SUBSET Msg,
               lease : 0 .. LeaseSeconds,
               left  : 0 .. MaxRun ]

TypeOK == /\ rows \in [Msg -> Row]
          /\ relay \in [Relay -> Execution]
          /\ accepted \subseteq Msg

NoRow   == [ stored |-> FALSE, published |-> FALSE, owner |-> NoOwner,
             lease |-> NoLease, error |-> FALSE ]
Resting == [ pc |-> "idle", batch |-> {}, lease |-> 0, left |-> 0 ]

Init == /\ rows = [m \in Msg |-> NoRow]
        /\ relay = [r \in Relay |-> Resting]
        /\ accepted = {}
-----------------------------------------------------------------------------
(***************************************************************************)
(* The SQL of the outbox repository.                                       *)
(***************************************************************************)

\* A claim's SELECT ... FOR UPDATE holds its rows until it commits or rolls back.
Locked(m) == \E r \in Relay : relay[r].pc = "claiming" /\ m \in relay[r].batch

Unleased(m) == rows[m].lease \in {NoLease, 0}

\* Mutations of Claimable: no row lock; any lease taken over; no lease ever taken over;
\* published rows claimed too.
ClaimableLocked(m)    == rows[m].stored /\ ~rows[m].published /\ Unleased(m)
ClaimableLeased(m)    == rows[m].stored /\ ~rows[m].published /\ ~Locked(m)
ClaimableOnce(m)      ==
  rows[m].stored /\ ~rows[m].published /\ rows[m].lease = NoLease /\ ~Locked(m)
ClaimablePublished(m) == rows[m].stored /\ Unleased(m) /\ ~Locked(m)

\* WHERE of claim_batch, with SKIP LOCKED.
Claimable(m) == /\ rows[m].stored
                /\ ~rows[m].published
                /\ Unleased(m)
                /\ ~Locked(m)

\* ORDER BY created_at, id LIMIT n: the oldest n of the claimable rows.
IsOldest(B, S, n) == /\ B \subseteq S
                     /\ Cardinality(B) = (IF Cardinality(S) < n THEN Cardinality(S) ELSE n)
                     /\ \A b \in B, s \in S \ B : b < s

\* Mutation: the two lease columns swapped.
LeasedSwapped(row, o, expiry) == [row EXCEPT !.owner = expiry, !.lease = o, !.error = FALSE]

\* The UPDATE a claim flushes for each row it locked.
Leased(row, o, expiry) == [row EXCEPT !.owner = o, !.lease = expiry, !.error = FALSE]

\* Mutation: the owner is not tested.
HeldByAnyone(m, o) == ~rows[m].published

\* WHERE of mark_published and mark_failed.
HeldBy(m, o) == rows[m].owner = o /\ ~rows[m].published

AsPublished(row) ==
  [row EXCEPT !.published = TRUE, !.owner = NoOwner, !.lease = NoLease, !.error = FALSE]

\* Mutation: a failure gives the lease back.
AsFailedReleased(row) == [row EXCEPT !.error = TRUE, !.owner = NoOwner, !.lease = NoLease]

AsFailed(row) == [row EXCEPT !.error = TRUE]

Claimed(r) == [m \in Msg |-> IF m \in relay[r].batch
                             THEN Leased(rows[m], OwnerOf[r], relay[r].lease)
                             ELSE rows[m]]

MarkPublished(m, o) == IF HeldBy(m, o) THEN [rows EXCEPT ![m] = AsPublished(@)] ELSE rows

MarkFailed(m, o) == IF HeldBy(m, o) THEN [rows EXCEPT ![m] = AsFailed(@)] ELSE rows
-----------------------------------------------------------------------------
(***************************************************************************)
(* The transaction of create_task: the task and its message commit         *)
(* together, the message unpublished and unleased.                         *)
(***************************************************************************)
CreateTask(m) == /\ ~rows[m].stored
                 /\ rows' = [rows EXCEPT ![m].stored = TRUE]
                 /\ UNCHANGED <<relay, accepted>>

(***************************************************************************)
(* relay_once.  Every call that crosses to the database or to SAQ is a     *)
(* step; other executions run between two of them.                         *)
(***************************************************************************)

\* The message the execution's loop is at.
Current(r, m) == m \in relay[r].batch /\ \A n \in relay[r].batch : m <= n

At(r, pc) == relay[r].pc = pc

Goto(r, pc) == relay' = [relay EXCEPT ![r].pc = pc]

\* The loop goes on with B, or ends.
Loop(r, B) == relay' = [relay EXCEPT ![r] =
                          IF B = {} THEN Resting
                          ELSE [@ EXCEPT !.pc = "publishing", !.batch = B]]

\* The clock is read, the oldest claimable rows are locked and their new lease decided.
ClaimMessages(r) ==
  /\ At(r, "idle")
  /\ \E B \in SUBSET {m \in Msg : Claimable(m)} :
       /\ IsOldest(B, {m \in Msg : Claimable(m)}, BatchSize)
       /\ relay' = [relay EXCEPT ![r] =
                      [ pc |-> "claiming", batch |-> B,
                        lease |-> LeaseSeconds, left |-> MaxRun ]]
  /\ UNCHANGED <<rows, accepted>>

CommitClaim(r) == /\ At(r, "claiming")
                  /\ rows' = Claimed(r)
                  /\ Loop(r, relay[r].batch)
                  /\ UNCHANGED accepted

\* queue.enqueue returns: a new job, or None because the key already exists.
PublishMessage(r, m) == /\ At(r, "publishing") /\ Current(r, m)
                        /\ accepted' = accepted \cup {m}
                        /\ Goto(r, "acking")
                        /\ UNCHANGED rows

\* Mutation: the exception is swallowed and the message acknowledged.
PublishRaisesAcks(r, m) == /\ At(r, "publishing") /\ Current(r, m)
                           /\ accepted' \in {accepted, accepted \cup {m}}
                           /\ Goto(r, "acking")
                           /\ UNCHANGED rows

\* queue.enqueue raises, before or after SAQ stored the job.
PublishRaises(r, m) == /\ At(r, "publishing") /\ Current(r, m)
                       /\ accepted' \in {accepted, accepted \cup {m}}
                       /\ Goto(r, "failing")
                       /\ UNCHANGED rows

\* One UPDATE and its commit; it waits for a claim that holds the row's lock.
AcknowledgeMessage(r, m) == /\ At(r, "acking") /\ Current(r, m) /\ ~Locked(m)
                            /\ rows' = MarkPublished(m, OwnerOf[r])
                            /\ Loop(r, relay[r].batch \ {m})
                            /\ UNCHANGED accepted

\* The acknowledging transaction raises; a commit that timed out may have landed.
AcknowledgeRaises(r, m) == /\ At(r, "acking") /\ Current(r, m)
                           /\ \/ rows' = rows
                              \/ ~Locked(m) /\ rows' = MarkPublished(m, OwnerOf[r])
                           /\ Goto(r, "failing")
                           /\ UNCHANGED accepted

\* The except branch: the error is recorded and the lease left as it is.
FailMessage(r, m) == /\ At(r, "failing") /\ Current(r, m) /\ ~Locked(m)
                     /\ rows' = MarkFailed(m, OwnerOf[r])
                     /\ Loop(r, relay[r].batch \ {m})
                     /\ UNCHANGED accepted

(***************************************************************************)
(* The execution ends where it stands: cancelled by its 30 s timeout or by *)
(* a shutdown, killed with its worker, or by an exception of the claim or  *)
(* of fail_message.  The call in flight may or may not have taken effect;  *)
(* locks are released, leases stay.                                        *)
(***************************************************************************)
Interrupt(r) ==
  /\ ~At(r, "idle")
  /\ relay' = [relay EXCEPT ![r] = Resting]
  /\ \/ UNCHANGED <<rows, accepted>>
     \/ /\ At(r, "claiming")
        /\ rows' = Claimed(r)
        /\ UNCHANGED accepted
     \/ /\ At(r, "publishing")
        /\ \E m \in Msg : Current(r, m) /\ accepted' = accepted \cup {m}
        /\ UNCHANGED rows
     \/ /\ At(r, "acking")
        /\ \E m \in Msg : Current(r, m) /\ ~Locked(m) /\ rows' = MarkPublished(m, OwnerOf[r])
        /\ UNCHANGED accepted
     \/ /\ At(r, "failing")
        /\ \E m \in Msg : Current(r, m) /\ ~Locked(m) /\ rows' = MarkFailed(m, OwnerOf[r])
        /\ UNCHANGED accepted

\* One unit of time passes for every running lease and execution; none outlives MaxRun.
Sooner(left) == IF left \in {NoLease, 0} THEN left ELSE left - 1

Tick == /\ \A r \in Relay : ~At(r, "idle") => relay[r].left > 0
        /\ rows' = [m \in Msg |-> [rows[m] EXCEPT !.lease = Sooner(@)]]
        /\ relay' = [r \in Relay |-> [relay[r] EXCEPT !.lease = Sooner(@), !.left = Sooner(@)]]
        /\ UNCHANGED accepted

Next == \/ \E m \in Msg : CreateTask(m)
        \/ \E r \in Relay : ClaimMessages(r) \/ CommitClaim(r) \/ Interrupt(r)
        \/ \E r \in Relay, m \in Msg :
             \/ PublishMessage(r, m)     \/ PublishRaises(r, m)
             \/ AcknowledgeMessage(r, m) \/ AcknowledgeRaises(r, m)
             \/ FailMessage(r, m)
        \/ Tick

Spec == Init /\ [][Next]_vars

(***************************************************************************)
(* Fairness.  The cron job starts a relay execution every two seconds, so  *)
(* an idle execution does claim; time does pass; and SAQ cuts an execution *)
(* off at its timeout.  A database or a queue may fail and an execution    *)
(* may be cut short any number of times, but not for ever: a claim, a      *)
(* publication or an acknowledgement tried again and again under a lease   *)
(* the execution still holds succeeds once.                                *)
(***************************************************************************)
Live(r, m) == m \in relay[r].batch /\ relay[r].lease > 0

Fairness ==
  /\ WF_vars(Tick)
  /\ \A r \in Relay : /\ WF_vars(ClaimMessages(r))
                       /\ WF_vars(CommitClaim(r))
                       /\ WF_vars(relay[r].left = 0 /\ Interrupt(r))
  /\ \A m \in Msg :
       /\ SF_vars(\E r \in Relay : Live(r, m) /\ CommitClaim(r))
       /\ SF_vars(\E r \in Relay : Live(r, m) /\ PublishMessage(r, m))
       /\ SF_vars(\E r \in Relay : Live(r, m) /\ AcknowledgeMessage(r, m))

FairSpec == Spec /\ Fairness
-----------------------------------------------------------------------------
(***************************************************************************)
(* Properties.                                                             *)
(***************************************************************************)

\* Execution r has committed a claim on m whose lease has not run out.
Holds(r, m) == Live(r, m) /\ ~At(r, "claiming")

\* A row is marked published only after SAQ accepted its message, however many
\* executions raced for it and whichever of them crashed between enqueue and
\* acknowledgement (relay_once publishes before it acknowledges).
PublishedWasAccepted == \A m \in Msg : rows[m].published => m \in accepted

\* Two executions never work on the same unpublished message under leases that both
\* run: SKIP LOCKED and the expiry test of claim_batch exclude it, in one worker too.
OneLiveClaim ==
  \A r, s \in Relay, m \in Msg :
    Holds(r, m) /\ Holds(s, m) /\ ~rows[m].published => r = s

\* While an execution's lease on a message runs and no other execution has its worker
\* id, nobody else acknowledges the message: mark_published tests the owner, so the
\* late acknowledgement of an earlier holder does nothing.
OnlyHolderAcknowledges ==
  \A r \in Relay, m \in Msg :
    /\ Holds(r, m)
    /\ \A s \in Relay \ {r} : OwnerOf[s] # OwnerOf[r]
    /\ rows[m].published
    => At(r, "failing") /\ Current(r, m)

\* A published row is never claimed, leased or marked failed again, not even by
\* fail_message after an acknowledgement that raised although its commit landed.
PublishedIsFinal ==
  [][\A m \in Msg : rows[m].published => rows'[m] = rows[m]]_vars

\* When the lease outlasts the longest execution, no two executions ever have the same
\* message in hand: none works on under a lease that has run out.
NoOverlap ==
  \A r, s \in Relay : r # s => relay[r].batch \cap relay[s].batch = {}

\* "Retain the lease so a hot failure cannot be reclaimed immediately" (failed() of
\* domain/outbox.py): a row whose failure was just recorded cannot be claimed.
FailureIsNotHot ==
  [][\A m \in Msg : ~rows[m].error /\ rows'[m].error => ~Unleased(m)']_vars

\* A committed message is eventually marked published: a stopped worker, a lost
\* acknowledgement or a failing queue delays delivery and never loses the message.
EveryMessagePublished == \A m \in Msg : rows[m].stored ~> rows[m].published

\* The outbox implements at-least-once delivery.
Abstract == INSTANCE Delivery WITH
              stored    <- {m \in Msg : rows[m].stored},
              published <- {m \in Msg : rows[m].published}

DeliversAtLeastOnce == Abstract!Spec
=============================================================================
