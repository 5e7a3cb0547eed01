-------------------------- MODULE LongLeaseProofs ---------------------------
(***************************************************************************)
(* What a lease longer than any execution buys.  Nothing in the code       *)
(* enforces it (outbox_lease_seconds and the job timeout are set apart);   *)
(* the theorems say what a deployment that respects it gets.               *)
(***************************************************************************)
EXTENDS OutboxProofs

USE MsgAssumption, OwnerAssumption, LeaseAssumption, BatchAssumption

\* The lease of a running execution is as much older than the execution as it was at the
\* claim, so that with a long lease it runs as long as the execution does.
Aging ==
  \A r \in Relay :
    IF At(r, "idle") THEN relay[r].batch = {}
    ELSE relay[r].lease + MaxRun = relay[r].left + LeaseSeconds

\* A step that changes no clock and ends or goes on with what it had in hand.
LEMMA AgingKept ==
  ASSUME Aging,
         \A s \in Relay : \/ relay'[s] = Resting
                          \/ relay'[s].pc # "idle" /\ relay[s].pc # "idle"
                             /\ relay'[s].lease = relay[s].lease /\ relay'[s].left = relay[s].left
                          \/ relay'[s] = relay[s]
  PROVE  Aging'
BY DEF Aging, At, Resting

LEMMA AgingNext ==
  ASSUME LeaseSeconds > MaxRun, TypeOK, Aging, [Next]_vars
  PROVE  Aging'
<1>r. /\ relay \in [Relay -> Execution]
      /\ \A r \in Relay : relay[r] \in Execution
  BY DEF TypeOK
<1>1. ASSUME NEW m \in Msg, CreateTask(m) PROVE Aging'
  BY <1>1, AgingKept DEF CreateTask
<1>2. ASSUME NEW r \in Relay, ClaimMessages(r) PROVE Aging'
  <2>1. PICK B \in SUBSET Msg : relay' = [relay EXCEPT ![r] =
                 [pc |-> "claiming", batch |-> B, lease |-> LeaseSeconds, left |-> MaxRun]]
    BY <1>2 DEF ClaimMessages
  <2>2. /\ relay'[r].pc = "claiming" /\ relay'[r].lease = LeaseSeconds /\ relay'[r].left = MaxRun
        /\ \A s \in Relay : s # r => relay'[s] = relay[s]
    BY <1>r, <2>1
  <2>3. LeaseSeconds + MaxRun = MaxRun + LeaseSeconds
    OBVIOUS
  <2> QED
    BY <2>2, <2>3 DEF Aging, At
<1>3. ASSUME NEW r \in Relay, NEW B \in SUBSET Msg, ~At(r, "idle"), Loop(r, B) PROVE Aging'
  <2>1. ASSUME NEW s \in Relay
        PROVE  \/ relay'[s] = Resting
               \/ relay'[s].pc # "idle" /\ relay[s].pc # "idle"
                  /\ relay'[s].lease = relay[s].lease /\ relay'[s].left = relay[s].left
               \/ relay'[s] = relay[s]
    <3>1. CASE s # r
      BY <1>3, <3>1, MovesEffect
    <3>2. CASE s = r
      BY <1>3, <3>2, MovesEffect DEF At
    <3> QED
      BY <3>1, <3>2
  <2> QED
    BY <2>1, AgingKept
<1>4. ASSUME NEW r \in Relay, NEW pc \in {"publishing", "acking", "failing"},
             ~At(r, "idle"), Goto(r, pc)
      PROVE  Aging'
  <2>1. ASSUME NEW s \in Relay
        PROVE  \/ relay'[s].pc # "idle" /\ relay[s].pc # "idle"
                  /\ relay'[s].lease = relay[s].lease /\ relay'[s].left = relay[s].left
               \/ relay'[s] = relay[s]
    <3>1. CASE s # r
      BY <1>4, <1>r, <3>1 DEF Goto
    <3>2. CASE s = r
      BY <1>4, <3>2, MovesEffect DEF At
    <3> QED
      BY <3>1, <3>2
  <2> QED
    BY <2>1, AgingKept
<1>5. ASSUME NEW r \in Relay, Interrupt(r) PROVE Aging'
  <2>1. \A s \in Relay : relay'[s] = Resting \/ relay'[s] = relay[s]
    BY <1>5, MovesEffect DEF Interrupt
  <2> QED
    BY <2>1, AgingKept
<1>6. ASSUME NEW r \in Relay, CommitClaim(r) PROVE Aging'
  <2>1. ~At(r, "idle") /\ Loop(r, relay[r].batch) /\ relay[r].batch \in SUBSET Msg
    BY <1>6, <1>r DEF CommitClaim, At, Execution
  <2> QED
    BY <1>3, <2>1
<1>7. ASSUME NEW r \in Relay, NEW m \in Msg, AcknowledgeMessage(r, m) \/ FailMessage(r, m)
      PROVE  Aging'
  <2>1. ~At(r, "idle") /\ Loop(r, relay[r].batch \ {m}) /\ relay[r].batch \ {m} \in SUBSET Msg
    BY <1>7, <1>r DEF AcknowledgeMessage, FailMessage, At, Execution
  <2> QED
    BY <1>3, <2>1
<1>8. ASSUME NEW r \in Relay, NEW m \in Msg,
             PublishMessage(r, m) \/ PublishRaises(r, m) \/ AcknowledgeRaises(r, m)
      PROVE  Aging'
  <2>1. ~At(r, "idle") /\ (Goto(r, "acking") \/ Goto(r, "failing"))
    BY <1>8 DEF PublishMessage, PublishRaises, AcknowledgeRaises, At
  <2> QED
    BY <1>4, <2>1
<1>9. CASE Tick
  <2>1. ASSUME NEW s \in Relay
        PROVE  /\ relay'[s].pc = relay[s].pc /\ relay'[s].batch = relay[s].batch
               /\ relay'[s].lease = Sooner(relay[s].lease)
               /\ relay'[s].left = Sooner(relay[s].left)
    BY <1>9, <1>r DEF Tick, Execution
  <2>2. ASSUME NEW s \in Relay, relay[s].pc # "idle"
        PROVE  relay'[s].lease + MaxRun = relay'[s].left + LeaseSeconds
    <3>0. relay[s].left \in Nat /\ relay[s].lease \in Nat
      BY <1>r DEF Execution
    <3>1. relay[s].left > 0 /\ relay[s].lease + MaxRun = relay[s].left + LeaseSeconds
      BY <1>9, <2>2 DEF Tick, Aging, At
    <3>2. relay[s].lease > 0
      BY <3>0, <3>1
    <3>3. relay'[s].lease = relay[s].lease - 1 /\ relay'[s].left = relay[s].left - 1
      BY <2>1, <3>0, <3>1, <3>2 DEF Sooner
    <3> QED
      BY <3>0, <3>1, <3>3
  <2> QED
    BY <2>1, <2>2 DEF Aging, At
<1>10. CASE UNCHANGED vars
  BY <1>10 DEF vars, Aging, At
<1> QED
  BY <1>1, <1>2, <1>5, <1>6, <1>7, <1>8, <1>9, <1>10 DEF Next

\* A message in hand is under a lease that runs, and if it is unpublished its row says so.
LEMMA InHand ==
  ASSUME LeaseSeconds > MaxRun, TypeOK, Claims, Aging,
         NEW r \in Relay, NEW m \in Msg, m \in relay[r].batch, ~At(r, "claiming")
  PROVE  /\ Holds(r, m)
         /\ ~rows[m].published => rows[m].lease \in Nat /\ rows[m].lease > 0
<1>1. relay[r].lease \in Nat /\ relay[r].left \in Nat
  BY DEF TypeOK, Execution
<1>2. relay[r].lease > 0
  BY <1>1 DEF Aging
<1>3. Holds(r, m)
  BY <1>2 DEF Holds, Live
<1> QED
  BY <1>1, <1>2, <1>3 DEF Claims, LiveClaimIsOnRow
-----------------------------------------------------------------------------
LEMMA OverlapNext ==
  ASSUME LeaseSeconds > MaxRun, TypeOK, Claims, Aging, NoOverlap, [Next]_vars
  PROVE  NoOverlap'
<1>r. /\ relay \in [Relay -> Execution]
      /\ \A r \in Relay : relay[r] \in Execution
  BY DEF TypeOK
<1>1. ASSUME \A s \in Relay : relay'[s].batch \subseteq relay[s].batch PROVE NoOverlap'
  BY <1>1 DEF NoOverlap
<1>2. ASSUME NEW r \in Relay, ClaimMessages(r) PROVE NoOverlap'
  <2>1. PICK B \in SUBSET {m \in Msg : Claimable(m)} : relay' = [relay EXCEPT ![r] =
                 [pc |-> "claiming", batch |-> B, lease |-> LeaseSeconds, left |-> MaxRun]]
    BY <1>2 DEF ClaimMessages
  <2>2. /\ relay'[r].batch = B
        /\ \A s \in Relay : s # r => relay'[s] = relay[s]
    BY <1>r, <2>1
  <2>3. ASSUME NEW s \in Relay, NEW m \in B, m \in relay[s].batch PROVE FALSE
    <3>1. m \in Msg /\ ~rows[m].published /\ Unleased(m) /\ ~Locked(m)
      BY DEF Claimable
    <3>2. ~At(s, "claiming")
      BY <2>3, <3>1 DEF Locked, At
    <3>3. rows[m].lease \in Nat /\ rows[m].lease > 0
      BY <2>3, <3>1, <3>2, InHand
    <3> QED
      BY <3>1, <3>3 DEF Unleased
  <2> QED
    BY <2>2, <2>3 DEF NoOverlap
<1>3. ASSUME NEW r \in Relay, CommitClaim(r) PROVE NoOverlap'
  <2>1. \A s \in Relay : relay'[s].batch = relay[s].batch
    BY <1>3, <1>r, MovesEffect DEF CommitClaim, Execution
  <2> QED
    BY <1>1, <2>1
<1>4. ASSUME NEW r \in Relay, Interrupt(r) PROVE NoOverlap'
  <2>1. \A s \in Relay : relay'[s].batch = relay[s].batch \/ relay'[s].batch = {}
    BY <1>4, MovesEffect DEF Interrupt, Resting
  <2> QED
    BY <1>1, <2>1
<1>5. ASSUME NEW r \in Relay, NEW m \in Msg,
             PublishMessage(r, m) \/ PublishRaises(r, m) \/ AcknowledgeRaises(r, m)
      PROVE  NoOverlap'
  <2>1. \A s \in Relay : relay'[s].batch = relay[s].batch
    BY <1>5, MovesEffect DEF PublishMessage, PublishRaises, AcknowledgeRaises
  <2> QED
    BY <1>1, <2>1
<1>6. ASSUME NEW r \in Relay, NEW m \in Msg, AcknowledgeMessage(r, m) \/ FailMessage(r, m)
      PROVE  NoOverlap'
  <2>1. relay[r].batch \ {m} \in SUBSET Msg
    BY <1>r DEF Execution
  <2>2. /\ relay'[r].batch = relay[r].batch \ {m}
        /\ \A s \in Relay : s # r => relay'[s] = relay[s]
    BY <1>6, <2>1, MovesEffect DEF AcknowledgeMessage, FailMessage
  <2> QED
    BY <1>1, <2>2
<1>7. CASE Tick
  <2>1. \A s \in Relay : relay'[s].batch = relay[s].batch
    BY <1>7, <1>r DEF Tick, Execution
  <2> QED
    BY <1>1, <2>1
<1>8. ASSUME NEW m \in Msg, CreateTask(m) PROVE NoOverlap'
  BY <1>1, <1>8 DEF CreateTask
<1>9. CASE UNCHANGED vars
  BY <1>1, <1>9 DEF vars
<1> QED
  BY <1>2, <1>3, <1>4, <1>5, <1>6, <1>7, <1>8, <1>9 DEF Next

\* The long lease's invariant.
LEMMA AgesTogether ==
  ASSUME LeaseSeconds > MaxRun
  PROVE  Spec => [](TypeOK /\ Claims /\ Aging /\ NoOverlap)
<1>1. Init => Aging /\ NoOverlap
  BY DEF Init, Aging, NoOverlap, Resting, At
<1>2. TypeOK /\ Claims /\ Aging /\ NoOverlap /\ [Next]_vars => (Aging /\ NoOverlap)'
  BY AgingNext, OverlapNext
<1> QED
  BY <1>1, <1>2, LockingAndClaims, PTL DEF Spec

\* With a lease that outlasts the longest execution no two executions ever have the same
\* message in hand.
THEOREM LongLeaseNoOverlap ==
  ASSUME LeaseSeconds > MaxRun
  PROVE  Spec => []NoOverlap
BY AgesTogether, PTL
-----------------------------------------------------------------------------
\* A claim and an acknowledgement clear last_error.
LEMMA ErrorCleared ==
  ASSUME NEW row \in Row, NEW o, NEW l
  PROVE  ~Leased(row, o, l).error /\ ~AsPublished(row).error
BY DEF Row, Leased, AsPublished

\* Only mark_failed sets last_error.
LEMMA ErrorWrites ==
  ASSUME TypeOK, NEW m \in Msg, [Next]_vars, ~rows[m].error, rows'[m].error
  PROVE  \E r \in Relay : /\ Current(r, m) /\ ~At(r, "claiming")
                          /\ ~rows[m].published /\ rows'[m] = AsFailed(rows[m])
<1>r. /\ rows \in [Msg -> Row] /\ rows[m] \in Row
      /\ \A r \in Relay : OwnerOf[r] \in Owner
  BY DEF TypeOK
<1>0. rows'[m] # rows[m]
  OBVIOUS
<1>1. ASSUME NEW n \in Msg, CreateTask(n) PROVE FALSE
  BY <1>1, <1>r DEF CreateTask, Row
<1>2. ASSUME NEW r \in Relay, rows' = Claimed(r) PROVE FALSE
  <2>1. rows'[m] = rows[m] \/ rows'[m] = Leased(rows[m], OwnerOf[r], relay[r].lease)
    BY <1>2, WritesEffect
  <2> QED
    BY <1>0, <1>r, <2>1, ErrorCleared
<1>3. ASSUME NEW r \in Relay, NEW n \in Msg, rows' = MarkPublished(n, OwnerOf[r]) PROVE FALSE
  <2>1. rows'[m] = rows[m] \/ rows'[m] = AsPublished(rows[m])
    BY <1>3, <1>r, WritesEffect
  <2> QED
    BY <1>0, <1>r, <2>1, ErrorCleared
<1>4. ASSUME NEW r \in Relay, NEW n \in Msg, At(r, "failing"), Current(r, n),
             rows' = MarkFailed(n, OwnerOf[r])
      PROVE  \E s \in Relay : /\ Current(s, m) /\ ~At(s, "claiming")
                              /\ ~rows[m].published /\ rows'[m] = AsFailed(rows[m])
  <2>1. rows'[m] = IF m = n /\ HeldBy(n, OwnerOf[r]) THEN AsFailed(rows[m]) ELSE rows[m]
    BY <1>4, <1>r, WritesEffect
  <2>2. m = n /\ ~rows[m].published /\ rows'[m] = AsFailed(rows[m])
    BY <1>0, <2>1 DEF HeldBy
  <2> QED
    BY <1>4, <2>2 DEF At
<1>5. CASE Tick
  BY <1>5, <1>r DEF Tick, Row
<1>6. ASSUME NEW r \in Relay, Interrupt(r)
      PROVE  \/ rows' = rows \/ rows' = Claimed(r)
             \/ \E n \in Msg : rows' = MarkPublished(n, OwnerOf[r])
             \/ \E n \in Msg : /\ At(r, "failing") /\ Current(r, n)
                               /\ rows' = MarkFailed(n, OwnerOf[r])
  BY <1>6 DEF Interrupt
<1>7. ASSUME NEW r \in Relay, NEW n \in Msg,
             \/ PublishMessage(r, n)     \/ PublishRaises(r, n)
             \/ AcknowledgeMessage(r, n) \/ AcknowledgeRaises(r, n) \/ FailMessage(r, n)
      PROVE  \/ rows' = rows
             \/ rows' = MarkPublished(n, OwnerOf[r])
             \/ At(r, "failing") /\ Current(r, n) /\ rows' = MarkFailed(n, OwnerOf[r])
  BY <1>7 DEF PublishMessage, PublishRaises, AcknowledgeMessage, AcknowledgeRaises, FailMessage
<1>8. ASSUME NEW r \in Relay, ClaimMessages(r) \/ CommitClaim(r)
      PROVE  rows' = rows \/ rows' = Claimed(r)
  BY <1>8 DEF ClaimMessages, CommitClaim
<1>9. ~UNCHANGED vars
  BY <1>0 DEF vars
<1> QED
  BY <1>0, <1>1, <1>2, <1>3, <1>4, <1>5, <1>6, <1>7, <1>8, <1>9 DEF Next

\* With a lease that outlasts the longest execution, "a hot failure cannot be reclaimed
\* immediately": the failure is recorded while the lease still runs.
THEOREM LongLeaseCoolsFailures ==
  ASSUME LeaseSeconds > MaxRun
  PROVE  Spec => FailureIsNotHot
<1>1. ASSUME TypeOK, Claims, Aging, [Next]_vars,
             NEW m \in Msg, ~rows[m].error, rows'[m].error
      PROVE  ~Unleased(m)'
  <2>1. PICK r \in Relay : /\ Current(r, m) /\ ~At(r, "claiming")
                           /\ ~rows[m].published /\ rows'[m] = AsFailed(rows[m])
    BY <1>1, ErrorWrites
  <2>2. rows[m].lease \in Nat /\ rows[m].lease > 0
    BY <1>1, <2>1, InHand DEF Current
  <2>3. rows'[m].lease = rows[m].lease
    BY <1>1, <2>1, FieldsOfWrites DEF TypeOK
  <2> QED
    BY <2>2, <2>3 DEF Unleased
<1>2. TypeOK /\ Claims /\ Aging /\ NoOverlap /\ [Next]_vars =>
        \A m \in Msg : ~rows[m].error /\ rows'[m].error => ~Unleased(m)'
  BY <1>1
<1>3. Spec => [][\A m \in Msg : ~rows[m].error /\ rows'[m].error => ~Unleased(m)']_vars
  BY <1>2, AgesTogether, PTL DEF Spec
<1> QED
  BY <1>3 DEF FailureIsNotHot
=============================================================================
