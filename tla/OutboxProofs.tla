---------------------------- MODULE OutboxProofs ----------------------------
(***************************************************************************)
(* Proofs about the outbox, for any number of messages, executions and     *)
(* workers, any lease, batch size and execution lifetime.                  *)
(*                                                                         *)
(* The properties of Outbox are not inductive: each of them rests on what  *)
(* the row locks and the leases guarantee between a claim's SELECT and the *)
(* acknowledgement.  Acceptance, Locking, Claims and WorkIsUnpublished     *)
(* below state that, and are inductive one upon the other.                 *)
(***************************************************************************)
EXTENDS Outbox, TLAPS

\* A published row carries no lease.
PublishedIsClean ==
  \A m \in Msg : rows[m].published =>
    rows[m].stored /\ rows[m].owner = NoOwner /\ rows[m].lease = NoLease

\* What an execution has in hand is a committed message.
BatchIsStored == \A r \in Relay : \A m \in relay[r].batch : rows[m].stored

\* A row locked by a claim stays claimable but for the lock.
LockedIsUnleased ==
  \A r \in Relay : \A m \in relay[r].batch :
    At(r, "claiming") => ~rows[m].published /\ Unleased(m)

\* No row is locked twice.
LocksAreExclusive ==
  \A r, s \in Relay, m \in Msg :
    /\ At(r, "claiming") /\ m \in relay[r].batch
    /\ At(s, "claiming") /\ m \in relay[s].batch
    => r = s

\* An execution acknowledges only what SAQ accepted.
AcksAreAccepted ==
  \A r \in Relay, m \in Msg : At(r, "acking") /\ Current(r, m) => m \in accepted

\* A claim that is still live is what the row says.
LiveClaimIsOnRow ==
  \A r \in Relay, m \in Msg :
    Holds(r, m) /\ ~rows[m].published =>
      rows[m].owner = OwnerOf[r] /\ rows[m].lease = relay[r].lease
-----------------------------------------------------------------------------
USE MsgAssumption, OwnerAssumption, LeaseAssumption, BatchAssumption

LEMMA SoonerType ==
  /\ \A l \in (0 .. LeaseSeconds) \cup {NoLease} : Sooner(l) \in (0 .. LeaseSeconds) \cup {NoLease}
  /\ \A l \in 0 .. LeaseSeconds : Sooner(l) \in 0 .. LeaseSeconds
  /\ \A l \in 0 .. MaxRun : Sooner(l) \in 0 .. MaxRun
BY DEF Sooner

LEMMA TypeInit == Init => TypeOK
BY DEF Init, TypeOK, Row, Execution, NoRow, Resting

\* What a claim, an acknowledgement and a recorded failure write are rows again.
LEMMA RowType ==
  ASSUME NEW row \in Row
  PROVE  /\ \A o \in Owner, l \in 0 .. LeaseSeconds : Leased(row, o, l) \in Row
         /\ AsPublished(row) \in Row
         /\ AsFailed(row) \in Row
BY DEF Row, Leased, AsPublished, AsFailed

LEMMA WritesType ==
  ASSUME TypeOK, NEW r \in Relay
  PROVE  /\ Claimed(r) \in [Msg -> Row]
         /\ \A m \in Msg : /\ MarkPublished(m, OwnerOf[r]) \in [Msg -> Row]
                           /\ MarkFailed(m, OwnerOf[r]) \in [Msg -> Row]
<1>1. OwnerOf[r] \in Owner /\ relay[r].lease \in 0 .. LeaseSeconds /\ rows \in [Msg -> Row]
  BY DEF TypeOK, Execution
<1>2. Claimed(r) \in [Msg -> Row]
  BY <1>1, RowType DEF Claimed
<1>3. ASSUME NEW m \in Msg PROVE MarkPublished(m, OwnerOf[r]) \in [Msg -> Row]
  BY <1>1, RowType DEF MarkPublished
<1>4. ASSUME NEW m \in Msg PROVE MarkFailed(m, OwnerOf[r]) \in [Msg -> Row]
  BY <1>1, RowType DEF MarkFailed
<1> QED
  BY <1>2, <1>3, <1>4

\* Where an execution goes next is an execution again.
LEMMA MovesType ==
  ASSUME TypeOK, NEW r \in Relay
  PROVE  /\ \A pc \in {"publishing", "acking", "failing"} : Goto(r, pc) => relay' \in [Relay -> Execution]
         /\ \A B \in SUBSET Msg : Loop(r, B) => relay' \in [Relay -> Execution]
         /\ relay' = [relay EXCEPT ![r] = Resting] => relay' \in [Relay -> Execution]
<1>0. relay \in [Relay -> Execution] /\ relay[r] \in Execution
  BY DEF TypeOK
<1>1. Resting \in Execution
  BY DEF Resting, Execution
<1>2. ASSUME NEW pc \in {"publishing", "acking", "failing"}, Goto(r, pc)
      PROVE  relay' \in [Relay -> Execution]
  <2>1. [relay[r] EXCEPT !.pc = pc] \in Execution
    BY <1>0 DEF Execution
  <2> QED
    BY <1>0, <1>2, <2>1 DEF Goto
<1>3. ASSUME NEW B \in SUBSET Msg, Loop(r, B)
      PROVE  relay' \in [Relay -> Execution]
  <2>1. [relay[r] EXCEPT !.pc = "publishing", !.batch = B] \in Execution
    BY <1>0 DEF Execution
  <2> QED
    BY <1>0, <1>1, <1>3, <2>1 DEF Loop
<1> QED
  BY <1>0, <1>1, <1>2, <1>3

LEMMA TypeNext == TypeOK /\ [Next]_vars => TypeOK'
<1> SUFFICES ASSUME TypeOK, [Next]_vars PROVE TypeOK'
  OBVIOUS
<1>1. ASSUME NEW m \in Msg, CreateTask(m) PROVE TypeOK'
  <2>1. [rows[m] EXCEPT !.stored = TRUE] \in Row
    BY DEF TypeOK, Row
  <2> QED
    BY <1>1, <2>1 DEF CreateTask, TypeOK
<1>2. ASSUME NEW r \in Relay, ClaimMessages(r) PROVE TypeOK'
  <2>1. PICK B \in SUBSET Msg : relay' = [relay EXCEPT ![r] =
                 [pc |-> "claiming", batch |-> B, lease |-> LeaseSeconds, left |-> MaxRun]]
    BY <1>2 DEF ClaimMessages
  <2>2. [pc |-> "claiming", batch |-> B, lease |-> LeaseSeconds, left |-> MaxRun] \in Execution
    BY DEF Execution
  <2> QED
    BY <2>1, <2>2, <1>2 DEF ClaimMessages, TypeOK
<1>3. ASSUME NEW r \in Relay, CommitClaim(r) PROVE TypeOK'
  BY <1>3, WritesType, MovesType DEF CommitClaim, TypeOK, Execution
<1>4. ASSUME NEW r \in Relay, Interrupt(r) PROVE TypeOK'
  <2>1. relay' \in [Relay -> Execution]
    BY <1>4, MovesType DEF Interrupt
  <2>2. rows' \in [Msg -> Row]
    BY <1>4, WritesType DEF Interrupt, TypeOK
  <2>3. accepted' \subseteq Msg
    <3>1. accepted' = accepted \/ \E m \in Msg : accepted' = accepted \cup {m}
      BY <1>4 DEF Interrupt
    <3>2. accepted \subseteq Msg
      BY DEF TypeOK
    <3> QED
      BY <3>1, <3>2
  <2> QED
    BY <2>1, <2>2, <2>3 DEF TypeOK
<1>5. ASSUME NEW r \in Relay, NEW m \in Msg, PublishMessage(r, m) PROVE TypeOK'
  BY <1>5, MovesType DEF PublishMessage, TypeOK
<1>6. ASSUME NEW r \in Relay, NEW m \in Msg, PublishRaises(r, m) PROVE TypeOK'
  BY <1>6, MovesType DEF PublishRaises, TypeOK
<1>7. ASSUME NEW r \in Relay, NEW m \in Msg, AcknowledgeMessage(r, m) PROVE TypeOK'
  BY <1>7, WritesType, MovesType DEF AcknowledgeMessage, TypeOK, Execution
<1>8. ASSUME NEW r \in Relay, NEW m \in Msg, AcknowledgeRaises(r, m) PROVE TypeOK'
  BY <1>8, WritesType, MovesType DEF AcknowledgeRaises, TypeOK
<1>9. ASSUME NEW r \in Relay, NEW m \in Msg, FailMessage(r, m) PROVE TypeOK'
  BY <1>9, WritesType, MovesType DEF FailMessage, TypeOK, Execution
<1>10. CASE Tick
  <2>1. ASSUME NEW m \in Msg PROVE [rows[m] EXCEPT !.lease = Sooner(@)] \in Row
    BY SoonerType DEF TypeOK, Row
  <2>2. ASSUME NEW r \in Relay
        PROVE  [relay[r] EXCEPT !.lease = Sooner(@), !.left = Sooner(@)] \in Execution
    BY SoonerType DEF TypeOK, Execution
  <2> QED
    BY <1>10, <2>1, <2>2 DEF Tick, TypeOK
<1>11. CASE UNCHANGED vars
  BY <1>11 DEF vars, TypeOK
<1> QED
  BY <1>1, <1>2, <1>3, <1>4, <1>5, <1>6, <1>7, <1>8, <1>9, <1>10, <1>11 DEF Next

\* Every reachable state is well typed.
THEOREM TypeCorrect == Spec => []TypeOK
BY TypeInit, TypeNext, PTL DEF Spec
-----------------------------------------------------------------------------
\* Row by row, what the three kinds of UPDATE leave behind.
LEMMA WritesEffect ==
  ASSUME TypeOK
  PROVE  /\ \A m, n \in Msg, o \in Owner :
              /\ MarkPublished(m, o)[n] =
                   IF n = m /\ HeldBy(m, o) THEN AsPublished(rows[n]) ELSE rows[n]
              /\ MarkFailed(m, o)[n] =
                   IF n = m /\ HeldBy(m, o) THEN AsFailed(rows[n]) ELSE rows[n]
         /\ \A r \in Relay, n \in Msg :
              Claimed(r)[n] = IF n \in relay[r].batch
                              THEN Leased(rows[n], OwnerOf[r], relay[r].lease) ELSE rows[n]
<1>1. rows \in [Msg -> Row]
  BY DEF TypeOK
<1>2. ASSUME NEW m \in Msg, NEW n \in Msg, NEW o \in Owner
      PROVE  /\ MarkPublished(m, o)[n] =
                  IF n = m /\ HeldBy(m, o) THEN AsPublished(rows[n]) ELSE rows[n]
             /\ MarkFailed(m, o)[n] =
                  IF n = m /\ HeldBy(m, o) THEN AsFailed(rows[n]) ELSE rows[n]
  BY <1>1 DEF MarkPublished, MarkFailed
<1> QED
  BY <1>1, <1>2 DEF Claimed

\* An acknowledgement or a recorded failure touches its own row only.
LEMMA OtherRows ==
  ASSUME TypeOK, NEW m \in Msg, NEW n \in Msg, NEW o \in Owner, n # m,
         rows' = MarkPublished(m, o) \/ rows' = MarkFailed(m, o)
  PROVE  rows'[n] = rows[n]
BY WritesEffect

LEMMA FieldsOfWrites ==
  ASSUME NEW row \in Row, NEW o, NEW l
  PROVE  /\ Leased(row, o, l).stored = row.stored
         /\ Leased(row, o, l).published = row.published
         /\ Leased(row, o, l).owner = o
         /\ Leased(row, o, l).lease = l
         /\ AsPublished(row).stored = row.stored
         /\ AsPublished(row).published
         /\ AsPublished(row).owner = NoOwner
         /\ AsPublished(row).lease = NoLease
         /\ AsFailed(row).stored = row.stored
         /\ AsFailed(row).published = row.published
         /\ AsFailed(row).owner = row.owner
         /\ AsFailed(row).lease = row.lease
BY DEF Row, Leased, AsPublished, AsFailed

\* Execution by execution, where a step of the loop leads.
LEMMA MovesEffect ==
  ASSUME TypeOK, NEW r \in Relay, NEW s \in Relay
  PROVE  /\ \A pc \in {"publishing", "acking", "failing"} :
              Goto(r, pc) =>
                /\ relay'[s].pc = IF s = r THEN pc ELSE relay[s].pc
                /\ relay'[s].batch = relay[s].batch
                /\ relay'[s].lease = relay[s].lease
                /\ relay'[s].left = relay[s].left
         /\ \A B \in SUBSET Msg :
              Loop(r, B) =>
                /\ s # r => relay'[s] = relay[s]
                /\ relay'[r].batch = B
                /\ B = {} => relay'[r] = Resting
                /\ B # {} => /\ relay'[r].pc = "publishing"
                             /\ relay'[r].lease = relay[r].lease
                             /\ relay'[r].left = relay[r].left
         /\ relay' = [relay EXCEPT ![r] = Resting] =>
              relay'[s] = IF s = r THEN Resting ELSE relay[s]
<1>1. relay \in [Relay -> Execution] /\ relay[s] \in Execution /\ relay[r] \in Execution
  BY DEF TypeOK
<1>2. ASSUME NEW pc \in {"publishing", "acking", "failing"}, Goto(r, pc)
      PROVE  /\ relay'[s].pc = IF s = r THEN pc ELSE relay[s].pc
             /\ relay'[s].batch = relay[s].batch
             /\ relay'[s].lease = relay[s].lease
             /\ relay'[s].left = relay[s].left
  BY <1>1, <1>2 DEF Goto, Execution
<1>3. ASSUME NEW B \in SUBSET Msg, Loop(r, B)
      PROVE  /\ s # r => relay'[s] = relay[s]
             /\ relay'[r].batch = B
             /\ B = {} => relay'[r] = Resting
             /\ B # {} => /\ relay'[r].pc = "publishing"
                          /\ relay'[r].lease = relay[r].lease
                          /\ relay'[r].left = relay[r].left
  BY <1>1, <1>3 DEF Loop, Resting, Execution
<1> QED
  BY <1>1, <1>2, <1>3
-----------------------------------------------------------------------------
(***************************************************************************)
(* What SAQ accepted.                                                      *)
(***************************************************************************)
Acceptance == AcksAreAccepted /\ PublishedWasAccepted

LEMMA OneCurrent ==
  ASSUME NEW r \in Relay, NEW m \in Msg, NEW n \in Msg, Current(r, m), Current(r, n)
  PROVE  m = n
BY DEF Current

LEMMA AcceptanceNext ==
  ASSUME TypeOK, Acceptance, [Next]_vars
  PROVE  Acceptance'
<1> USE DEF Acceptance, AcksAreAccepted, PublishedWasAccepted, At
<1>t. TypeOK'
  BY TypeNext
<1>r. /\ \A n \in Msg : rows[n] \in Row
      /\ \A r \in Relay : relay[r] \in Execution
      /\ \A r \in Relay : OwnerOf[r] \in Owner
  BY DEF TypeOK
<1>1. ASSUME NEW m \in Msg, CreateTask(m) PROVE Acceptance'
  BY <1>1, <1>r DEF CreateTask, Current, TypeOK, Row
<1>2. ASSUME NEW r \in Relay, ClaimMessages(r) PROVE Acceptance'
  BY <1>2 DEF ClaimMessages, Current, TypeOK
<1>3. ASSUME NEW r \in Relay, CommitClaim(r) PROVE Acceptance'
  <2>1. ASSUME NEW n \in Msg PROVE rows'[n].published = rows[n].published
    BY <1>3, <1>r, WritesEffect, FieldsOfWrites DEF CommitClaim
  <2>2. ASSUME NEW s \in Relay, relay'[s].pc = "acking" PROVE relay'[s] = relay[s]
    BY <1>3, <1>r, <2>2, MovesEffect DEF CommitClaim, Resting, Execution
  <2> QED
    BY <1>3, <2>1, <2>2 DEF CommitClaim, Current
<1>4. ASSUME NEW r \in Relay, Interrupt(r) PROVE Acceptance'
  <2>1. ASSUME NEW s \in Relay, relay'[s].pc = "acking" PROVE relay'[s] = relay[s]
    BY <1>4, <2>1, MovesEffect DEF Interrupt, Resting
  <2>2. accepted \subseteq accepted'
    BY <1>4 DEF Interrupt
  <2>3. ASSUME NEW n \in Msg, rows'[n].published PROVE rows[n].published \/ n \in accepted
    <3>0. \/ rows' = rows
          \/ rows' = Claimed(r)
          \/ \E m \in Msg : rows' = MarkFailed(m, OwnerOf[r])
          \/ At(r, "acking") /\ \E m \in Msg : Current(r, m) /\ rows' = MarkPublished(m, OwnerOf[r])
      BY <1>4 DEF Interrupt
    <3>1. CASE rows' = rows
      BY <3>1, <2>3
    <3>2. CASE rows' = Claimed(r) \/ \E m \in Msg : rows' = MarkFailed(m, OwnerOf[r])
      BY <3>2, <1>r, <2>3, WritesEffect, FieldsOfWrites
    <3>3. CASE At(r, "acking") /\ \E m \in Msg : Current(r, m) /\ rows' = MarkPublished(m, OwnerOf[r])
      <4>1. PICK m \in Msg : Current(r, m) /\ rows' = MarkPublished(m, OwnerOf[r])
        BY <3>3
      <4>2. m \in accepted
        BY <3>3, <4>1
      <4> QED
        BY <4>1, <4>2, <1>r, <2>3, WritesEffect
    <3> QED
      BY <3>0, <3>1, <3>2, <3>3
  <2> QED
    BY <2>1, <2>2, <2>3 DEF Current
<1>5. ASSUME NEW r \in Relay, NEW m \in Msg, PublishMessage(r, m) PROVE Acceptance'
  <2>1. ASSUME NEW s \in Relay
        PROVE  relay'[s].batch = relay[s].batch /\ (s # r => relay'[s].pc = relay[s].pc)
    BY <1>5, MovesEffect DEF PublishMessage
  <2> QED
    BY <1>5, <2>1, OneCurrent DEF PublishMessage, Current
<1>6. ASSUME NEW r \in Relay, NEW m \in Msg, PublishRaises(r, m) PROVE Acceptance'
  <2>1. ASSUME NEW s \in Relay
        PROVE  /\ relay'[s].batch = relay[s].batch
               /\ relay'[s].pc = IF s = r THEN "failing" ELSE relay[s].pc
    BY <1>6, MovesEffect DEF PublishRaises
  <2> QED
    BY <1>6, <2>1 DEF PublishRaises, Current
<1>7. ASSUME NEW r \in Relay, NEW m \in Msg, AcknowledgeMessage(r, m) PROVE Acceptance'
  <2>1. ASSUME NEW s \in Relay, relay'[s].pc = "acking" PROVE relay'[s] = relay[s]
    BY <1>7, <1>r, <2>1, MovesEffect DEF AcknowledgeMessage, Resting, Execution
  <2>2. ASSUME NEW n \in Msg, rows'[n].published PROVE rows[n].published \/ n = m
    BY <1>7, <1>r, <2>2, WritesEffect DEF AcknowledgeMessage
  <2> QED
    BY <1>7, <2>1, <2>2 DEF AcknowledgeMessage, Current
<1>8. ASSUME NEW r \in Relay, NEW m \in Msg, AcknowledgeRaises(r, m) PROVE Acceptance'
  <2>1. ASSUME NEW s \in Relay
        PROVE  /\ relay'[s].batch = relay[s].batch
               /\ relay'[s].pc = IF s = r THEN "failing" ELSE relay[s].pc
    BY <1>8, MovesEffect DEF AcknowledgeRaises
  <2>2. ASSUME NEW n \in Msg, rows'[n].published PROVE rows[n].published \/ n = m
    BY <1>8, <1>r, <2>2, WritesEffect DEF AcknowledgeRaises
  <2> QED
    BY <1>8, <2>1, <2>2 DEF AcknowledgeRaises, Current
<1>9. ASSUME NEW r \in Relay, NEW m \in Msg, FailMessage(r, m) PROVE Acceptance'
  <2>1. ASSUME NEW s \in Relay, relay'[s].pc = "acking" PROVE relay'[s] = relay[s]
    BY <1>9, <1>r, <2>1, MovesEffect DEF FailMessage, Resting, Execution
  <2>2. ASSUME NEW n \in Msg PROVE rows'[n].published = rows[n].published
    BY <1>9, <1>r, WritesEffect, FieldsOfWrites DEF FailMessage
  <2> QED
    BY <1>9, <2>1, <2>2 DEF FailMessage, Current
<1>10. CASE Tick
  <2>1. ASSUME NEW s \in Relay
        PROVE  relay'[s].batch = relay[s].batch /\ relay'[s].pc = relay[s].pc
    BY <1>10, <1>r DEF Tick, Execution
  <2>2. ASSUME NEW n \in Msg PROVE rows'[n].published = rows[n].published
    BY <1>10, <1>r DEF Tick, Row
  <2> QED
    BY <1>10, <2>1, <2>2 DEF Tick, Current
<1>11. CASE UNCHANGED vars
  BY <1>11 DEF vars, Current
<1> QED
  BY <1>1, <1>2, <1>3, <1>4, <1>5, <1>6, <1>7, <1>8, <1>9, <1>10, <1>11 DEF Next
\* A message is published only after SAQ accepted it.
THEOREM PublishedAfterAccepted == Spec => []PublishedWasAccepted
<1>1. Init => Acceptance
  BY DEF Init, Acceptance, AcksAreAccepted, PublishedWasAccepted, NoRow, Resting, At
<1>2. TypeOK /\ Acceptance /\ [Next]_vars => Acceptance'
  BY AcceptanceNext
<1>3. Acceptance => PublishedWasAccepted
  BY DEF Acceptance
<1> QED
  BY <1>1, <1>2, <1>3, TypeCorrect, PTL DEF Spec
-----------------------------------------------------------------------------
(***************************************************************************)
(* Row locks and published rows.                                           *)
(***************************************************************************)
Locking == PublishedIsClean /\ BatchIsStored /\ LockedIsUnleased /\ LocksAreExclusive

\* A step that leaves every locked row's state and no new lock keeps Locking.
LEMMA LockingKept ==
  ASSUME TypeOK, Locking,
         \A s \in Relay : /\ relay'[s].batch \subseteq relay[s].batch
                          /\ relay'[s].pc = "claiming" => relay[s].pc = "claiming",
         \A n \in Msg : /\ rows[n].stored => rows'[n].stored
                        /\ Locked(n) => /\ rows'[n].published = rows[n].published
                                        /\ rows'[n].lease = rows[n].lease
                        /\ rows'[n].published =>
                             rows'[n].stored /\ rows'[n].owner = NoOwner /\ rows'[n].lease = NoLease
  PROVE  Locking'
<1> USE DEF Locking, PublishedIsClean, BatchIsStored, LockedIsUnleased, LocksAreExclusive,
            At, Unleased, Locked
<1>1. \A s \in Relay : relay[s].batch \subseteq Msg
  BY DEF TypeOK, Execution
<1>2. PublishedIsClean'
  OBVIOUS
<1>3. BatchIsStored'
  BY <1>1
<1>4. LockedIsUnleased'
  BY <1>1
<1>5. LocksAreExclusive'
  BY <1>1
<1> QED
  BY <1>2, <1>3, <1>4, <1>5

\* An acknowledgement or a recorded failure that waited for the row's lock.
LEMMA UnlockedWrite ==
  ASSUME TypeOK, Locking, NEW m \in Msg, NEW o \in Owner, rows[m].stored, ~Locked(m),
         rows' = MarkPublished(m, o) \/ rows' = MarkFailed(m, o)
  PROVE  \A n \in Msg : /\ rows[n].stored => rows'[n].stored
                        /\ Locked(n) => /\ rows'[n].published = rows[n].published
                                        /\ rows'[n].lease = rows[n].lease
                        /\ rows'[n].published =>
                             rows'[n].stored /\ rows'[n].owner = NoOwner /\ rows'[n].lease = NoLease
<1>1. \A n \in Msg : rows[n] \in Row
  BY DEF TypeOK
<1>2. \A n \in Msg : rows[n].published =>
        rows[n].stored /\ rows[n].owner = NoOwner /\ rows[n].lease = NoLease
  BY DEF Locking, PublishedIsClean
<1>3. \A n \in Msg : n # m => rows'[n] = rows[n]
  BY WritesEffect
<1>4. rows'[m] \in {rows[m], AsPublished(rows[m]), AsFailed(rows[m])}
  BY WritesEffect
<1>5. /\ rows'[m].stored
      /\ rows'[m].published => rows'[m].owner = NoOwner /\ rows'[m].lease = NoLease
  BY <1>1, <1>2, <1>4, FieldsOfWrites
<1> QED
  BY <1>2, <1>3, <1>5

\* A claim whose UPDATE lands gives up its locks and leases the rows it held.
LEMMA LockingAfterClaim ==
  ASSUME TypeOK, Locking, NEW r \in Relay, At(r, "claiming"), rows' = Claimed(r),
         \A s \in Relay : s # r => relay'[s] = relay[s],
         relay'[r].batch \subseteq relay[r].batch, relay'[r].pc # "claiming"
  PROVE  Locking'
<1>1. /\ \A n \in Msg : rows[n] \in Row
      /\ \A s \in Relay : relay[s].batch \subseteq Msg
  BY DEF TypeOK, Execution
<1>2. ASSUME NEW n \in Msg
      PROVE  /\ rows'[n].stored = rows[n].stored /\ rows'[n].published = rows[n].published
             /\ n \notin relay[r].batch => rows'[n] = rows[n]
  <2>1. CASE n \in relay[r].batch
    <3>1. rows'[n] = Leased(rows[n], OwnerOf[r], relay[r].lease)
      BY <2>1, WritesEffect
    <3> QED
      BY <1>1, <2>1, <3>1, FieldsOfWrites
  <2>2. CASE n \notin relay[r].batch
    BY <2>2, WritesEffect
  <2> QED
    BY <2>1, <2>2
<1>3. \A n \in relay[r].batch : ~rows[n].published
  BY DEF Locking, LockedIsUnleased, At
<1>4. \A s \in Relay : s # r /\ relay[s].pc = "claiming" => relay[s].batch \cap relay[r].batch = {}
  BY <1>1 DEF Locking, LocksAreExclusive, At
<1>5. PublishedIsClean'
  BY <1>2, <1>3 DEF Locking, PublishedIsClean
<1>6. BatchIsStored'
  <2>1. ASSUME NEW s \in Relay PROVE relay'[s].batch \subseteq relay[s].batch
    OBVIOUS
  <2> QED
    BY <1>1, <1>2, <2>1 DEF Locking, BatchIsStored
<1>7. LockedIsUnleased'
  BY <1>1, <1>2, <1>4 DEF Locking, LockedIsUnleased, At, Unleased
<1>8. LocksAreExclusive'
  BY DEF Locking, LocksAreExclusive, At
<1> QED
  BY <1>5, <1>6, <1>7, <1>8 DEF Locking

LEMMA LockingNext ==
  ASSUME TypeOK, Locking, [Next]_vars
  PROVE  Locking'
<1>r. /\ \A n \in Msg : rows[n] \in Row
      /\ \A r \in Relay : relay[r] \in Execution
      /\ \A r \in Relay : OwnerOf[r] \in Owner
  BY DEF TypeOK
<1>c. \A n \in Msg : rows[n].published =>
        rows[n].stored /\ rows[n].owner = NoOwner /\ rows[n].lease = NoLease
  BY DEF Locking, PublishedIsClean
<1>s. \A r \in Relay, m \in Msg : Current(r, m) => rows[m].stored
  BY DEF Locking, BatchIsStored, Current
<1>1. ASSUME NEW m \in Msg, CreateTask(m) PROVE Locking'
  <2>1. ASSUME NEW n \in Msg
        PROVE  /\ rows[n].stored => rows'[n].stored
               /\ rows'[n].published = rows[n].published
               /\ rows'[n].owner = rows[n].owner /\ rows'[n].lease = rows[n].lease
    BY <1>1, <1>r DEF CreateTask, TypeOK, Row
  <2> QED
    BY <1>1, <1>c, <2>1, LockingKept DEF CreateTask
<1>2. ASSUME NEW r \in Relay, ClaimMessages(r) PROVE Locking'
  <2>1. PICK B \in SUBSET {m \in Msg : Claimable(m)} : relay' = [relay EXCEPT ![r] =
                 [pc |-> "claiming", batch |-> B, lease |-> LeaseSeconds, left |-> MaxRun]]
    BY <1>2 DEF ClaimMessages
  <2>2. rows' = rows
    BY <1>2 DEF ClaimMessages
  <2>3. ASSUME NEW s \in Relay
        PROVE  /\ s # r => relay'[s] = relay[s]
               /\ relay'[r].pc = "claiming" /\ relay'[r].batch = B
    BY <2>1 DEF TypeOK
  <2>4. \A m \in B : /\ m \in Msg /\ rows[m].stored /\ ~rows[m].published
                     /\ Unleased(m) /\ ~Locked(m)
    BY <2>1 DEF Claimable
  <2>5. PublishedIsClean' /\ BatchIsStored' /\ LockedIsUnleased'
    BY <2>2, <2>3, <2>4 DEF Locking, PublishedIsClean, BatchIsStored, LockedIsUnleased, At, Unleased
  <2>6. LocksAreExclusive'
    BY <2>3, <2>4 DEF Locking, LocksAreExclusive, At, Locked
  <2> QED
    BY <2>5, <2>6 DEF Locking
<1>3. ASSUME NEW r \in Relay, CommitClaim(r) PROVE Locking'
  <2>1. /\ \A s \in Relay : s # r => relay'[s] = relay[s]
        /\ relay'[r].batch = relay[r].batch /\ relay'[r].pc # "claiming"
    BY <1>3, <1>r, MovesEffect DEF CommitClaim, Resting, Execution
  <2> QED
    BY <1>3, <2>1, LockingAfterClaim DEF CommitClaim
<1>4. ASSUME NEW r \in Relay, Interrupt(r) PROVE Locking'
  <2>1. \A s \in Relay : relay'[s] = IF s = r THEN Resting ELSE relay[s]
    BY <1>4, MovesEffect DEF Interrupt
  <2>2. ASSUME NEW s \in Relay
        PROVE  /\ relay'[s].batch \subseteq relay[s].batch
               /\ relay'[s].pc = "claiming" => relay[s].pc = "claiming"
    BY <2>1 DEF Resting
  <2>3. CASE rows' = rows
    BY <1>c, <2>2, <2>3, LockingKept
  <2>4. CASE At(r, "claiming") /\ rows' = Claimed(r)
    BY <2>1, <2>4, LockingAfterClaim DEF Resting
  <2>5. ASSUME NEW m \in Msg, Current(r, m), ~Locked(m),
               rows' = MarkPublished(m, OwnerOf[r]) \/ rows' = MarkFailed(m, OwnerOf[r])
        PROVE  Locking'
    BY <1>c, <1>r, <1>s, <2>2, <2>5, UnlockedWrite, LockingKept
  <2> QED
    BY <1>4, <2>3, <2>4, <2>5 DEF Interrupt
<1>5. ASSUME NEW r \in Relay, NEW m \in Msg, PublishMessage(r, m) \/ PublishRaises(r, m)
      PROVE  Locking'
  <2>1. ASSUME NEW s \in Relay
        PROVE  relay'[s].batch = relay[s].batch /\ (relay'[s].pc = "claiming" => relay[s].pc = "claiming")
    BY <1>5, MovesEffect DEF PublishMessage, PublishRaises
  <2> QED
    BY <1>5, <1>c, <2>1, LockingKept DEF PublishMessage, PublishRaises
<1>6. ASSUME NEW r \in Relay, NEW m \in Msg, AcknowledgeMessage(r, m) \/ FailMessage(r, m)
      PROVE  Locking'
  <2>1. ASSUME NEW s \in Relay
        PROVE  /\ relay'[s].batch \subseteq relay[s].batch
               /\ relay'[s].pc = "claiming" => relay[s].pc = "claiming"
    BY <1>6, <1>r, MovesEffect DEF AcknowledgeMessage, FailMessage, Resting, Execution
  <2> QED
    BY <1>6, <1>c, <1>r, <1>s, <2>1, UnlockedWrite, LockingKept DEF AcknowledgeMessage, FailMessage
<1>7. ASSUME NEW r \in Relay, NEW m \in Msg, AcknowledgeRaises(r, m) PROVE Locking'
  <2>1. ASSUME NEW s \in Relay
        PROVE  relay'[s].batch = relay[s].batch /\ (relay'[s].pc = "claiming" => relay[s].pc = "claiming")
    BY <1>7, MovesEffect DEF AcknowledgeRaises
  <2>2. CASE rows' = rows
    BY <1>c, <2>1, <2>2, LockingKept
  <2>3. CASE ~Locked(m) /\ rows' = MarkPublished(m, OwnerOf[r])
    BY <1>7, <1>c, <1>r, <1>s, <2>1, <2>3, UnlockedWrite, LockingKept DEF AcknowledgeRaises
  <2> QED
    BY <1>7, <2>2, <2>3 DEF AcknowledgeRaises
<1>8. CASE Tick
  <2>1. ASSUME NEW s \in Relay
        PROVE  relay'[s].batch = relay[s].batch /\ relay'[s].pc = relay[s].pc
    BY <1>8, <1>r DEF Tick, Execution
  <2>2. ASSUME NEW n \in Msg
        PROVE  /\ rows'[n].stored = rows[n].stored /\ rows'[n].published = rows[n].published
               /\ rows'[n].owner = rows[n].owner
               /\ Unleased(n) => rows'[n].lease = rows[n].lease
    BY <1>8, <1>r DEF Tick, Row, Sooner, Unleased
  <2>3. \A n \in Msg : Locked(n) => Unleased(n)
    BY DEF Locking, LockedIsUnleased, Locked, At
  <2> QED
    BY <1>c, <2>1, <2>2, <2>3, LockingKept DEF Unleased
<1>9. CASE UNCHANGED vars
  BY <1>9, <1>c, LockingKept DEF vars
<1> QED
  BY <1>1, <1>2, <1>3, <1>4, <1>5, <1>6, <1>7, <1>8, <1>9 DEF Next
-----------------------------------------------------------------------------
(***************************************************************************)
(* Live claims.                                                            *)
(***************************************************************************)
Claims == LiveClaimIsOnRow /\ OneLiveClaim

\* A step that starts no claim and leaves unpublished rows as they are keeps Claims.
LEMMA ClaimsKept ==
  ASSUME Claims,
         \A s \in Relay, n \in Msg :
           Holds(s, n)' => Holds(s, n) /\ relay'[s].lease = relay[s].lease,
         \A n \in Msg : ~rows'[n].published =>
           ~rows[n].published /\ rows'[n].owner = rows[n].owner /\ rows'[n].lease = rows[n].lease
  PROVE  Claims'
BY DEF Claims, LiveClaimIsOnRow, OneLiveClaim

\* No live claim is held on a row another execution has locked.
LEMMA LockedIsNotHeld ==
  ASSUME TypeOK, Locking, Claims, NEW r \in Relay, NEW s \in Relay, NEW n \in Msg,
         At(r, "claiming"), n \in relay[r].batch
  PROVE  ~Holds(s, n)
<1> SUFFICES ASSUME Holds(s, n) PROVE FALSE
  OBVIOUS
<1>1. ~rows[n].published /\ Unleased(n)
  BY DEF Locking, LockedIsUnleased
<1>2. rows[n].lease = relay[s].lease /\ relay[s].lease \in Nat \ {0}
  BY <1>1 DEF Claims, LiveClaimIsOnRow, Holds, Live, TypeOK, Execution
<1> QED
  BY <1>1, <1>2 DEF Unleased

LEMMA ClaimsAfterClaim ==
  ASSUME TypeOK, Locking, Claims, NEW r \in Relay, At(r, "claiming"), rows' = Claimed(r),
         \A s \in Relay : s # r => relay'[s] = relay[s],
         relay'[r].batch \subseteq relay[r].batch,
         relay'[r].batch # {} => relay'[r].lease = relay[r].lease
  PROVE  Claims'
<1>1. /\ \A n \in Msg : rows[n] \in Row
      /\ \A s \in Relay : relay[s] \in Execution
  BY DEF TypeOK
<1>2. ASSUME NEW n \in Msg, n \in relay[r].batch
      PROVE  rows'[n].owner = OwnerOf[r] /\ rows'[n].lease = relay[r].lease
  <2>1. rows'[n] = Leased(rows[n], OwnerOf[r], relay[r].lease)
    BY <1>2, WritesEffect
  <2> QED
    BY <1>1, <2>1, FieldsOfWrites
<1>3. \A n \in Msg : n \notin relay[r].batch => rows'[n] = rows[n]
  BY WritesEffect
<1>4. ASSUME NEW s \in Relay, NEW n \in Msg, Holds(s, n)', s # r
      PROVE  Holds(s, n) /\ n \notin relay[r].batch
  BY <1>4, LockedIsNotHeld DEF Holds, Live, At
<1>5. ASSUME NEW n \in Msg, Holds(r, n)'
      PROVE  n \in relay[r].batch /\ relay'[r].lease = relay[r].lease
  BY <1>5 DEF Holds, Live
<1>6. LiveClaimIsOnRow'
  BY <1>2, <1>3, <1>4, <1>5 DEF Claims, LiveClaimIsOnRow
<1>7. OneLiveClaim'
  BY <1>3, <1>4, <1>5 DEF Claims, OneLiveClaim
<1> QED
  BY <1>6, <1>7 DEF Claims

\* An UPDATE of one row publishes it or leaves its lease alone.
LEMMA OneRowWrite ==
  ASSUME TypeOK, NEW m \in Msg, NEW o \in Owner,
         rows' = MarkPublished(m, o) \/ rows' = MarkFailed(m, o)
  PROVE  \A n \in Msg : ~rows'[n].published =>
           ~rows[n].published /\ rows'[n].owner = rows[n].owner /\ rows'[n].lease = rows[n].lease
<1>1. \A n \in Msg : rows[n] \in Row
  BY DEF TypeOK
<1>2. \A n \in Msg : n # m => rows'[n] = rows[n]
  BY WritesEffect
<1>3. rows'[m] \in {rows[m], AsPublished(rows[m]), AsFailed(rows[m])}
  BY WritesEffect
<1> QED
  BY <1>1, <1>2, <1>3, FieldsOfWrites

LEMMA ClaimsNext ==
  ASSUME TypeOK, Locking, Claims, [Next]_vars
  PROVE  Claims'
<1>r. /\ \A n \in Msg : rows[n] \in Row
      /\ \A r \in Relay : relay[r] \in Execution
      /\ \A r \in Relay : OwnerOf[r] \in Owner
  BY DEF TypeOK
<1>1. ASSUME NEW m \in Msg, CreateTask(m) PROVE Claims'
  <2>1. ASSUME NEW n \in Msg
        PROVE  /\ rows'[n].published = rows[n].published
               /\ rows'[n].owner = rows[n].owner /\ rows'[n].lease = rows[n].lease
    BY <1>1, <1>r DEF CreateTask, TypeOK, Row
  <2> QED
    BY <1>1, <2>1, ClaimsKept DEF CreateTask, Holds, Live, At
<1>2. ASSUME NEW r \in Relay, ClaimMessages(r) PROVE Claims'
  <2>1. ASSUME NEW s \in Relay
        PROVE  /\ s # r => relay'[s] = relay[s]
               /\ relay'[r].pc = "claiming"
    BY <1>2 DEF ClaimMessages, TypeOK
  <2> QED
    BY <1>2, <2>1, ClaimsKept DEF ClaimMessages, Holds, Live, At
<1>3. ASSUME NEW r \in Relay, CommitClaim(r) PROVE Claims'
  <2>1. /\ \A s \in Relay : s # r => relay'[s] = relay[s]
        /\ relay'[r].batch = relay[r].batch
        /\ relay'[r].batch # {} => relay'[r].lease = relay[r].lease
    BY <1>3, <1>r, MovesEffect DEF CommitClaim, Execution
  <2> QED
    BY <1>3, <2>1, ClaimsAfterClaim DEF CommitClaim
<1>4. ASSUME NEW r \in Relay, Interrupt(r) PROVE Claims'
  <2>1. \A s \in Relay : relay'[s] = IF s = r THEN Resting ELSE relay[s]
    BY <1>4, MovesEffect DEF Interrupt
  <2>2. ASSUME NEW s \in Relay, NEW n \in Msg, Holds(s, n)'
        PROVE  Holds(s, n) /\ relay'[s].lease = relay[s].lease
    BY <2>1, <2>2 DEF Resting, Holds, Live, At
  <2>3. CASE rows' = rows
    BY <2>2, <2>3, ClaimsKept
  <2>4. CASE At(r, "claiming") /\ rows' = Claimed(r)
    BY <2>1, <2>4, ClaimsAfterClaim DEF Resting
  <2>5. ASSUME NEW m \in Msg,
               rows' = MarkPublished(m, OwnerOf[r]) \/ rows' = MarkFailed(m, OwnerOf[r])
        PROVE  Claims'
    BY <1>r, <2>2, <2>5, OneRowWrite, ClaimsKept
  <2> QED
    BY <1>4, <2>3, <2>4, <2>5 DEF Interrupt
<1>5. ASSUME NEW r \in Relay, NEW m \in Msg, PublishMessage(r, m) \/ PublishRaises(r, m)
      PROVE  Claims'
  <2>1. ASSUME NEW s \in Relay
        PROVE  /\ relay'[s].batch = relay[s].batch /\ relay'[s].lease = relay[s].lease
               /\ relay[s].pc = "claiming" => relay'[s].pc = "claiming"
    BY <1>5, MovesEffect DEF PublishMessage, PublishRaises, At
  <2> QED
    BY <1>5, <2>1, ClaimsKept DEF PublishMessage, PublishRaises, Holds, Live, At
<1>6. ASSUME NEW r \in Relay, NEW m \in Msg, AcknowledgeMessage(r, m) \/ FailMessage(r, m)
      PROVE  Claims'
  <2>1. ASSUME NEW s \in Relay
        PROVE  /\ relay'[s].batch \subseteq relay[s].batch
               /\ relay'[s].batch # {} => relay'[s].lease = relay[s].lease
               /\ relay'[s].batch # {} /\ relay[s].pc = "claiming" => relay'[s].pc = "claiming"
    BY <1>6, <1>r, MovesEffect DEF AcknowledgeMessage, FailMessage, Execution, At
  <2>2. ASSUME NEW s \in Relay, NEW n \in Msg, Holds(s, n)'
        PROVE  Holds(s, n) /\ relay'[s].lease = relay[s].lease
    <3>1. n \in relay'[s].batch /\ relay'[s].lease > 0 /\ relay'[s].pc # "claiming"
      BY <2>2 DEF Holds, Live, At
    <3>2. n \in relay[s].batch /\ relay'[s].batch # {}
      BY <2>1, <3>1
    <3>3. relay'[s].lease = relay[s].lease /\ relay[s].pc # "claiming"
      BY <2>1, <3>1, <3>2
    <3> QED
      BY <3>1, <3>2, <3>3 DEF Holds, Live, At
  <2> QED
    BY <1>6, <1>r, <2>2, OneRowWrite, ClaimsKept DEF AcknowledgeMessage, FailMessage
<1>7. ASSUME NEW r \in Relay, NEW m \in Msg, AcknowledgeRaises(r, m) PROVE Claims'
  <2>1. ASSUME NEW s \in Relay
        PROVE  /\ relay'[s].batch = relay[s].batch /\ relay'[s].lease = relay[s].lease
               /\ relay[s].pc = "claiming" => relay'[s].pc = "claiming"
    BY <1>7, MovesEffect DEF AcknowledgeRaises, At
  <2>2. ASSUME NEW s \in Relay, NEW n \in Msg, Holds(s, n)'
        PROVE  Holds(s, n) /\ relay'[s].lease = relay[s].lease
    BY <2>1, <2>2 DEF Holds, Live, At
  <2>3. CASE rows' = rows
    BY <2>2, <2>3, ClaimsKept
  <2>4. CASE rows' = MarkPublished(m, OwnerOf[r])
    BY <1>r, <2>2, <2>4, OneRowWrite, ClaimsKept
  <2> QED
    BY <1>7, <2>3, <2>4 DEF AcknowledgeRaises
<1>8. CASE Tick
  <2>1. ASSUME NEW s \in Relay
        PROVE  /\ relay'[s].batch = relay[s].batch /\ relay'[s].pc = relay[s].pc
               /\ relay'[s].lease = Sooner(relay[s].lease)
    BY <1>8, <1>r DEF Tick, Execution
  <2>2. ASSUME NEW n \in Msg
        PROVE  /\ rows'[n].published = rows[n].published /\ rows'[n].owner = rows[n].owner
               /\ rows'[n].lease = Sooner(rows[n].lease)
    BY <1>8, <1>r DEF Tick, Row
  <2>3. ASSUME NEW s \in Relay, NEW n \in Msg, Holds(s, n)' PROVE Holds(s, n)
    BY <1>r, <2>1, <2>3 DEF Holds, Live, At, Sooner, Execution
  <2> QED
    BY <2>1, <2>2, <2>3 DEF Claims, LiveClaimIsOnRow, OneLiveClaim
<1>9. CASE UNCHANGED vars
  BY <1>9, ClaimsKept DEF vars, Holds, Live, At
<1> QED
  BY <1>1, <1>2, <1>3, <1>4, <1>5, <1>6, <1>7, <1>8, <1>9 DEF Next

LEMMA LockingAndClaims == Spec => [](TypeOK /\ Locking /\ Claims)
<1>1. Init => Locking /\ Claims
  BY DEF Init, Locking, PublishedIsClean, BatchIsStored, LockedIsUnleased, LocksAreExclusive,
         Claims, LiveClaimIsOnRow, OneLiveClaim, Holds, Live, NoRow, Resting, At
<1>2. TypeOK /\ Locking /\ Claims /\ [Next]_vars => (Locking /\ Claims)'
  BY LockingNext, ClaimsNext
<1> QED
  BY <1>1, <1>2, TypeCorrect, PTL DEF Spec

\* Two executions never work on one unpublished message under leases that both run.
THEOREM LiveClaimsAreExclusive == Spec => []OneLiveClaim
<1>1. Claims => OneLiveClaim
  BY DEF Claims
<1> QED
  BY <1>1, LockingAndClaims, PTL
-----------------------------------------------------------------------------
(***************************************************************************)
(* Acknowledgements.                                                       *)
(***************************************************************************)

\* s still has to acknowledge n, under a lease that runs.
Working(s, n) == Holds(s, n) /\ ~(At(s, "failing") /\ Current(s, n))

Sole(s) == \A t \in Relay \ {s} : OwnerOf[t] # OwnerOf[s]

WorkIsUnpublished ==
  \A s \in Relay, n \in Msg : Working(s, n) /\ Sole(s) => ~rows[n].published

\* A step that gives nobody more work and publishes nothing somebody else works on.
LEMMA WorkKept ==
  ASSUME WorkIsUnpublished,
         \A s \in Relay, n \in Msg : Working(s, n)' => Working(s, n),
         \A s \in Relay, n \in Msg : Working(s, n)' /\ Sole(s) =>
           (rows'[n].published => rows[n].published)
  PROVE  WorkIsUnpublished'
BY DEF WorkIsUnpublished, Sole

\* A sole holder's message cannot be acknowledged by another execution.
LEMMA AckIsOwn ==
  ASSUME TypeOK, Claims, WorkIsUnpublished, NEW r \in Relay, NEW s \in Relay, s # r, Sole(s),
         NEW m \in Msg, NEW n \in Msg, Working(s, n),
         rows' = MarkPublished(m, OwnerOf[r]) \/ rows' = MarkFailed(m, OwnerOf[r])
  PROVE  rows'[n].published => rows[n].published
<1>1. OwnerOf[r] \in Owner /\ OwnerOf[r] # OwnerOf[s]
  BY DEF Sole
<1>2. rows[n].owner = OwnerOf[s]
  BY DEF WorkIsUnpublished, Working, Claims, LiveClaimIsOnRow
<1>3. ~HeldBy(n, OwnerOf[r])
  BY <1>1, <1>2 DEF HeldBy
<1>4. rows'[n] = rows[n] \/ rows'[n] = AsFailed(rows[n])
  BY <1>1, <1>3, WritesEffect
<1>5. rows[n] \in Row
  BY DEF TypeOK
<1> QED
  BY <1>4, <1>5, FieldsOfWrites

LEMMA WorkNext ==
  ASSUME TypeOK, Locking, Claims, WorkIsUnpublished, [Next]_vars
  PROVE  WorkIsUnpublished'
<1>r. /\ \A n \in Msg : rows[n] \in Row
      /\ \A r \in Relay : relay[r] \in Execution
      /\ \A r \in Relay : OwnerOf[r] \in Owner
  BY DEF TypeOK
<1>1. ASSUME NEW m \in Msg, CreateTask(m) PROVE WorkIsUnpublished'
  <2>1. ASSUME NEW n \in Msg PROVE rows'[n].published = rows[n].published
    BY <1>1, <1>r DEF CreateTask, TypeOK, Row
  <2> QED
    BY <1>1, <2>1, WorkKept DEF CreateTask, Working, Holds, Live, At, Current
<1>2. ASSUME NEW r \in Relay, ClaimMessages(r) PROVE WorkIsUnpublished'
  <2>1. ASSUME NEW s \in Relay
        PROVE  (s # r => relay'[s] = relay[s]) /\ relay'[r].pc = "claiming"
    BY <1>2 DEF ClaimMessages, TypeOK
  <2> QED
    BY <1>2, <2>1, WorkKept DEF ClaimMessages, Working, Holds, Live, At, Current
<1>3. ASSUME NEW r \in Relay, CommitClaim(r) PROVE WorkIsUnpublished'
  <2>1. /\ \A s \in Relay : s # r => relay'[s] = relay[s]
        /\ relay'[r].batch = relay[r].batch
    BY <1>3, <1>r, MovesEffect DEF CommitClaim, Execution
  <2>2. ASSUME NEW n \in Msg PROVE rows'[n].published = rows[n].published
    BY <1>3, <1>r, WritesEffect, FieldsOfWrites DEF CommitClaim
  <2>3. ASSUME NEW n \in Msg, Working(r, n)' PROVE ~rows[n].published
    BY <1>3, <2>1, <2>3 DEF CommitClaim, Locking, LockedIsUnleased, Working, Holds, Live
  <2>4. ASSUME NEW s \in Relay, NEW n \in Msg, Working(s, n)', s # r PROVE Working(s, n)
    BY <2>1, <2>4 DEF Working, Holds, Live, At, Current
  <2> QED
    BY <2>2, <2>3, <2>4 DEF WorkIsUnpublished, Sole
<1>4. ASSUME NEW r \in Relay, Interrupt(r) PROVE WorkIsUnpublished'
  <2>1. \A s \in Relay : relay'[s] = IF s = r THEN Resting ELSE relay[s]
    BY <1>4, MovesEffect DEF Interrupt
  <2>2. ASSUME NEW s \in Relay, NEW n \in Msg, Working(s, n)' PROVE s # r /\ Working(s, n)
    BY <2>1, <2>2 DEF Resting, Working, Holds, Live, At, Current
  <2>3. CASE rows' = rows
    BY <2>2, <2>3, WorkKept
  <2>4. CASE rows' = Claimed(r)
    BY <1>r, <2>2, <2>4, WritesEffect, FieldsOfWrites, WorkKept
  <2>5. ASSUME NEW m \in Msg,
               rows' = MarkPublished(m, OwnerOf[r]) \/ rows' = MarkFailed(m, OwnerOf[r])
        PROVE  WorkIsUnpublished'
    <3>1. ASSUME NEW s \in Relay, NEW n \in Msg, Working(s, n)', Sole(s)
          PROVE  rows'[n].published => rows[n].published
      BY <2>2, <2>5, <3>1, AckIsOwn
    <3> QED
      BY <2>2, <3>1, WorkKept
  <2> QED
    BY <1>4, <2>3, <2>4, <2>5 DEF Interrupt
<1>5. ASSUME NEW r \in Relay, NEW m \in Msg, PublishMessage(r, m) \/ PublishRaises(r, m)
      PROVE  WorkIsUnpublished'
  <2>1. ASSUME NEW s \in Relay
        PROVE  /\ s # r => relay'[s].pc = relay[s].pc
               /\ relay'[s].batch = relay[s].batch /\ relay'[s].lease = relay[s].lease
    BY <1>5, MovesEffect DEF PublishMessage, PublishRaises
  <2>2. ASSUME NEW s \in Relay, NEW n \in Msg, Working(s, n)' PROVE Working(s, n)
    BY <1>5, <2>1, <2>2 DEF PublishMessage, PublishRaises, Working, Holds, Live, At, Current
  <2> QED
    BY <1>5, <2>2, WorkKept DEF PublishMessage, PublishRaises
<1>6. ASSUME NEW r \in Relay, NEW m \in Msg, AcknowledgeMessage(r, m) \/ FailMessage(r, m)
      PROVE  WorkIsUnpublished'
  <2>1. /\ relay'[r].batch = relay[r].batch \ {m}
        /\ relay'[r].batch # {} => relay'[r].lease = relay[r].lease
        /\ \A s \in Relay : s # r => relay'[s] = relay[s]
    BY <1>6, <1>r, MovesEffect DEF AcknowledgeMessage, FailMessage, Execution
  <2>2. ASSUME NEW s \in Relay, NEW n \in Msg, Working(s, n)', s # r PROVE Working(s, n)
    BY <2>1, <2>2 DEF Working, Holds, Live, At, Current
  <2>3. ASSUME NEW n \in Msg, Working(r, n)' PROVE n # m /\ Working(r, n)
    <3>1. n \in relay[r].batch /\ n # m /\ relay[r].lease > 0
      BY <2>1, <2>3 DEF Working, Holds, Live
    <3>2. ~Current(r, n) /\ ~At(r, "claiming")
      BY <1>6, <3>1, OneCurrent DEF AcknowledgeMessage, FailMessage, At
    <3> QED
      BY <3>1, <3>2 DEF Working, Holds, Live
  <2>4. rows' = MarkPublished(m, OwnerOf[r]) \/ rows' = MarkFailed(m, OwnerOf[r])
    BY <1>6 DEF AcknowledgeMessage, FailMessage
  <2>5. ASSUME NEW s \in Relay, NEW n \in Msg, Working(s, n)', Sole(s)
        PROVE  rows'[n].published => rows[n].published
    <3>1. CASE s # r
      BY <2>2, <2>4, <2>5, <3>1, AckIsOwn
    <3>2. CASE s = r
      <4>1. n # m
        BY <2>3, <2>5, <3>2
      <4> QED
        BY <1>r, <2>4, <4>1, OtherRows
    <3> QED
      BY <3>1, <3>2
  <2> QED
    BY <2>2, <2>3, <2>5, WorkKept
<1>7. ASSUME NEW r \in Relay, NEW m \in Msg, AcknowledgeRaises(r, m) PROVE WorkIsUnpublished'
  <2>1. ASSUME NEW s \in Relay
        PROVE  /\ relay'[s].pc = IF s = r THEN "failing" ELSE relay[s].pc
               /\ relay'[s].batch = relay[s].batch /\ relay'[s].lease = relay[s].lease
    BY <1>7, MovesEffect DEF AcknowledgeRaises
  <2>2. ASSUME NEW s \in Relay, NEW n \in Msg, Working(s, n)' PROVE Working(s, n)
    BY <1>7, <2>1, <2>2 DEF AcknowledgeRaises, Working, Holds, Live, At, Current
  <2>3. CASE rows' = rows
    BY <2>2, <2>3, WorkKept
  <2>4. CASE rows' = MarkPublished(m, OwnerOf[r])
    <3>1. ASSUME NEW n \in Msg, Working(r, n)' PROVE n # m
      BY <1>7, <2>1, <3>1 DEF AcknowledgeRaises, Working, At, Current
    <3>2. ASSUME NEW s \in Relay, NEW n \in Msg, Working(s, n)', Sole(s)
          PROVE  rows'[n].published => rows[n].published
      <4>1. CASE s # r
        BY <2>2, <2>4, <3>2, <4>1, AckIsOwn
      <4>2. CASE s = r
        BY <1>r, <2>4, <3>1, <3>2, <4>2, OtherRows
      <4> QED
        BY <4>1, <4>2
    <3> QED
      BY <2>2, <3>2, WorkKept
  <2> QED
    BY <1>7, <2>3, <2>4 DEF AcknowledgeRaises
<1>8. CASE Tick
  <2>1. ASSUME NEW s \in Relay
        PROVE  /\ relay'[s].batch = relay[s].batch /\ relay'[s].pc = relay[s].pc
               /\ relay'[s].lease = Sooner(relay[s].lease)
    BY <1>8, <1>r DEF Tick, Execution
  <2>2. ASSUME NEW n \in Msg PROVE rows'[n].published = rows[n].published
    BY <1>8, <1>r DEF Tick, Row
  <2>3. ASSUME NEW s \in Relay, NEW n \in Msg, Working(s, n)' PROVE Working(s, n)
    BY <1>r, <2>1, <2>3 DEF Working, Holds, Live, At, Current, Sooner, Execution
  <2> QED
    BY <2>2, <2>3, WorkKept
<1>9. CASE UNCHANGED vars
  BY <1>9, WorkKept DEF vars, Working, Holds, Live, At, Current
<1> QED
  BY <1>1, <1>2, <1>3, <1>4, <1>5, <1>6, <1>7, <1>8, <1>9 DEF Next

\* While its lease runs, only the execution that claimed a message acknowledges it.
THEOREM OnlyTheHolderAcknowledges == Spec => []OnlyHolderAcknowledges
<1>1. Init => WorkIsUnpublished
  BY DEF Init, WorkIsUnpublished, Working, Holds, Live, Resting
<1>2. TypeOK /\ Locking /\ Claims /\ WorkIsUnpublished /\ [Next]_vars => WorkIsUnpublished'
  BY WorkNext
<1>3. WorkIsUnpublished => OnlyHolderAcknowledges
  BY DEF WorkIsUnpublished, OnlyHolderAcknowledges, Working, Sole
<1> QED
  BY <1>1, <1>2, <1>3, LockingAndClaims, PTL DEF Spec
=============================================================================
