-------------------------- MODULE OutboxRefinement --------------------------
(***************************************************************************)
(* The outbox implements the safety part of at-least-once delivery, and    *)
(* what it published stays as it is.  Both follow, step by step, from the  *)
(* invariants proved in OutboxProofs.                                      *)
(***************************************************************************)
EXTENDS OutboxProofs

USE MsgAssumption, OwnerAssumption, LeaseAssumption, BatchAssumption

\* How a step writes the rows: a row is stored or published, or neither.
Kept(n) == rows'[n].stored = rows[n].stored /\ rows'[n].published = rows[n].published

\* One acknowledgement or recorded failure of m, row by row.
LEMMA WriteKeeps ==
  ASSUME TypeOK, NEW m \in Msg, NEW o \in Owner,
         rows' = MarkPublished(m, o) \/ rows' = MarkFailed(m, o)
  PROVE  /\ \A n \in Msg : n # m => Kept(n)
         /\ rows'[m].stored = rows[m].stored
         /\ rows[m].published => rows'[m] = rows[m]
         /\ rows' = MarkFailed(m, o) => Kept(m)
<1>1. \A n \in Msg : rows[n] \in Row
  BY DEF TypeOK
<1>2. \A n \in Msg : n # m => rows'[n] = rows[n]
  BY OtherRows
<1>3. rows'[m] \in {rows[m], AsPublished(rows[m]), AsFailed(rows[m])}
  BY WritesEffect
<1>4. rows[m].published => rows'[m] = rows[m]
  BY WritesEffect DEF HeldBy
<1>5. rows' = MarkFailed(m, o) => rows'[m] \in {rows[m], AsFailed(rows[m])}
  BY WritesEffect
<1> QED
  BY <1>1, <1>2, <1>3, <1>4, <1>5, FieldsOfWrites DEF Kept
-----------------------------------------------------------------------------
(***************************************************************************)
(* The three ways a step of the outbox shows in the abstract state.        *)
(***************************************************************************)
LEMMA Stutters ==
  ASSUME \A n \in Msg : Kept(n), accepted' = accepted
  PROVE  UNCHANGED Abstract!vars
BY DEF Kept, Abstract!vars

LEMMA Accepts ==
  ASSUME BatchIsStored, NEW r \in Relay, NEW m \in Msg, Current(r, m),
         rows' = rows, accepted' = accepted \cup {m}
  PROVE  [Abstract!Next]_(Abstract!vars)
<1>1. rows[m].stored
  BY DEF BatchIsStored, Current
<1>2. CASE m \in accepted
  BY <1>2, Stutters DEF Kept
<1>3. CASE m \notin accepted
  <2>1. Abstract!Accept(m)
    BY <1>1, <1>3 DEF Abstract!Accept
  <2> QED
    BY <2>1 DEF Abstract!Next
<1> QED
  BY <1>2, <1>3

LEMMA Publishes ==
  ASSUME TypeOK, AcksAreAccepted, NEW r \in Relay, NEW m \in Msg,
         At(r, "acking"), Current(r, m),
         rows' = MarkPublished(m, OwnerOf[r]), accepted' = accepted
  PROVE  [Abstract!Next]_(Abstract!vars)
<1>1. OwnerOf[r] \in Owner /\ m \in accepted
  BY DEF AcksAreAccepted
<1>2. /\ \A n \in Msg : n # m => Kept(n)
      /\ rows'[m].stored = rows[m].stored
      /\ rows[m].published => rows'[m] = rows[m]
  BY <1>1, WriteKeeps
<1>3. rows[m].published \in BOOLEAN /\ rows'[m].published \in BOOLEAN
  BY WritesType DEF TypeOK, Row
<1>4. CASE rows'[m].published = rows[m].published
  BY <1>2, <1>4, Stutters DEF Kept
<1>5. CASE rows'[m].published # rows[m].published
  <2>1. rows'[m].published /\ ~rows[m].published
    BY <1>2, <1>3, <1>5
  <2>2. {n \in Msg : rows'[n].published} = {n \in Msg : rows[n].published} \cup {m}
    BY <1>2, <2>1 DEF Kept
  <2>3. {n \in Msg : rows'[n].stored} = {n \in Msg : rows[n].stored}
    BY <1>2 DEF Kept
  <2>4. Abstract!Publish(m)
    BY <1>1, <2>1, <2>2, <2>3 DEF Abstract!Publish
  <2> QED
    BY <2>4 DEF Abstract!Next
<1> QED
  BY <1>4, <1>5
-----------------------------------------------------------------------------
LEMMA StepRefines ==
  ASSUME TypeOK, Locking, Acceptance, [Next]_vars
  PROVE  [Abstract!Next]_(Abstract!vars)
<1>r. /\ \A n \in Msg : rows[n] \in Row
      /\ \A r \in Relay : OwnerOf[r] \in Owner
  BY DEF TypeOK
<1>i. BatchIsStored /\ AcksAreAccepted
  BY DEF Locking, Acceptance
<1>1. ASSUME NEW m \in Msg, CreateTask(m) PROVE [Abstract!Next]_(Abstract!vars)
  <2>1. /\ \A n \in Msg : n # m => rows'[n] = rows[n]
        /\ rows'[m].stored /\ ~rows[m].stored
        /\ rows'[m].published = rows[m].published
    BY <1>1, <1>r DEF CreateTask, TypeOK, Row
  <2>2. {n \in Msg : rows'[n].stored} = {n \in Msg : rows[n].stored} \cup {m}
    BY <2>1
  <2>3. {n \in Msg : rows'[n].published} = {n \in Msg : rows[n].published}
    BY <2>1
  <2>4. Abstract!Store(m)
    BY <1>1, <2>1, <2>2, <2>3 DEF CreateTask, Abstract!Store
  <2> QED
    BY <2>4 DEF Abstract!Next
<1>2. ASSUME NEW r \in Relay, ClaimMessages(r) PROVE [Abstract!Next]_(Abstract!vars)
  BY <1>2, Stutters DEF ClaimMessages, Kept
<1>3. ASSUME NEW r \in Relay, rows' = Claimed(r), accepted' = accepted
      PROVE  [Abstract!Next]_(Abstract!vars)
  <2>1. ASSUME NEW n \in Msg PROVE Kept(n)
    BY <1>3, <1>r, WritesEffect, FieldsOfWrites DEF Kept
  <2> QED
    BY <1>3, <2>1, Stutters
<1>4. ASSUME NEW r \in Relay, NEW m \in Msg,
             rows' = MarkFailed(m, OwnerOf[r]), accepted' = accepted
      PROVE  [Abstract!Next]_(Abstract!vars)
  <2>1. ASSUME NEW n \in Msg PROVE Kept(n)
    BY <1>4, <1>r, WriteKeeps
  <2> QED
    BY <1>4, <2>1, Stutters
<1>5. CASE rows' = rows /\ accepted' = accepted
  BY <1>5, Stutters DEF Kept
<1>6. ASSUME NEW r \in Relay, Interrupt(r) PROVE [Abstract!Next]_(Abstract!vars)
  <2>1. \/ rows' = rows /\ accepted' = accepted
        \/ rows' = Claimed(r) /\ accepted' = accepted
        \/ \E m \in Msg : Current(r, m) /\ rows' = rows /\ accepted' = accepted \cup {m}
        \/ /\ At(r, "acking") /\ accepted' = accepted
           /\ \E m \in Msg : Current(r, m) /\ rows' = MarkPublished(m, OwnerOf[r])
        \/ \E m \in Msg : rows' = MarkFailed(m, OwnerOf[r]) /\ accepted' = accepted
    BY <1>6 DEF Interrupt
  <2> QED
    BY <1>i, <1>3, <1>4, <1>5, <2>1, Accepts, Publishes
<1>7. ASSUME NEW r \in Relay, NEW m \in Msg, PublishMessage(r, m) \/ PublishRaises(r, m)
      PROVE  [Abstract!Next]_(Abstract!vars)
  <2>1. /\ Current(r, m) /\ rows' = rows
        /\ accepted' = accepted \/ accepted' = accepted \cup {m}
    BY <1>7 DEF PublishMessage, PublishRaises
  <2> QED
    BY <1>i, <1>5, <2>1, Accepts
<1>8. ASSUME NEW r \in Relay, NEW m \in Msg, AcknowledgeMessage(r, m) \/ AcknowledgeRaises(r, m)
      PROVE  [Abstract!Next]_(Abstract!vars)
  <2>1. /\ At(r, "acking") /\ Current(r, m) /\ accepted' = accepted
        /\ rows' = rows \/ rows' = MarkPublished(m, OwnerOf[r])
    BY <1>8 DEF AcknowledgeMessage, AcknowledgeRaises
  <2> QED
    BY <1>i, <1>5, <2>1, Publishes
<1>9. CASE Tick
  <2>1. ASSUME NEW n \in Msg PROVE Kept(n)
    BY <1>9, <1>r DEF Tick, Row, Kept
  <2> QED
    BY <1>9, <2>1, Stutters DEF Tick
<1>10. ASSUME NEW r \in Relay, CommitClaim(r) PROVE [Abstract!Next]_(Abstract!vars)
  BY <1>3, <1>10 DEF CommitClaim
<1>11. ASSUME NEW r \in Relay, NEW m \in Msg, FailMessage(r, m)
       PROVE  [Abstract!Next]_(Abstract!vars)
  BY <1>4, <1>11 DEF FailMessage
<1>12. CASE UNCHANGED vars
  BY <1>5, <1>12 DEF vars
<1> QED
  BY <1>1, <1>2, <1>6, <1>7, <1>8, <1>9, <1>10, <1>11, <1>12 DEF Next

\* Only a request stores a message, and SAQ's acceptance is never taken back.
LEMMA OnlyRequestsStore ==
  ASSUME TypeOK,
         \/ \E r \in Relay : ClaimMessages(r) \/ CommitClaim(r) \/ Interrupt(r)
         \/ \E r \in Relay, m \in Msg :
              \/ PublishMessage(r, m)     \/ PublishRaises(r, m)
              \/ AcknowledgeMessage(r, m) \/ AcknowledgeRaises(r, m)
              \/ FailMessage(r, m)
         \/ Tick
  PROVE  /\ \A n \in Msg : rows'[n].stored = rows[n].stored
         /\ accepted \subseteq accepted'
<1>r. /\ \A n \in Msg : rows[n] \in Row
      /\ \A r \in Relay : OwnerOf[r] \in Owner
  BY DEF TypeOK
<1>1. accepted \subseteq accepted'
  BY DEF ClaimMessages, CommitClaim, Interrupt, PublishMessage, PublishRaises, AcknowledgeMessage,
         AcknowledgeRaises, FailMessage, Tick
<1>2. \/ rows' = rows \/ Tick
      \/ \E r \in Relay : rows' = Claimed(r)
      \/ \E r \in Relay, m \in Msg : \/ rows' = MarkPublished(m, OwnerOf[r])
                                      \/ rows' = MarkFailed(m, OwnerOf[r])
  BY DEF ClaimMessages, CommitClaim, Interrupt, PublishMessage, PublishRaises, AcknowledgeMessage,
         AcknowledgeRaises, FailMessage
<1>3. CASE Tick
  BY <1>1, <1>3, <1>r DEF Tick, Row
<1>4. ASSUME NEW r \in Relay, rows' = Claimed(r) PROVE \A n \in Msg : rows'[n].stored = rows[n].stored
  BY <1>4, <1>r, WritesEffect, FieldsOfWrites
<1>5. ASSUME NEW r \in Relay, NEW m \in Msg,
             rows' = MarkPublished(m, OwnerOf[r]) \/ rows' = MarkFailed(m, OwnerOf[r])
      PROVE  \A n \in Msg : rows'[n].stored = rows[n].stored
  BY <1>5, <1>r, WriteKeeps DEF Kept
<1> QED
  BY <1>1, <1>2, <1>3, <1>4, <1>5

LEMMA LockingAndAcceptance == Spec => [](TypeOK /\ Locking /\ Acceptance)
<1>1. Init => Acceptance
  BY DEF Init, Acceptance, AcksAreAccepted, PublishedWasAccepted, NoRow, Resting, At
<1>2. TypeOK /\ Acceptance /\ [Next]_vars => Acceptance'
  BY AcceptanceNext
<1> QED
  BY <1>1, <1>2, LockingAndClaims, PTL DEF Spec

\* The outbox implements the safety of at-least-once delivery: under the mapping of
\* Abstract every step of relays, requests and failures is a Store, an Accept, a Publish
\* or changes nothing.
THEOREM ImplementsDelivery == Spec => Abstract!Safety
<1>1. Init => Abstract!Init
  BY DEF Init, Abstract!Init, NoRow
<1>2. TypeOK /\ Locking /\ Acceptance /\ [Next]_vars => [Abstract!Next]_(Abstract!vars)
  BY StepRefines
<1> QED
  BY <1>1, <1>2, LockingAndAcceptance, PTL DEF Spec, Abstract!Safety
-----------------------------------------------------------------------------
(***************************************************************************)
(* Published rows.                                                         *)
(***************************************************************************)
LEMMA PublishedStays ==
  ASSUME TypeOK, Locking, [Next]_vars, NEW n \in Msg, rows[n].published
  PROVE  rows'[n] = rows[n]
<1>r. /\ rows \in [Msg -> Row] /\ rows[n] \in Row
      /\ \A r \in Relay : OwnerOf[r] \in Owner
  BY DEF TypeOK
<1>p. /\ rows[n].stored /\ rows[n].lease = NoLease
      /\ \A r \in Relay : n \in relay[r].batch => ~At(r, "claiming")
  BY DEF Locking, PublishedIsClean, LockedIsUnleased
<1>1. ASSUME NEW r \in Relay, At(r, "claiming"), rows' = Claimed(r) PROVE rows'[n] = rows[n]
  BY <1>1, <1>p, WritesEffect
<1>2. ASSUME NEW r \in Relay, NEW m \in Msg,
             rows' = MarkPublished(m, OwnerOf[r]) \/ rows' = MarkFailed(m, OwnerOf[r])
      PROVE  rows'[n] = rows[n]
  <2>1. CASE n = m
    BY <1>2, <1>r, <2>1, WriteKeeps
  <2>2. CASE n # m
    BY <1>2, <1>r, <2>2, OtherRows
  <2> QED
    BY <2>1, <2>2
<1>3. ASSUME NEW m \in Msg, CreateTask(m) PROVE rows'[n] = rows[n]
  BY <1>3, <1>r, <1>p DEF CreateTask
<1>4. ASSUME NEW r \in Relay, Interrupt(r) PROVE rows'[n] = rows[n]
  <2>1. \/ rows' = rows
        \/ At(r, "claiming") /\ rows' = Claimed(r)
        \/ \E m \in Msg : rows' = MarkPublished(m, OwnerOf[r])
        \/ \E m \in Msg : rows' = MarkFailed(m, OwnerOf[r])
    BY <1>4 DEF Interrupt
  <2> QED
    BY <1>1, <1>2, <2>1
<1>5. CASE Tick
  <2>1. rows'[n] = [rows[n] EXCEPT !.lease = Sooner(rows[n].lease)]
    BY <1>5, <1>r DEF Tick
  <2>2. Sooner(rows[n].lease) = rows[n].lease
    BY <1>p DEF Sooner
  <2> QED
    BY <1>r, <2>1, <2>2 DEF Row
<1>6. ASSUME NEW r \in Relay, NEW m \in Msg,
             \/ PublishMessage(r, m)     \/ PublishRaises(r, m)
             \/ AcknowledgeMessage(r, m) \/ AcknowledgeRaises(r, m) \/ FailMessage(r, m)
      PROVE  rows'[n] = rows[n]
  <2>1. \/ rows' = rows
        \/ rows' = MarkPublished(m, OwnerOf[r]) \/ rows' = MarkFailed(m, OwnerOf[r])
    BY <1>6 DEF PublishMessage, PublishRaises, AcknowledgeMessage, AcknowledgeRaises, FailMessage
  <2> QED
    BY <1>2, <2>1
<1>7. ASSUME NEW r \in Relay, ClaimMessages(r) \/ CommitClaim(r) PROVE rows'[n] = rows[n]
  BY <1>1, <1>7 DEF ClaimMessages, CommitClaim
<1>8. CASE UNCHANGED vars
  BY <1>8 DEF vars
<1> QED
  BY <1>3, <1>4, <1>5, <1>6, <1>7, <1>8 DEF Next

\* A published row is never written again, whatever late claims, acknowledgements and
\* recorded failures arrive.
THEOREM PublicationIsFinal == Spec => PublishedIsFinal
<1>1. TypeOK /\ Locking /\ [Next]_vars =>
        \A m \in Msg : rows[m].published => rows'[m] = rows[m]
  BY PublishedStays
<1>2. Spec => [][\A m \in Msg : rows[m].published => rows'[m] = rows[m]]_vars
  BY <1>1, LockingAndAcceptance, PTL DEF Spec
<1> QED
  BY <1>2 DEF PublishedIsFinal
=============================================================================
