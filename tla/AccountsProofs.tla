--------------------------- MODULE AccountsProofs ---------------------------
(***************************************************************************)
(* For any registrations and seeds of one email, over any transactions     *)
(* that fail, time out or land late: what the runner's outcome says of the *)
(* commit, and what registrations and seeds may rely on.                   *)
(*                                                                         *)
(* The argument: a transaction that may still commit and has written       *)
(* anything holds the account, by its lock or by its insert, and only one  *)
(* holds it at a time (Holders).  So what it read under the lock is still  *)
(* true when it lands (Rows).                                              *)
(***************************************************************************)
EXTENDS Accounts, TLAPS

\* Where the call and its transaction can be together.
Stages == \A c \in Call :
  /\ client[c] = "idle" => step[c] = "none" /\ txn[c] = "none"
  /\ client[c] \in {"operating", "undoing", "refused"} => txn[c] \in {"open", "aborted"}
  /\ client[c] \in {"committing", "recovering", "unknown"} => txn[c] \in {"sent", "committed", "aborted"}
  /\ client[c] \in {"closing", "returned"} => txn[c] = "committed"
  /\ txn[c] \in {"sent", "committed"} => step[c] = "done"

\* What a transaction has written, by the statement it has come to.
Drafts == \A c \in Call :
  /\ step[c] \in {"none", "lock", "insert", "duplicate"}
       => ~locked[c] /\ ~draft[c].inserts /\ draft[c].titles = {}
  /\ step[c] \in {"tasks", "done"} => locked[c] \/ draft[c].inserts
  /\ c \in Registrar => ~locked[c] /\ step[c] \notin {"lock", "tasks"} /\ draft[c].titles = {}

Holds(c) == Unsettled(c) /\ (locked[c] \/ draft[c].inserts)
Holders  == \A c, d \in Call : Holds(c) /\ Holds(d) => c = d

\* What holds of the rows as long as a transaction may commit, and once it has.
Rows ==
  /\ \A c \in Call : Unsettled(c) =>
       /\ draft[c].inserts => user.owner = Nobody
       /\ locked[c] => user.owner # Nobody /\ (draft[c].repairs \/ user.password = Demo)
       /\ \A t \in draft[c].titles : tasks[t] = 0
  /\ \A c \in Call : txn[c] = "committed" =>
       /\ user.owner # Nobody
       /\ draft[c].inserts => user.owner = c
       /\ c \notin Registrar => user.password = Demo
  /\ \A c \in Call : step[c] = "duplicate" => user.owner # Nobody
  /\ \A t \in Title : tasks[t] <= 1

IInv == TypeOK /\ Stages /\ Drafts /\ Holders /\ Rows
-----------------------------------------------------------------------------
\* Initially nothing has begun.
LEMMA InitIInv == Init => IInv
  BY AccountsAssumption DEF Init, TransactionsInit, IInv, TypeOK, TransactionsTypeOK, Draft, Stages,
       Drafts, Holders, Holds, Rows, Unsettled, Ended

\* A step that writes nothing and settles transactions, or none, keeps what is said of rows.
LEMMA QuietKeeps ==
  ASSUME Drafts, Holders, Rows, UNCHANGED <<rows, step, locked, draft>>,
         \A d \in Call : Unsettled(d)' => Unsettled(d),
         \A d \in Call : txn'[d] = "committed" => txn[d] = "committed"
  PROVE  Drafts' /\ Holders' /\ Rows'
  <1>1. Drafts'  BY DEF Drafts, rows
  <1>2. Holders' BY DEF Holders, Holds, rows
  <1>3. Rows'    BY DEF Rows, rows
  <1> QED BY <1>1, <1>2, <1>3

\* An operation that raises leaves its transaction to the rollback.
LEMMA RaiseStages ==
  ASSUME NEW c \in Call, IInv, Raise(c)
  PROVE  /\ TransactionsTypeOK'
         /\ UNCHANGED step => Stages'
  BY DEF IInv, TypeOK, TransactionsTypeOK, Stages, Raise, Turn, Ended

LEMMA FailKeeps ==
  ASSUME NEW c \in Call, IInv, Fail(c)
  PROVE  IInv'
  <1> USE DEF IInv
  <1>1. TypeOK' /\ Stages' BY RaiseStages DEF Fail, TypeOK, rows
  <1>2. Drafts' /\ Holders' /\ Rows' BY QuietKeeps DEF Fail, Raise, Unsettled, rows
  <1> QED BY <1>1, <1>2

LEMMA SendCommitKeeps ==
  ASSUME NEW c \in Call, IInv, step[c] = "done", SendCommit(c),
         UNCHANGED <<rows, step, locked, draft>>
  PROVE  IInv'
  <1> USE DEF IInv, SendCommit, Operating, Turn, Becomes
  <1>1. TypeOK' BY DEF TypeOK, TransactionsTypeOK, rows
  <1>2. Stages' BY DEF Stages, TypeOK, TransactionsTypeOK, Ended
  <1>3. Drafts' /\ Holders' /\ Rows'
        BY QuietKeeps DEF Unsettled, TypeOK, TransactionsTypeOK
  <1> QED BY <1>1, <1>2, <1>3

LEMMA ProceedKeeps ==
  ASSUME NEW c \in Call, IInv, Proceed(c)
  PROVE  IInv'
  <1> USE DEF IInv, Proceed, Run, CommitAnswered, CommitGivesUp, Rollback, Close, Turn, Becomes
  <1>1. TypeOK' BY DEF TypeOK, TransactionsTypeOK, Ended, rows
  <1>2. Stages' BY DEF Stages, TypeOK, TransactionsTypeOK, Ended
  <1>3. Drafts' /\ Holders' /\ Rows'
        BY QuietKeeps DEF Unsettled, TypeOK, TransactionsTypeOK
  <1> QED BY <1>1, <1>2, <1>3

\* PostgreSQL aborts, on its own or because the connection is gone.
LEMMA AbortKeeps ==
  ASSUME NEW c \in Call, IInv, Abort(c), UNCHANGED <<rows, step, locked, draft>>
  PROVE  IInv'
  <1> USE DEF IInv, Abort, Becomes
  <1>1. TypeOK' BY DEF TypeOK, TransactionsTypeOK, rows
  <1>2. Stages' BY DEF Stages, Unsettled, TypeOK, TransactionsTypeOK, Ended
  <1>3. Drafts' /\ Holders' /\ Rows'
        BY QuietKeeps DEF Unsettled, TypeOK, TransactionsTypeOK
  <1> QED BY <1>1, <1>2, <1>3

LEMMA StartKeeps ==
  ASSUME NEW c \in Call, IInv, Start(c)
  PROVE  IInv'
  <1> USE DEF IInv, Start, Begin, Turn, Becomes, Then
  <1>1. TypeOK' BY DEF TypeOK, TransactionsTypeOK, rows
  <1>2. Stages' BY DEF Stages, TypeOK, TransactionsTypeOK, Ended
  <1>3. step[c] = "none" /\ ~locked[c] /\ ~draft[c].inserts /\ draft[c].titles = {}
        BY DEF Stages, Drafts
  <1>4. Drafts'  BY <1>3 DEF Drafts, TypeOK, rows
  <1>5. Holders' BY <1>3 DEF Holders, Holds, Unsettled, TypeOK, TransactionsTypeOK, rows
  <1>6. Rows'    BY <1>3 DEF Rows, Unsettled, TypeOK, TransactionsTypeOK, rows
  <1> QED BY <1>1, <1>2, <1>4, <1>5, <1>6
-----------------------------------------------------------------------------
LEMMA DraftType ==
  ASSUME NEW d \in Draft, NEW b \in BOOLEAN, NEW s \in SUBSET Title
  PROVE  /\ [d EXCEPT !.repairs = b] \in Draft
         /\ [d EXCEPT !.inserts = b] \in Draft
         /\ [d EXCEPT !.titles = s] \in Draft
  BY DEF Draft

\* The lock is granted when nobody else holds the account.
LEMMA LockUserKeeps ==
  ASSUME NEW c \in Call, IInv, LockUser(c)
  PROVE  IInv'
  <1> USE DEF IInv
  <1> DEFINE wrong == user.password # Demo
  <1>t. TypeOK /\ TransactionsTypeOK /\ wrong \in BOOLEAN BY DEF TypeOK
  <1>c. c \notin Registrar /\ Operating(c) /\ ~locked[c] /\ ~draft[c].inserts /\ draft[c].titles = {}
        BY DEF LockUser, Drafts
  <1>1. CASE user.owner = Nobody
    <2>1. UNCHANGED <<rows, client, txn, locked, draft>> /\ step' = [step EXCEPT ![c] = "insert"]
          BY <1>1 DEF LockUser, Then
    <2>2. TypeOK' BY <1>t, <2>1 DEF TypeOK, TransactionsTypeOK, rows
    <2>3. Stages' BY <1>t, <1>c, <2>1 DEF Stages, Operating, TypeOK
    <2>4. Drafts' BY <1>t, <1>c, <2>1 DEF Drafts, TypeOK
    <2>5. Holders' BY <2>1 DEF Holders, Holds, Unsettled
    <2>6. Rows' BY <1>t, <2>1 DEF Rows, Unsettled, TypeOK, rows
    <2> QED BY <2>2, <2>3, <2>4, <2>5, <2>6
  <1>2. CASE user.owner # Nobody
    <2>1. /\ UNCHANGED <<rows, client, txn>> /\ step' = [step EXCEPT ![c] = "tasks"]
          /\ locked' = [locked EXCEPT ![c] = TRUE] /\ ~LockedElse(c)
          /\ draft' = [draft EXCEPT ![c] = [draft[c] EXCEPT !.repairs = wrong]]
          BY <1>2 DEF LockUser, Then
    <2>d. draft[c] \in Draft BY <1>t DEF TypeOK
    <2>e. [draft[c] EXCEPT !.repairs = wrong] \in Draft BY <2>d, <1>t, DraftType
    <2>2. TypeOK' BY <1>t, <2>1, <2>e DEF TypeOK, TransactionsTypeOK, rows
    <2>3. Stages' BY <1>t, <1>c, <2>1 DEF Stages, Operating, TypeOK
    <2>f. /\ draft'[c].inserts = draft[c].inserts /\ draft'[c].titles = draft[c].titles
          /\ draft'[c].repairs = wrong /\ locked'[c]
          BY <1>t, <2>1, <2>d DEF TypeOK, Draft
    <2>g. \A d \in Call \ {c} : UNCHANGED <<draft[d], locked[d], step[d]>>
          BY <1>t, <2>1 DEF TypeOK
    <2>4. Drafts' BY <1>t, <1>c, <2>1, <2>f, <2>g DEF Drafts, TypeOK
    <2>5. \A d \in Call \ {c} : ~Holds(d) BY <1>2, <2>1 DEF LockedElse, Holds, Rows
    <2>6. Holders' BY <2>1, <2>5, <2>g DEF Holders, Holds, Unsettled
    <2>h. ~draft'[c].inserts BY <1>c, <2>f, Zenon
    <2>i. draft'[c].titles = {} BY <1>c, <2>f
    <2>j. draft'[c].repairs \/ user.password = Demo
      <3>1. CASE user.password = Demo BY <3>1
      <3>2. CASE user.password # Demo BY <3>2, <2>f, Zenon
      <3> QED BY <3>1, <3>2
    <2>k. user' = user /\ tasks' = tasks /\ txn' = txn /\ client' = client BY <2>1 DEF rows
    <2>7. Rows'
      <3>1. ASSUME NEW d \in Call, Unsettled(d)'
            PROVE  /\ draft'[d].inserts => user'.owner = Nobody
                   /\ locked'[d] => user'.owner # Nobody /\ (draft'[d].repairs \/ user'.password = Demo)
                   /\ \A t \in draft'[d].titles : tasks'[t] = 0
        <4>1. CASE d = c BY <4>1, <1>2, <2>h, <2>i, <2>j, <2>k
        <4>2. CASE d # c BY <4>2, <3>1, <2>g, <2>k DEF Rows, Unsettled
        <4> QED BY <4>1, <4>2
      <3>2. ASSUME NEW d \in Call, txn'[d] = "committed"
            PROVE  /\ user'.owner # Nobody
                   /\ draft'[d].inserts => user'.owner = d
                   /\ d \notin Registrar => user'.password = Demo
        <4>1. d # c BY <3>2, <2>k, <1>c DEF LockUser, Operating
        <4> QED BY <4>1, <3>2, <2>g, <2>k DEF Rows
      <3>3. \A d \in Call : step'[d] = "duplicate" => user'.owner # Nobody BY <1>2, <2>k
      <3>4. \A t \in Title : tasks'[t] <= 1 BY <2>k DEF Rows
      <3> QED BY <3>1, <3>2, <3>3, <3>4 DEF Rows, Unsettled
    <2> QED BY <2>2, <2>3, <2>4, <2>6, <2>7
  <1> QED BY <1>1, <1>2

\* The insert succeeds when there is no account and nobody is inserting it.
LEMMA InsertKeeps ==
  ASSUME NEW c \in Call, IInv, Insert(c)
  PROVE  IInv'
  <1> USE DEF IInv
  <1>t. TypeOK /\ TransactionsTypeOK /\ draft[c] \in Draft BY DEF TypeOK
  <1>c. Operating(c) /\ ~locked[c] /\ ~draft[c].inserts /\ draft[c].titles = {}
        BY DEF Insert, Drafts
  <1>1. CASE user.owner = Nobody
    <2>1. /\ UNCHANGED <<rows, client, txn, locked>> /\ ~Inserting(c)
          /\ step' = [step EXCEPT ![c] = IF c \in Registrar THEN "done" ELSE "tasks"]
          /\ draft' = [draft EXCEPT ![c] = [draft[c] EXCEPT !.inserts = TRUE]]
          BY <1>1 DEF Insert, Then
    <2>e. [draft[c] EXCEPT !.inserts = TRUE] \in Draft BY <1>t, DraftType
    <2>2. TypeOK' BY <1>t, <2>1, <2>e DEF TypeOK, TransactionsTypeOK, rows
    <2>3. Stages' BY <1>t, <1>c, <2>1 DEF Stages, Operating, TypeOK
    <2>f. draft'[c].inserts /\ draft'[c].titles = draft[c].titles
          BY <1>t, <2>1 DEF TypeOK, Draft
    <2>g. \A d \in Call \ {c} : UNCHANGED <<draft[d], locked[d], step[d]>>
          BY <1>t, <2>1 DEF TypeOK
    <2>4. Drafts' BY <1>t, <1>c, <2>1, <2>f, <2>g DEF Drafts, TypeOK
    <2>5. \A d \in Call \ {c} : ~Holds(d) BY <1>1, <2>1 DEF Inserting, Holds, Rows
    <2>6. Holders' BY <2>1, <2>5, <2>g DEF Holders, Holds, Unsettled
    <2>7. Rows' BY <1>1, <1>t, <1>c, <2>1, <2>f, <2>g DEF Rows, Operating, Unsettled, TypeOK, rows
    <2> QED BY <2>2, <2>3, <2>4, <2>6, <2>7
  <1>2. CASE user.owner # Nobody
    <2>1. /\ UNCHANGED <<rows, txn, locked, draft>> /\ Raise(c)
          /\ step' = [step EXCEPT ![c] = "duplicate"]
          BY <1>2 DEF Insert, Then, Raise
    <2>2. TypeOK' BY <1>t, <2>1, RaiseStages DEF TypeOK, TransactionsTypeOK, rows
    <2>3. Stages' BY <1>t, <1>c, <2>1 DEF Stages, Operating, Raise, Turn, TypeOK, TransactionsTypeOK, Ended
    <2>4. Drafts' BY <1>t, <1>c, <2>1 DEF Drafts, TypeOK
    <2>5. Holders' BY <2>1 DEF Holders, Holds, Unsettled
    <2>6. Rows' BY <1>2, <1>t, <2>1 DEF Rows, Unsettled, TypeOK, rows
    <2> QED BY <2>2, <2>3, <2>4, <2>5, <2>6
  <1> QED BY <1>1, <1>2

\* The titles a seed finds missing are missing as long as it holds the account.
LEMMA SeedTasksKeeps ==
  ASSUME NEW c \in Call, IInv, SeedTasks(c)
  PROVE  IInv'
  <1> USE DEF IInv
  <1> DEFINE missing == {t \in Title : tasks[t] = 0}
  <1>t. TypeOK /\ TransactionsTypeOK /\ draft[c] \in Draft BY DEF TypeOK
  <1>1. /\ UNCHANGED <<rows, client, txn, locked>> /\ Operating(c) /\ step[c] = "tasks"
        /\ step' = [step EXCEPT ![c] = "done"]
        /\ draft' = [draft EXCEPT ![c] = [draft[c] EXCEPT !.titles = missing]]
        BY DEF SeedTasks, Then
  <1>e. [draft[c] EXCEPT !.titles = missing] \in Draft BY <1>t, DraftType
  <1>2. TypeOK' BY <1>t, <1>1, <1>e DEF TypeOK, TransactionsTypeOK, rows
  <1>3. Stages' BY <1>t, <1>1 DEF Stages, Operating, TypeOK
  <1>f. /\ draft'[c].inserts = draft[c].inserts /\ draft'[c].repairs = draft[c].repairs
        /\ draft'[c].titles = missing
        BY <1>t, <1>1 DEF TypeOK, Draft
  <1>g. \A d \in Call \ {c} : UNCHANGED <<draft[d], step[d]>>
        BY <1>t, <1>1 DEF TypeOK
  <1>4. Drafts' BY <1>t, <1>1, <1>f, <1>g DEF Drafts, TypeOK
  <1>5. Holders' BY <1>1, <1>f, <1>g DEF Holders, Holds, Unsettled
  <1>6. Rows' BY <1>t, <1>1, <1>f, <1>g DEF Rows, Unsettled, TypeOK, rows
  <1> QED BY <1>2, <1>3, <1>4, <1>5, <1>6

\* What lands was written by the only transaction that held the account.
LEMMA CommitKeeps ==
  ASSUME NEW c \in Call, IInv, Commit(c)
  PROVE  IInv'
  <1> USE DEF IInv
  <1>t. TypeOK /\ TransactionsTypeOK /\ draft[c] \in Draft BY DEF TypeOK
  <1>1. /\ UNCHANGED <<client, step, locked, draft>> /\ txn[c] = "sent"
        /\ txn' = [txn EXCEPT ![c] = "committed"]
        /\ user' = IF draft[c].inserts THEN [owner |-> c, password |-> PasswordOf(c)]
                   ELSE IF draft[c].repairs THEN [user EXCEPT !.password = Demo] ELSE user
        /\ tasks' = [t \in Title |-> tasks[t] + IF t \in draft[c].titles THEN 1 ELSE 0]
        BY DEF Commit, Land, Becomes
  <1>2. step[c] = "done" /\ Holds(c) BY <1>1 DEF Stages, Drafts, Holds, Unsettled
  <1>3. \A d \in Call \ {c} : ~Holds(d) BY <1>2 DEF Holders
  <1>4. \A d \in Call \ {c} : Unsettled(d) => ~locked[d] /\ ~draft[d].inserts /\ draft[d].titles = {}
        BY <1>3, <1>t DEF Holds, Drafts, TypeOK
  <1>5. \A d \in Call \ {c} : txn'[d] = txn[d] BY <1>1, <1>t DEF TransactionsTypeOK
  <1>5a. txn'[c] = "committed" BY <1>1, <1>t DEF TransactionsTypeOK
  <1>6. TypeOK'
    <2>1. user' \in [owner : Call \cup {Nobody}, password : Registrar \cup {Demo, Nobody}]
          BY <1>1, <1>t DEF TypeOK, PasswordOf
    <2>2. tasks' \in [Title -> Nat] BY <1>1, <1>t DEF TypeOK
    <2> QED BY <2>1, <2>2, <1>1, <1>t DEF TypeOK, TransactionsTypeOK
  <1>7. Stages' BY <1>1, <1>2, <1>5, <1>5a DEF Stages, Ended
  <1>8. Drafts' BY <1>1 DEF Drafts
  <1>9. Holders' BY <1>1, <1>3, <1>5, <1>5a DEF Holders, Holds, Unsettled
  <1>10. /\ user'.owner # Nobody
         /\ draft[c].inserts => user'.owner = c /\ \A d \in Call : txn[d] # "committed"
         /\ ~draft[c].inserts => user'.owner = user.owner
         /\ user.owner # Nobody /\ user.password = Demo => user'.password = Demo
         /\ c \notin Registrar => user'.password = Demo
    <2>1. CASE draft[c].inserts
      <3>1. user.owner = Nobody BY <2>1, <1>2 DEF Holds, Rows
      <3>2. user'.owner = c /\ user'.password = PasswordOf(c) BY <2>1, <1>1
      <3> QED BY <3>1, <3>2, <2>1, AccountsAssumption DEF Rows, PasswordOf
    <2>2. CASE ~draft[c].inserts
      <3>1. locked[c] BY <2>2, <1>2 DEF Holds
      <3>2. user.owner # Nobody /\ (draft[c].repairs \/ user.password = Demo)
            BY <3>1, <1>2 DEF Holds, Rows
      <3>3. user'.owner = user.owner /\ user'.password = Demo
            BY <2>2, <3>2, <1>1, <1>t DEF TypeOK
      <3> QED BY <3>2, <3>3, <2>2
    <2> QED BY <2>1, <2>2
  <1>11. \A t \in Title : tasks'[t] <= 1
    <2> TAKE t \in Title
    <2>1. tasks[t] \in Nat /\ tasks[t] <= 1 BY <1>t DEF TypeOK, Rows
    <2>2. t \in draft[c].titles => tasks[t] = 0 BY <1>1 DEF Rows, Unsettled
    <2>3. tasks'[t] = tasks[t] + IF t \in draft[c].titles THEN 1 ELSE 0 BY <1>1
    <2> QED BY <2>1, <2>2, <2>3
  <1>12. \A d \in Call : Unsettled(d)' => d # c /\ Unsettled(d)
         BY <1>5, <1>5a DEF Unsettled
  <1>13. \A d \in Call : txn'[d] = "committed" => d = c \/ txn[d] = "committed"
         BY <1>5
  <1>14. Rows'
    <2>1. (\A d \in Call : Unsettled(d) =>
             /\ draft[d].inserts => user.owner = Nobody
             /\ locked[d] => user.owner # Nobody /\ (draft[d].repairs \/ user.password = Demo)
             /\ \A t \in draft[d].titles : tasks[t] = 0)'
          BY <1>1, <1>4, <1>12
    <2>2. (\A d \in Call : txn[d] = "committed" =>
             /\ user.owner # Nobody
             /\ draft[d].inserts => user.owner = d
             /\ d \notin Registrar => user.password = Demo)'
          BY <1>1, <1>10, <1>13 DEF Rows
    <2>3. (\A d \in Call : step[d] = "duplicate" => user.owner # Nobody)' BY <1>10
    <2> QED BY <2>1, <2>2, <2>3, <1>11 DEF Rows
  <1> QED BY <1>6, <1>7, <1>8, <1>9, <1>14

\* The owner's deletions take nothing that a seed is about to add.
LEMMA DeleteTaskKeeps ==
  ASSUME NEW t \in Title, IInv, DeleteTask(t)
  PROVE  IInv'
  <1> USE DEF IInv, DeleteTask
  <1>1. TypeOK' BY DEF TypeOK, TransactionsTypeOK
  <1>2. Stages' /\ Drafts' /\ Holders' BY DEF Stages, Drafts, Holders, Holds, Unsettled
  <1>3. \A s \in Title : tasks'[s] <= tasks[s] /\ tasks'[s] \in Nat /\ tasks[s] \in Nat
        BY DEF TypeOK
  <1>4. \A d \in Call : draft[d].titles \subseteq Title BY DEF TypeOK, Draft
  <1>5. Rows' BY <1>3, <1>4 DEF Rows, Unsettled
  <1> QED BY <1>1, <1>2, <1>5
-----------------------------------------------------------------------------
LEMMA NextKeeps == IInv /\ [Next]_vars => IInv'
  <1> SUFFICES ASSUME IInv, [Next]_vars PROVE IInv' OBVIOUS
  <1>1. CASE UNCHANGED vars
        BY <1>1 DEF vars, IInv, TypeOK, TransactionsTypeOK, Stages, Drafts, Holders, Holds, Rows, Unsettled
  <1>2. ASSUME NEW c \in Call, Operate(c) PROVE IInv'
        BY <1>2, LockUserKeeps, InsertKeeps, SeedTasksKeeps, SendCommitKeeps DEF Operate
  <1>3. ASSUME NEW c \in Call, Settle(c) PROVE IInv'
        BY <1>3, AbortKeeps, CommitKeeps DEF Settle, Reap
  <1>4. ASSUME NEW c \in Call, Lose(c) PROVE IInv'
        BY <1>4, AbortKeeps DEF Lose
  <1> QED BY <1>1, <1>2, <1>3, <1>4, StartKeeps, FailKeeps, ProceedKeeps, DeleteTaskKeeps DEF Next

LEMMA Inductive == Spec => []IInv
  <1>1. Init => IInv BY InitIInv
  <1>2. IInv /\ [Next]_vars => IInv' BY NextKeeps
  <1> QED BY <1>1, <1>2, PTL DEF Spec

\* Every reachable state is well typed, for any calls, registrations and sample tasks.
THEOREM TypeCorrect == Spec => []TypeOK
  <1>1. IInv => TypeOK BY DEF IInv
  <1> QED BY <1>1, Inductive, PTL

\* What run returns has been committed, and what it refused has no effect: neither a timeout nor
\* a cancellation of the commit, the rollback or the closing of the session makes a result or a
\* refusal out of an unknown outcome.
THEOREM OutcomesAreTrue == Spec => []OutcomeIsTrue
  <1>1. IInv => OutcomeIsTrue BY DEF IInv, Stages, OutcomeIsTrue
  <1> QED BY <1>1, Inductive, PTL

\* A registration told that its email is taken was told so of a committed account.
THEOREM DuplicatesAreTrue == Spec => []DuplicateIsTruthful
  <1>1. IInv => DuplicateIsTruthful BY DEF IInv, Rows, DuplicateIsTruthful
  <1> QED BY <1>1, Inductive, PTL

\* The cookie of a registration names the account it created, and no other.
THEOREM CookiesNameTheirAccount == Spec => []CookieNamesAccount
  <1>1. IInv => CookieNamesAccount
        BY AccountsAssumption DEF IInv, Stages, Drafts, Rows, CookieNamesAccount
  <1> QED BY <1>1, Inductive, PTL

\* After a seed that succeeded the demo password opens the account.
THEOREM DemoOpens == Spec => []DemoOpensAccount
  <1>1. IInv => DemoOpensAccount BY DEF IInv, Stages, Rows, DemoOpensAccount
  <1> QED BY <1>1, Inductive, PTL

\* Seeding is idempotent: however many seeds overlap or are repeated, no sample task is doubled.
THEOREM SeedingIsIdempotent == Spec => []SeedTitlesOnce
  <1>1. IInv => SeedTitlesOnce BY DEF IInv, Rows, SeedTitlesOnce
  <1> QED BY <1>1, Inductive, PTL
-----------------------------------------------------------------------------
(***************************************************************************)
(* Every step is one of AtomicAccounts, or shows nothing there.            *)
(***************************************************************************)

\* What a call shows in the abstract state is as it was.
Same(d) == /\ Told(d)' = Told(d) /\ draft'[d].titles = draft[d].titles
           /\ txn'[d] = "committed" <=> txn[d] = "committed"
           /\ d \notin Registrar => (step'[d] = "done" <=> step[d] = "done")

\* Another call's own variables are as they were.
Apart(d) == /\ client'[d] = client[d] /\ txn'[d] = txn[d] /\ step'[d] = step[d]
            /\ draft'[d] = draft[d]

LEMMA ApartIsSame ==
  ASSUME NEW d, Apart(d)
  PROVE  Same(d)
  BY DEF Apart, Same, Told

LEMMA Hidden ==
  ASSUME UNCHANGED rows, \A d \in Call : Same(d)
  PROVE  UNCHANGED Atomic!vars
  BY DEF Same, rows, Planned, Atomic!vars

\* An answer given to one call shows as Tell.
LEMMA Tells ==
  ASSUME NEW c \in Call, UNCHANGED <<rows, step, draft>>, Told(c) = "nothing",
         \A d \in Call : txn'[d] = "committed" <=> txn[d] = "committed",
         Told(c)' \in {"returned", "refused", "taken", "unknown"},
         \A d \in Call \ {c} : Told(d)' = Told(d),
         Told(c)' = "returned" => txn[c] = "committed",
         Told(c)' \in {"refused", "taken"} => txn[c] # "committed",
         Told(c)' = "taken" => user.owner # Nobody
  PROVE  Atomic!Next
  BY DEF rows, Planned, Atomic!Next, Atomic!Tell

\* Until the runner has an answer nobody is told anything.
LEMMA Unanswered ==
  ASSUME NEW c \in Call, client[c] \notin Ended, client'[c] \notin Ended
  PROVE  Told(c) = "nothing" /\ Told(c)' = "nothing"
  BY DEF Told

\* A step of the runner: the last of each branch answers the caller, the others show nothing.
LEMMA ProceedShows ==
  ASSUME NEW c \in Call, IInv, Proceed(c)
  PROVE  [Atomic!Next]_(Atomic!vars)
  <1>t. TransactionsTypeOK BY DEF IInv, TypeOK
  <1>r. UNCHANGED <<rows, step, locked, draft>> BY DEF Proceed
  <1>a. \A d \in Call \ {c} : Apart(d)
        BY <1>t, <1>r DEF Proceed, Run, CommitAnswered, CommitGivesUp, Rollback, Close, Turn,
             Becomes, Apart, TransactionsTypeOK
  <1>b. \A d \in Call \ {c} : Told(d)' = Told(d) BY <1>a DEF Apart, Told
  <1>1. CASE CommitAnswered(c) \/ CommitGivesUp(c)
    <2>1. client[c] \notin Ended /\ client'[c] \notin Ended /\ txn' = txn
          BY <1>1, <1>t DEF CommitAnswered, CommitGivesUp, Turn, Ended, TransactionsTypeOK
    <2>2. Same(c) BY <2>1, <1>r, Unanswered DEF Same
    <2> QED BY <2>2, <1>a, <1>r, ApartIsSame, Hidden
  <1>2. CASE Close(c)
    <2>1. Told(c) = "nothing" BY <1>2 DEF Close, Told, Ended
    <2>2. Told(c)' \in {"returned", "unknown"} BY <1>2, <1>t DEF Close, Turn, Told, Ended, TransactionsTypeOK
    <2>3. txn[c] = "committed" BY <1>2 DEF Close, IInv, Stages
    <2> QED BY <2>1, <2>2, <2>3, <1>2, <1>b, <1>r, Tells DEF Close
  <1>3. CASE Rollback(c)
    <2>1. Told(c) = "nothing" BY <1>3 DEF Rollback, Told, Ended
    <2>2. client'[c] = IF client[c] = "undoing" THEN "refused" ELSE "unknown"
          BY <1>3, <1>t DEF Rollback, Turn, TransactionsTypeOK
    <2>3. Told(c)' \in {"refused", "taken", "unknown"} BY <2>2 DEF Told, Ended
    <2>4. Told(c)' \in {"refused", "taken"} => client[c] = "undoing" /\ txn[c] # "committed"
          BY <2>2, <1>3 DEF Told, Ended, Rollback, IInv, Stages
    <2>5. \A d \in Call : txn'[d] = "committed" <=> txn[d] = "committed"
          BY <1>3, <1>t DEF Rollback, Becomes, TransactionsTypeOK
    <2>6. Told(c)' = "taken" => user.owner # Nobody
          BY <2>2, <1>r DEF Told, Ended, IInv, Rows
    <2> QED BY <2>1, <2>3, <2>4, <2>5, <2>6, <1>b, <1>r, Tells
  <1> QED BY <1>1, <1>2, <1>3 DEF Proceed, Run

\* A session begun, a statement before the last, COMMIT sent, a transaction rolled back by
\* PostgreSQL and an exception under way: nothing of it shows.
LEMMA StepIsHidden ==
  ASSUME NEW c \in Call, IInv,
         Start(c) \/ LockUser(c) \/ Insert(c) \/ Fail(c) \/ Lose(c)
           \/ (SendCommit(c) /\ UNCHANGED <<rows, step, locked, draft>>)
           \/ (Reap(c) /\ UNCHANGED <<rows, step, locked, draft>>)
  PROVE  UNCHANGED Atomic!vars
  <1> USE DEF Turn, Becomes, Then, Operating, Ended
  <1>t. TypeOK /\ TransactionsTypeOK /\ draft[c] \in Draft BY DEF IInv, TypeOK
  <1>s. CASE Start(c)
    <2>1. \A d \in Call \ {c} : Apart(d)
          BY <1>s, <1>t DEF Start, Begin, Apart, TypeOK, TransactionsTypeOK
    <2>2. /\ client[c] = "idle" /\ client'[c] = "operating" /\ txn[c] = "none" /\ txn'[c] = "open"
          /\ step[c] = "none" /\ step'[c] \in {"insert", "lock"} /\ draft' = draft
          BY <1>s, <1>t DEF Start, Begin, TypeOK, TransactionsTypeOK, IInv, Stages
    <2>3. Same(c) BY <2>2, Unanswered DEF Same
    <2> QED BY <2>1, <2>3, <1>s, ApartIsSame, Hidden DEF Start
  <1>l. CASE LockUser(c)
    <2>1. \A d \in Call \ {c} : Apart(d)
          BY <1>l, <1>t DEF LockUser, Apart, TypeOK
    <2>2. /\ client[c] = "operating" /\ client' = client /\ txn' = txn /\ rows' = rows
          /\ step[c] = "lock" /\ step'[c] \in {"insert", "tasks"}
          BY <1>l, <1>t DEF LockUser, TypeOK, rows
    <2>3. draft'[c].titles = draft[c].titles BY <1>l, <1>t DEF LockUser, TypeOK, Draft
    <2>4. Same(c) BY <2>2, <2>3, Unanswered DEF Same
    <2> QED BY <2>1, <2>2, <2>4, ApartIsSame, Hidden
  <1>i. CASE Insert(c)
    <2>1. \A d \in Call \ {c} : Apart(d)
          BY <1>i, <1>t DEF Insert, Raise, Apart, TypeOK, TransactionsTypeOK
    <2>2. /\ client[c] = "operating" /\ client'[c] \in {"operating", "undoing"} /\ txn' = txn
          /\ rows' = rows /\ step[c] = "insert"
          /\ step'[c] \in {"tasks", "duplicate"} \/ c \in Registrar
          BY <1>i, <1>t DEF Insert, Raise, TypeOK, TransactionsTypeOK, rows
    <2>3. draft'[c].titles = draft[c].titles BY <1>i, <1>t DEF Insert, TypeOK, Draft
    <2>4. Same(c) BY <2>2, <2>3, Unanswered DEF Same
    <2> QED BY <2>1, <2>2, <2>4, ApartIsSame, Hidden
  <1>q. CASE \/ Fail(c) \/ Lose(c)
             \/ SendCommit(c) /\ UNCHANGED <<rows, step, locked, draft>>
             \/ Reap(c) /\ UNCHANGED <<rows, step, locked, draft>>
    <2>1. UNCHANGED <<rows, step, locked, draft>> BY <1>q DEF Fail, Lose
    <2>2. \A d \in Call \ {c} : Apart(d)
          BY <1>q, <2>1, <1>t DEF Fail, Raise, Lose, Abort, SendCommit, Reap, Apart, TransactionsTypeOK
    <2>3. txn'[c] = "committed" <=> txn[c] = "committed"
          BY <1>q, <1>t DEF Fail, Raise, Lose, Abort, SendCommit, Reap, Unsettled, TransactionsTypeOK
    <2>4. Told(c)' = Told(c)
      <3>1. CASE client' = client BY <3>1, <2>1 DEF Told
      <3>2. CASE client' # client
        <4>1. client[c] = "operating" /\ client'[c] \in {"undoing", "committing"}
              BY <1>q, <3>2, <1>t DEF Fail, Raise, Lose, Abort, SendCommit, Reap, TransactionsTypeOK
        <4> QED BY <4>1, Unanswered
      <3> QED BY <3>1, <3>2
    <2> QED BY <2>1, <2>2, <2>3, <2>4, ApartIsSame, Hidden DEF Same
  <1> QED BY <1>s, <1>l, <1>i, <1>q

\* The look of a seed at the tasks.
LEMMA SeedTasksShows ==
  ASSUME NEW c \in Call, IInv, SeedTasks(c)
  PROVE  Atomic!Next
  <1> DEFINE absent == {t \in Title : tasks[t] = 0}
             titles == [d \in Call |-> draft[d].titles]
  <1>t. TypeOK /\ TransactionsTypeOK /\ draft[c] \in Draft BY DEF IInv, TypeOK
  <1>1. /\ UNCHANGED <<rows, client, txn>> /\ client[c] = "operating" /\ txn[c] = "open"
        /\ step[c] = "tasks" /\ step' = [step EXCEPT ![c] = "done"]
        BY DEF SeedTasks, Operating, Then
  <1>2. c \notin Registrar BY <1>1 DEF IInv, Drafts
  <1>3. Planned' = Planned \cup {c} /\ c \notin Planned BY <1>1, <1>2, <1>t DEF Planned, TypeOK
  <1>4. draft'[c].titles = absent BY <1>t DEF SeedTasks, TypeOK, Draft
  <1>5. \A d \in Call \ {c} : draft'[d] = draft[d] BY <1>t DEF SeedTasks, TypeOK
  <1>6. titles' = [titles EXCEPT ![c] = absent] BY <1>4, <1>5
  <1>7. \A d \in Call : Told(d)' = Told(d)
    <2>1. \A d \in Call \ {c} : Apart(d) BY <1>1, <1>5, <1>t DEF Apart, TypeOK
    <2>2. Told(c)' = Told(c) BY <1>1, Unanswered DEF Ended
    <2> QED BY <2>1, <2>2 DEF Apart, Told
  <1>8. Told(c) = "nothing" BY <1>1 DEF Told, Ended
  <1>9. Atomic!Look(c)
        BY <1>1, <1>2, <1>3, <1>6, <1>7, <1>8 DEF Atomic!Look, Atomic!MayTakeEffect, rows
  <1> QED BY <1>9 DEF Atomic!Next

\* What lands takes effect as if alone: by Rows the account and the titles are as it read them.
LEMMA CommitShows ==
  ASSUME NEW c \in Call, IInv, Commit(c)
  PROVE  Atomic!Next
  <1> DEFINE committed == {d \in Call : txn[d] = "committed"}
  <1>t. TypeOK /\ TransactionsTypeOK /\ draft[c] \in Draft BY DEF IInv, TypeOK
  <1>1. /\ UNCHANGED <<client, step, locked, draft>> /\ txn[c] = "sent"
        /\ txn' = [txn EXCEPT ![c] = "committed"]
        BY DEF Commit, Land, Becomes
  <1>2. step[c] = "done" /\ (locked[c] \/ draft[c].inserts) /\ draft[c].titles \subseteq Title
        BY <1>1, <1>t DEF IInv, Stages, Drafts, Draft
  <1>3. /\ draft[c].inserts => user.owner = Nobody
        /\ locked[c] => user.owner # Nobody /\ (draft[c].repairs \/ user.password = Demo)
        /\ \A t \in draft[c].titles : tasks[t] = 0
        BY <1>1 DEF IInv, Rows, Unsettled
  <1>4. committed' = committed \cup {c} /\ c \notin committed
        BY <1>1, <1>t DEF TransactionsTypeOK
  <1>5. Told(c) \notin {"refused", "taken"} BY <1>1, <1>t DEF IInv, Stages, Told, Ended
  <1>6. Planned' = Planned /\ \A d \in Call : Told(d)' = Told(d) BY <1>1 DEF Planned, Told
  <1>7. tasks' = [t \in Title |-> IF t \in draft[c].titles THEN 1 ELSE tasks[t]]
    <2>1. \A t \in Title : tasks[t] \in Nat BY <1>t DEF TypeOK
    <2>2. \A t \in Title : tasks[t] + (IF t \in draft[c].titles THEN 1 ELSE 0)
                              = IF t \in draft[c].titles THEN 1 ELSE tasks[t]
          BY <2>1, <1>3
    <2> QED BY <2>2 DEF Commit
  <1>8. CASE c \in Registrar
    <2>1. ~locked[c] /\ draft[c].titles = {} BY <1>8 DEF IInv, Drafts
    <2>2. user.owner = Nobody /\ user' = [owner |-> c, password |-> c]
          BY <2>1, <1>2, <1>3, <1>8 DEF Commit, PasswordOf
    <2>3. tasks' = tasks BY <2>1, <1>7, <1>t DEF TypeOK
    <2>4. Atomic!Register(c)
          BY <2>2, <2>3, <1>1, <1>4, <1>5, <1>6, <1>8
          DEF Atomic!Register, Atomic!MayTakeEffect
    <2> QED BY <2>4 DEF Atomic!Next
  <1>9. CASE c \notin Registrar
    <2>1. c \in Planned BY <1>2, <1>9 DEF Planned
    <2>2. user' = [owner |-> IF user.owner = Nobody THEN c ELSE user.owner, password |-> Demo]
      <3>1. CASE draft[c].inserts BY <3>1, <1>3, <1>9 DEF Commit, PasswordOf
      <3>2. CASE ~draft[c].inserts /\ draft[c].repairs
            BY <3>2, <1>2, <1>3, <1>t DEF Commit, TypeOK
      <3>3. CASE ~draft[c].inserts /\ ~draft[c].repairs
            BY <3>3, <1>2, <1>3, <1>t DEF Commit, TypeOK
      <3> QED BY <3>1, <3>2, <3>3
    <2>3. Atomic!Seed(c)
          BY <2>1, <2>2, <1>1, <1>3, <1>4, <1>5, <1>6, <1>7
          DEF Atomic!Seed, Atomic!MayTakeEffect
    <2> QED BY <2>3 DEF Atomic!Next
  <1> QED BY <1>8, <1>9

LEMMA DeleteTaskShows ==
  ASSUME NEW t \in Title, DeleteTask(t)
  PROVE  Atomic!Next
  <1>1. Planned' = Planned /\ \A d \in Call : Told(d)' = Told(d) BY DEF DeleteTask, Planned, Told
  <1>2. Atomic!DeleteTask(t) BY <1>1 DEF DeleteTask, Atomic!DeleteTask
  <1> QED BY <1>2 DEF Atomic!Next

LEMMA InitShows == Init => Atomic!Init
  BY AccountsAssumption DEF Init, TransactionsInit, Atomic!Init, Planned, Told, Ended

LEMMA StepShows == IInv /\ [Next]_vars => [Atomic!Next]_(Atomic!vars)
  <1> SUFFICES ASSUME IInv, [Next]_vars PROVE [Atomic!Next]_(Atomic!vars) OBVIOUS
  <1>1. CASE UNCHANGED vars BY <1>1, Hidden DEF vars, rows, Same, Told
  <1>2. ASSUME NEW c \in Call, Operate(c) PROVE [Atomic!Next]_(Atomic!vars)
        BY <1>2, StepIsHidden, SeedTasksShows DEF Operate
  <1>3. ASSUME NEW c \in Call, Settle(c) PROVE [Atomic!Next]_(Atomic!vars)
        BY <1>3, StepIsHidden, CommitShows DEF Settle
  <1>4. ASSUME NEW c \in Call, Start(c) \/ Fail(c) \/ Lose(c) PROVE [Atomic!Next]_(Atomic!vars)
        BY <1>4, StepIsHidden
  <1>5. ASSUME NEW c \in Call, Proceed(c) PROVE [Atomic!Next]_(Atomic!vars)
        BY <1>5, ProceedShows
  <1>6. ASSUME NEW t \in Title, DeleteTask(t) PROVE [Atomic!Next]_(Atomic!vars)
        BY <1>6, DeleteTaskShows
  <1> QED BY <1>1, <1>2, <1>3, <1>4, <1>5, <1>6 DEF Next

\* Registrations and seeds of one email, each many statements and a commit that may outlive the
\* runner's wait for it, behave as AtomicAccounts: at one instant or never, as if alone, and
\* in agreement with what their callers were told.
THEOREM ImplementsAtomicAccounts == Spec => TakesEffectAtOnce
  <1>1. Init => Atomic!Init BY InitShows
  <1>2. IInv /\ [Next]_vars => [Atomic!Next]_(Atomic!vars) BY StepShows
  <1> QED BY <1>1, <1>2, Inductive, PTL DEF Spec, TakesEffectAtOnce, Atomic!Spec
=============================================================================
