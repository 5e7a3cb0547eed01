------------------------------ MODULE Accounts ------------------------------
(***************************************************************************)
(* How the account of one email comes to be: registrations from the web    *)
(* (register_action, register) and the development seed (tools/seed.py),   *)
(* which creates the account or repairs its password and adds the sample   *)
(* tasks it lacks.  Each is one call of TransactionRunner.run; the unique  *)
(* email and the row lock of the seed's first statement order them.        *)
(***************************************************************************)
EXTENDS Transactions, Naturals

CONSTANTS
  Registrar,  \* the calls that are registrations; the others are seeds
  Title,      \* titles of SEED_TASKS
  Demo,       \* the password of the seed
  Nobody      \* no account yet

ASSUME AccountsAssumption == Registrar \subseteq Call /\ Nobody \notin Call /\ Demo \notin Call

VARIABLES
  user,   \* the row: the call that inserted it, and its password
  tasks,  \* committed sample tasks per title
  step,   \* the next statement of each operation
  locked, \* whether its transaction took the row's lock (until it settles)
  draft   \* what its transaction wrote

vars == <<client, txn, user, tasks, step, locked, draft>>
rows == <<user, tasks>>

Draft == [inserts : BOOLEAN, repairs : BOOLEAN, titles : SUBSET Title]

\* Mutation: the seed's email and password change places.
PasswordOfSwapped(c) == IF c \in Registrar THEN c ELSE "email"

\* A registration's password is the registrar's own.
PasswordOf(c) == IF c \in Registrar THEN c ELSE Demo

TypeOK == /\ TransactionsTypeOK
          /\ user \in [owner : Call \cup {Nobody}, password : Registrar \cup {Demo, Nobody}]
          /\ tasks \in [Title -> Nat]
          /\ step \in [Call -> {"none", "lock", "insert", "tasks", "done", "duplicate"}]
          /\ locked \in [Call -> BOOLEAN] /\ draft \in [Call -> Draft]

Init == /\ TransactionsInit
        /\ user = [owner |-> Nobody, password |-> Nobody]
        /\ tasks = [t \in Title |-> 0]
        /\ step = [c \in Call |-> "none"] /\ locked = [c \in Call |-> FALSE]
        /\ draft = [c \in Call |-> [inserts |-> FALSE, repairs |-> FALSE, titles |-> {}]]
-----------------------------------------------------------------------------
Then(c, s)     == step' = [step EXCEPT ![c] = s]
Inserting(c)   == \E d \in Call \ {c} : Unsettled(d) /\ draft[d].inserts
LockedElse(c)  == \E d \in Call \ {c} : Unsettled(d) /\ locked[d]

Start(c) == /\ Begin(c) /\ Then(c, IF c \in Registrar THEN "insert" ELSE "lock")
            /\ UNCHANGED <<rows, locked, draft>>

\* Mutation: SELECT without FOR UPDATE.
SelectUser(c) ==
  /\ Operating(c) /\ step[c] = "lock"
  /\ Then(c, IF user.owner = Nobody THEN "insert" ELSE "tasks")
  /\ draft' = [draft EXCEPT ![c].repairs = user.owner # Nobody /\ user.password # Demo]
  /\ UNCHANGED <<client, txn, rows, locked>>

\* seed_operation: get_by_email_for_update, and the password made the demo one.
LockUser(c) ==
  /\ Operating(c) /\ step[c] = "lock"
  /\ IF user.owner = Nobody THEN Then(c, "insert") /\ UNCHANGED <<locked, draft>>
     ELSE /\ ~LockedElse(c)
          /\ locked' = [locked EXCEPT ![c] = TRUE]
          /\ draft' = [draft EXCEPT ![c].repairs = user.password # Demo]
          /\ Then(c, "tasks")
  /\ UNCHANGED <<client, txn, rows>>

\* Mutation: an email another transaction is inserting is taken already.
InsertAtOnce(c) ==
  /\ Operating(c) /\ step[c] = "insert"
  /\ IF user.owner = Nobody /\ ~Inserting(c)
     THEN /\ draft' = [draft EXCEPT ![c].inserts = TRUE]
          /\ Then(c, IF c \in Registrar THEN "done" ELSE "tasks")
          /\ UNCHANGED <<client, txn>>
     ELSE Raise(c) /\ Then(c, "duplicate") /\ UNCHANGED draft
  /\ UNCHANGED <<rows, locked>>

\* Mutation: ON CONFLICT DO NOTHING.
InsertOrIgnore(c) ==
  /\ Operating(c) /\ step[c] = "insert" /\ ~Inserting(c)
  /\ draft' = [draft EXCEPT ![c].inserts = (user.owner = Nobody)]
  /\ Then(c, IF c \in Registrar THEN "done" ELSE "tasks")
  /\ UNCHANGED <<client, txn, rows, locked>>

\* UserRepository.add: INSERT waits for a transaction that is inserting the same email; when
\* the email is there it raises DuplicateEmailError.
Insert(c) ==
  /\ Operating(c) /\ step[c] = "insert" /\ ~Inserting(c)
  /\ IF user.owner = Nobody
     THEN /\ draft' = [draft EXCEPT ![c].inserts = TRUE]
          /\ Then(c, IF c \in Registrar THEN "done" ELSE "tasks")
          /\ UNCHANGED <<client, txn>>
     ELSE Raise(c) /\ Then(c, "duplicate") /\ UNCHANGED draft
  /\ UNCHANGED <<rows, locked>>

\* seed_operation: list_owned, and create_task for each title that is not there.
SeedTasks(c) == /\ Operating(c) /\ step[c] = "tasks"
                /\ draft' = [draft EXCEPT ![c].titles = {t \in Title : tasks[t] = 0}]
                /\ Then(c, "done")
                /\ UNCHANGED <<client, txn, rows, locked>>

Operate(c) == \/ LockUser(c) \/ Insert(c) \/ SeedTasks(c)
              \/ step[c] = "done" /\ SendCommit(c) /\ UNCHANGED <<rows, step, locked, draft>>

Fail(c)    == Raise(c) /\ UNCHANGED <<rows, step, locked, draft>>
Proceed(c) == Run(c)   /\ UNCHANGED <<rows, step, locked, draft>>

\* What a transaction wrote becomes visible.
Commit(c) ==
  /\ Land(c)
  /\ user' = IF draft[c].inserts THEN [owner |-> c, password |-> PasswordOf(c)]
             ELSE IF draft[c].repairs THEN [user EXCEPT !.password = Demo] ELSE user
  /\ tasks' = [t \in Title |-> tasks[t] + IF t \in draft[c].titles THEN 1 ELSE 0]
  /\ UNCHANGED <<step, locked, draft>>

Settle(c) == (Reap(c) /\ UNCHANGED <<rows, step, locked, draft>>) \/ Commit(c)

Lose(c) == Abort(c) /\ UNCHANGED <<rows, step, locked, draft>>

\* The owner of the account deletes a sample task.
DeleteTask(t) == /\ tasks[t] > 0 /\ tasks' = [tasks EXCEPT ![t] = @ - 1]
                 /\ UNCHANGED <<client, txn, user, step, locked, draft>>

Next == \/ \E c \in Call : \/ Start(c) \/ Operate(c) \/ Fail(c) \/ Proceed(c)
                           \/ Settle(c) \/ Lose(c)
        \/ \E t \in Title : DeleteTask(t)

\* Statements run to their end, the runner's waits are bounded by its timeout, and PostgreSQL
\* settles what it was told to commit and what is left behind by a closed connection.
Fairness == \A c \in Call : /\ WF_vars(Operate(c)) /\ WF_vars(Proceed(c)) /\ WF_vars(Settle(c))
                            /\ WF_vars(Fail(c) /\ txn[c] = "aborted")

Spec     == Init /\ [][Next]_vars
FairSpec == Spec /\ Fairness
-----------------------------------------------------------------------------
(***************************************************************************)
(* Properties.                                                             *)
(***************************************************************************)

\* Nobody is told that an email is taken before an account with it is committed: the insert
\* waits for a concurrent registration, which may yet fail.
DuplicateIsTruthful == \A c \in Call : step[c] = "duplicate" => user.owner # Nobody

\* The cookie a registration sets names the account that it created.
CookieNamesAccount == \A c \in Registrar : client[c] = "returned" => user.owner = c

\* A seed that reports success leaves an account that the demo password opens, whoever
\* registered it, even between its look for the account and its insert.
DemoOpensAccount == \A c \in Call \ Registrar : client[c] = "returned" => user.password = Demo

\* However seeds overlap, fail with their commit in flight and are run again, no sample task
\* is there twice (README: seeding is idempotent).
SeedTitlesOnce == \A t \in Title : tasks[t] <= 1

\* What the caller of run was told, and which seeds have made their plan.
Told(c)  == IF client[c] \notin Ended THEN "nothing"
            ELSE IF client[c] = "refused" /\ step[c] = "duplicate" THEN "taken" ELSE client[c]
Planned  == {c \in Call \ Registrar : step[c] = "done"}

Atomic == INSTANCE AtomicAccounts WITH
  looked  <- Planned,
  missing <- [c \in Call |-> draft[c].titles],
  done    <- {c \in Call : txn[c] = "committed"},
  told    <- [c \in Call |-> Told(c)]

\* Each registration and each seed takes effect at one instant, as if it were alone, or never;
\* nothing that its caller was told is ever belied, although its statements interleave with
\* those of others and its commit may land after the runner gave up on it.
TakesEffectAtOnce == Atomic!Spec

\* Every transaction that was opened settles, and with it the wait of those behind it.
EverySettles == \A c \in Call :
  txn[c] = "open" ~> ~Unsettled(c) /\ client[c] \in Ended
=============================================================================
