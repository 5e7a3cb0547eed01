--------------------------- MODULE AtomicAccounts ---------------------------
(***************************************************************************)
(* What the runner and the row of one email promise together: a            *)
(* registration or a seed takes effect at one instant or never, as if it   *)
(* were alone, and what its caller is told agrees with that, also when the *)
(* effect comes after the caller has given up.                             *)
(***************************************************************************)
EXTENDS Naturals

CONSTANTS Call, Registrar, Title, Demo, Nobody

VARIABLES
  user,    \* the row: the call that inserted it, and its password
  tasks,   \* sample tasks per title
  looked,  \* seeds that have looked which sample tasks are there
  missing, \* the titles each found missing
  done,    \* calls that took effect
  told     \* what the caller of each was told

vars == <<user, tasks, looked, missing, done, told>>

Init == /\ user = [owner |-> Nobody, password |-> Nobody]
        /\ tasks = [t \in Title |-> 0]
        /\ looked = {} /\ missing = [c \in Call |-> {}]
        /\ done = {} /\ told = [c \in Call |-> "nothing"]

\* A refusal is final; after "unknown" the effect may still come.
MayTakeEffect(c) == c \notin done /\ told[c] \notin {"refused", "taken"}

\* The first registration creates the account.
Register(c) ==
  /\ c \in Registrar /\ MayTakeEffect(c) /\ user.owner = Nobody
  /\ user' = [owner |-> c, password |-> c]
  /\ done' = done \cup {c}
  /\ UNCHANGED <<tasks, looked, missing, told>>

Look(c) ==
  /\ c \notin Registrar /\ MayTakeEffect(c) /\ c \notin looked
  /\ looked' = looked \cup {c}
  /\ missing' = [missing EXCEPT ![c] = {t \in Title : tasks[t] = 0}]
  /\ UNCHANGED <<user, tasks, done, told>>

\* A seed creates the account or makes its password the demo one, and adds what it found
\* missing: nobody has added it since.
Seed(c) ==
  /\ c \in looked /\ MayTakeEffect(c) /\ \A t \in missing[c] : tasks[t] = 0
  /\ user' = [owner |-> IF user.owner = Nobody THEN c ELSE user.owner, password |-> Demo]
  /\ tasks' = [t \in Title |-> IF t \in missing[c] THEN 1 ELSE tasks[t]]
  /\ done' = done \cup {c}
  /\ UNCHANGED <<looked, missing, told>>

\* Success is told of what took effect, a refusal of what did not, and "taken" of an account
\* that is there.
Tell(c, o) ==
  /\ told[c] = "nothing"
  /\ o = "returned" => c \in done
  /\ o \in {"refused", "taken"} => c \notin done
  /\ o = "taken" => user.owner # Nobody
  /\ told' = [told EXCEPT ![c] = o]
  /\ UNCHANGED <<user, tasks, looked, missing, done>>

DeleteTask(t) == /\ tasks[t] > 0 /\ tasks' = [tasks EXCEPT ![t] = tasks[t] - 1]
                 /\ UNCHANGED <<user, looked, missing, done, told>>

Next == \/ \E c \in Call : \/ Register(c) \/ Look(c) \/ Seed(c)
                           \/ \E o \in {"returned", "refused", "taken", "unknown"} : Tell(c, o)
        \/ \E t \in Title : DeleteTask(t)

Spec == Init /\ [][Next]_vars
=============================================================================
