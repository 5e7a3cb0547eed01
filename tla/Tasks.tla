------------------------------- MODULE Tasks --------------------------------
(***************************************************************************)
(* The task rows: created, edited, toggled and deleted by requests, and    *)
(* stamped by the worker.                                                  *)
(*                                                                         *)
(* Editing takes three round trips of one READ COMMITTED transaction:      *)
(* get_owned reads the row and the new state is computed from that;        *)
(* update reads it again (the first object is gone from the session's      *)
(* weak identity map, so it is loaded afresh) and assigns every column;    *)
(* the flush sends the columns that differ from the second read.           *)
(***************************************************************************)
EXTENDS Naturals

CONSTANTS
  Task,     \* tasks
  Text,     \* what a title and a description may be
  Request   \* edits and toggles that may be under way together

ASSUME NonEmptyAssumption == Task # {} /\ Text # {}

VARIABLES
  life,     \* whether each task's row exists
  row,      \* its committed columns
  request,  \* where each edit or toggle stands
  stamps,   \* how many UPDATEs have stamped the task, counted up to 2
  undone    \* tasks whose stamp some request has written over

vars == <<life, row, request, stamps, undone>>

Column  == {"text", "done", "processed"}
Columns == [text : Text, done : BOOLEAN, processed : BOOLEAN]

\* `seen` is the first read, `want` the state computed from it, `fresh` the second read.
Editing == [ pc : {"idle", "read", "reread"}, task : Task,
             seen : Columns, want : Columns, fresh : Columns ]

TypeOK == /\ life \in [Task -> {"absent", "present", "deleted"}]
          /\ row \in [Task -> Columns]
          /\ request \in [Request -> Editing]
          /\ stamps \in [Task -> 0 .. 2]
          /\ undone \subseteq Task

Blank == [text |-> CHOOSE x \in Text : TRUE, done |-> FALSE, processed |-> FALSE]
Rest  == [ pc |-> "idle", task |-> CHOOSE t \in Task : TRUE,
           seen |-> Blank, want |-> Blank, fresh |-> Blank ]

Init == /\ life = [t \in Task |-> "absent"]
        /\ row = [t \in Task |-> Blank]
        /\ request = [q \in Request |-> Rest]
        /\ stamps = [t \in Task |-> 0]
        /\ undone = {}
-----------------------------------------------------------------------------
CreateTask(t) ==
  /\ life[t] = "absent"
  /\ life' = [life EXCEPT ![t] = "present"]
  /\ \E x \in Text : row' = [row EXCEPT ![t] = [Blank EXCEPT !.text = x]]
  /\ UNCHANGED <<request, stamps, undone>>

\* One DELETE ... RETURNING.
DeleteTask(t) == /\ life[t] = "present"
                 /\ life' = [life EXCEPT ![t] = "deleted"]
                 /\ UNCHANGED <<row, request, stamps, undone>>

\* get_owned of update_task and toggle_task, and the task they make of it.
ReadTask(q, t, want) ==
  /\ request[q].pc = "idle" /\ life[t] = "present"
  /\ request' = [request EXCEPT ![q] = [Rest EXCEPT !.pc = "read", !.task = t,
                                                    !.seen = row[t], !.want = want]]
  /\ UNCHANGED <<life, row, stamps, undone>>

\* Mutation: the edited task is built from the form alone.
UpdateTaskAnew(q, t) == \E x \in Text : ReadTask(q, t, [Blank EXCEPT !.text = x])

UpdateTask(q, t) == \E x \in Text : ReadTask(q, t, [row[t] EXCEPT !.text = x])

ToggleTask(q, t) == ReadTask(q, t, [row[t] EXCEPT !.done = ~@])

Close(q) == request' = [request EXCEPT ![q] = Rest]

\* The repository's update reads the row again, and raises if it is gone.
Reread(q) == LET t == request[q].task IN
  /\ request[q].pc = "read"
  /\ \/ /\ life[t] = "present"
        /\ request' = [request EXCEPT ![q].pc = "reread", ![q].fresh = row[t]]
     \/ life[t] # "present" /\ Close(q)
  /\ UNCHANGED <<life, row, stamps, undone>>

\* Mutation: every column is sent.
SentAll(q, c) == TRUE

\* The columns the flush sends: those that differ from the second read.
Sent(q, c) == request[q].want[c] # request[q].fresh[c]

\* The UPDATE and its commit; when the row is gone it matches nothing and the flush raises.
Flush(q) == LET t == request[q].task IN
  /\ request[q].pc = "reread"
  /\ IF life[t] = "present"
     THEN /\ row' = [row EXCEPT ![t] =
                       [c \in Column |-> IF Sent(q, c) THEN request[q].want[c] ELSE @[c]]]
          /\ undone' = IF row[t].processed /\ ~row'[t].processed THEN undone \cup {t}
                       ELSE undone
     ELSE UNCHANGED <<row, undone>>
  /\ Close(q)
  /\ UNCHANGED <<life, stamps>>

\* The request is cancelled or fails and its transaction rolls back.
Abandon(q) == request[q].pc # "idle" /\ Close(q) /\ UNCHANGED <<life, row, stamps, undone>>

\* Mutation: background_processed_at IS NULL is not tested.
UnprocessedAgain(t) == life[t] = "present"

\* WHERE of mark_background_processed.
Unprocessed(t) == life[t] = "present" /\ ~row[t].processed

\* The transaction of process_task_created; for a task already stamped or deleted it
\* changes nothing.
MarkBackgroundProcessed(t) ==
  /\ IF Unprocessed(t)
     THEN /\ row' = [row EXCEPT ![t].processed = TRUE]
          /\ stamps' = [stamps EXCEPT ![t] = IF @ = 2 THEN 2 ELSE @ + 1]
     ELSE UNCHANGED <<row, stamps>>
  /\ UNCHANGED <<life, request, undone>>

RequestStep == \/ \E q \in Request, t \in Task : UpdateTask(q, t) \/ ToggleTask(q, t)
               \/ \E q \in Request : Reread(q) \/ Flush(q) \/ Abandon(q)

\* The worker may run any number of times for a task, at any time after its creation.
Next == \/ \E t \in Task : CreateTask(t) \/ DeleteTask(t) \/ MarkBackgroundProcessed(t)
        \/ RequestStep

Spec == Init /\ [][Next]_vars
-----------------------------------------------------------------------------
(***************************************************************************)
(* Properties.                                                             *)
(***************************************************************************)

\* A stamp goes only to a request that began before it: with every request under way
\* having seen the task processed, or being about another, nothing takes it back.
SettledStampStays ==
  [][\A t \in Task :
       /\ row[t].processed
       /\ \A q \in Request : request[q].task = t /\ request[q].pc # "idle" =>
                               request[q].seen.processed
       => row'[t].processed]_vars
=============================================================================
