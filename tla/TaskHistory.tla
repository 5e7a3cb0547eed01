----------------------------- MODULE TaskHistory ----------------------------
(***************************************************************************)
(* Tasks with a history: which of the edits and toggles under way others   *)
(* have overtaken.  Nothing reads the history but the property below.      *)
(***************************************************************************)
EXTENDS Tasks

VARIABLE late  \* requests under way that somebody has overtaken

history == <<vars, late>>

\* The column a request is about: it asks for another state of the row, or for a text.
Own(q) == IF request[q].want.done # request[q].seen.done THEN "done" ELSE "text"

\* What a request makes of a row that nobody else writes meanwhile.
Applied(q, r) == IF Own(q) = "done" THEN [r EXCEPT !.done = ~@]
                                    ELSE [r EXCEPT !.text = request[q].want.text]

\* The step overtakes the request: it changes the row between the two reads, or after the
\* second the column the request is about.
Overtakes(q) == LET t == request[q].task IN
  \/ request[q].pc = "read"   /\ row'[t] # row[t]
  \/ request[q].pc = "reread" /\ row'[t][Own(q)] # row[t][Own(q)]

HistoryInit == Init /\ late = {}
HistoryNext == /\ Next
               /\ late' = {q \in Request : request'[q].pc # "idle" /\ (q \in late \/ Overtakes(q))}
HistorySpec == HistoryInit /\ [][HistoryNext]_history
-----------------------------------------------------------------------------
\* An edit or a toggle that nobody has overtaken acts on the row as it is when it is written, as
\* if it read and wrote at once: a toggle turns over what is there, no toggle is lost, and what
\* others wrote to the other columns after the second read stays.
AtomicUnlessLate ==
  [][\A q \in Request : LET t == request[q].task IN
       Flush(q) /\ life[t] = "present" /\ q \notin late => row'[t] = Applied(q, row[t])]_history
=============================================================================
