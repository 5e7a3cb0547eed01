---------------------------- MODULE TasksProofs ----------------------------
(***************************************************************************)
(* Proofs of the safety properties of Tasks and of its history, for any    *)
(* tasks, texts and requests under way.                                    *)
(***************************************************************************)
EXTENDS TaskHistory, TLAPS

\* A row that is not there yet has no stamp; a task shows a stamp if it has one and it was not
\* undone; a second stamp needs that.
Stamped == \A t \in Task :
  /\ life[t] = "absent" => stamps[t] = 0
  /\ row[t].processed => stamps[t] > 0
  /\ stamps[t] > 0 => row[t].processed \/ t \in undone
  /\ stamps[t] > 1 => t \in undone

\* What a request makes of a task keeps the stamp as it was read.
Wanted == \A q \in Request : request[q].pc # "idle" =>
  /\ request[q].want.processed <=> request[q].seen.processed
  /\ request[q].want.processed => stamps[request[q].task] > 0
  /\ life[request[q].task] # "absent"

IInv == TypeOK /\ Stamped /\ Wanted
-----------------------------------------------------------------------------
\* A blank row and a request at rest are well typed.
LEMMA BlankIsTyped == /\ Blank \in Columns /\ ~Blank.processed
                      /\ Rest \in Editing /\ Rest.pc = "idle"
  <1>1. (CHOOSE x \in Text : TRUE) \in Text /\ (CHOOSE t \in Task : TRUE) \in Task
        BY NonEmptyAssumption
  <1>2. Blank \in Columns /\ ~Blank.processed BY <1>1 DEF Blank, Columns
  <1> QED BY <1>1, <1>2 DEF Rest, Editing

\* Initially there is no task.
LEMMA InitIInv == Init => IInv
  <1> SUFFICES ASSUME Init PROVE IInv OBVIOUS
  <1>1. TypeOK BY BlankIsTyped DEF Init, TypeOK
  <1>2. \A t \in Task : row[t] = Blank BY DEF Init
  <1>6. \A t \in Task : stamps[t] = 0 BY DEF Init
  <1>3. \A q \in Request : request[q] = Rest BY DEF Init
  <1>4. Stamped
    <2>1. \A t \in Task : ~row[t].processed BY <1>2, BlankIsTyped, Zenon
    <2>2. ASSUME NEW t \in Task PROVE ~(stamps[t] > 0) /\ ~(stamps[t] > 1)
      <3>1. stamps[t] = 0 BY <1>6
      <3> QED BY <3>1
    <2> QED BY <1>6, <2>1, <2>2, Zenon DEF Stamped
  <1>5. Wanted BY <1>3, BlankIsTyped DEF Wanted
  <1> QED BY <1>1, <1>4, <1>5 DEF IInv

\* A request that begins, goes on or is over, and writes nothing.
LEMMA RequestKeeps ==
  ASSUME IInv, NEW q \in Request, NEW f \in Editing, request' = [request EXCEPT ![q] = f],
         UNCHANGED <<life, row, stamps, undone>>,
         f.pc # "idle" => /\ f.want.processed <=> f.seen.processed
                          /\ f.want.processed => stamps[f.task] > 0
                          /\ life[f.task] # "absent"
  PROVE  IInv'
  <1>1. request'[q] = f /\ \A s \in Request \ {q} : request'[s] = request[s] BY DEF IInv, TypeOK
  <1>2. TypeOK' BY DEF IInv, TypeOK
  <1>3. Stamped' BY DEF IInv, Stamped
  <1>4. Wanted' BY <1>1 DEF IInv, Wanted
  <1> QED BY <1>2, <1>3, <1>4 DEF IInv

\* The first read.
LEMMA ReadKeeps ==
  ASSUME IInv, NEW q \in Request, NEW t \in Task, NEW want \in Columns, ReadTask(q, t, want),
         want.processed <=> row[t].processed
  PROVE  IInv'
  <1> DEFINE f == [Rest EXCEPT !.pc = "read", !.task = t, !.seen = row[t], !.want = want]
  <1>1. row[t] \in Columns BY DEF IInv, TypeOK
  <1>2. f \in Editing /\ f.seen = row[t] /\ f.want = want /\ f.task = t
        BY <1>1, BlankIsTyped DEF Editing
  <1>3. request' = [request EXCEPT ![q] = f] /\ life[t] # "absent"
        /\ UNCHANGED <<life, row, stamps, undone>>
        BY DEF ReadTask
  <1> HIDE DEF f
  <1>4. f.want.processed <=> f.seen.processed BY <1>2, Zenon
  <1>5. f.want.processed => stamps[f.task] > 0 BY <1>2, Zenon DEF IInv, Stamped
  <1> QED BY <1>2, <1>3, <1>4, <1>5, RequestKeeps

\* An edit or a toggle changes one column, which is not the stamp.
LEMMA EditKeeps ==
  ASSUME IInv, NEW q \in Request, NEW t \in Task, UpdateTask(q, t) \/ ToggleTask(q, t)
  PROVE  IInv'
  <1>1. row[t] \in Columns BY DEF IInv, TypeOK
  <1>2. ASSUME NEW x \in Text, ReadTask(q, t, [row[t] EXCEPT !.text = x]) PROVE IInv'
    <2>1. [row[t] EXCEPT !.text = x] \in Columns BY <1>1 DEF Columns
    <2>2. [row[t] EXCEPT !.text = x].processed = row[t].processed BY <1>1 DEF Columns
    <2> QED BY <1>2, <2>1, <2>2, ReadKeeps
  <1>3. ASSUME ReadTask(q, t, [row[t] EXCEPT !.done = ~@]) PROVE IInv'
    <2>1. [row[t] EXCEPT !.done = ~@] \in Columns BY <1>1 DEF Columns
    <2>2. [row[t] EXCEPT !.done = ~@].processed = row[t].processed BY <1>1 DEF Columns
    <2> QED BY <1>3, <2>1, <2>2, ReadKeeps
  <1> QED BY <1>2, <1>3 DEF UpdateTask, ToggleTask

\* A request that is over.
LEMMA CloseKeeps ==
  ASSUME IInv, NEW q \in Request, Close(q), UNCHANGED <<life, row, stamps, undone>>
  PROVE  IInv'
  BY BlankIsTyped, RequestKeeps DEF Close

\* The second read.
LEMMA RereadKeeps ==
  ASSUME IInv, NEW q \in Request, Reread(q)
  PROVE  IInv'
  <1> DEFINE t == request[q].task
             f == [request[q] EXCEPT !.pc = "reread", !.fresh = row[t]]
  <1>1. request[q] \in Editing /\ t \in Task /\ row[t] \in Columns BY DEF IInv, TypeOK, Editing
  <1>2. UNCHANGED <<life, row, stamps, undone>> BY DEF Reread
  <1>3. CASE Close(q) BY <1>2, <1>3, CloseKeeps
  <1>4. CASE request' = [request EXCEPT ![q].pc = "reread", ![q].fresh = row[t]]
    <2>1. request' = [request EXCEPT ![q] = f] BY <1>1, <1>4 DEF IInv, TypeOK
    <2>2. f \in Editing /\ f.want = request[q].want /\ f.seen = request[q].seen
          /\ f.task = t
          BY <1>1 DEF Editing
    <2> HIDE DEF f
    <2>3. /\ request[q].want.processed <=> request[q].seen.processed
          /\ request[q].want.processed => stamps[t] > 0
          /\ life[t] # "absent"
          BY DEF Reread, IInv, Wanted
    <2>4. /\ f.want.processed <=> f.seen.processed
          /\ f.want.processed => stamps[f.task] > 0
          BY <2>2, <2>3, Zenon
    <2> QED BY <1>2, <2>1, <2>2, <2>3, <2>4, RequestKeeps
  <1> QED BY <1>3, <1>4 DEF Reread

\* What a flush makes of the row: each column is what was wanted, or what it was.
LEMMA FlushWrites ==
  ASSUME IInv, NEW q \in Request, Flush(q), life[request[q].task] = "present"
  PROVE  /\ row' = [row EXCEPT ![request[q].task] =
                     [c \in Column |-> IF Sent(q, c) THEN request[q].want[c]
                                                    ELSE row[request[q].task][c]]]
         /\ row'[request[q].task] \in Columns
         /\ row'[request[q].task].processed = IF Sent(q, "processed") THEN request[q].want.processed
                                              ELSE row[request[q].task].processed
  <1> DEFINE t == request[q].task
             new == [c \in Column |-> IF Sent(q, c) THEN request[q].want[c] ELSE row[t][c]]
  <1>1. t \in Task /\ request[q].want \in Columns /\ row[t] \in Columns
        BY DEF IInv, TypeOK, Editing
  <1>2. row' = [row EXCEPT ![t] = new] BY DEF Flush
  <1>3. new \in Columns
    <2>1. new = [text |-> new["text"], done |-> new["done"], processed |-> new["processed"]]
          BY DEF Column
    <2>2. new["text"] = (IF Sent(q, "text") THEN request[q].want.text ELSE row[t].text)
          BY DEF Column
    <2>3. new["done"] = (IF Sent(q, "done") THEN request[q].want.done ELSE row[t].done)
          BY DEF Column
    <2>4. new["processed"] = (IF Sent(q, "processed") THEN request[q].want.processed
                              ELSE row[t].processed)
          BY DEF Column
    <2>5. /\ request[q].want.text \in Text /\ row[t].text \in Text
          /\ request[q].want.done \in BOOLEAN /\ row[t].done \in BOOLEAN
          /\ request[q].want.processed \in BOOLEAN /\ row[t].processed \in BOOLEAN
          BY <1>1 DEF Columns
    <2>6. new["text"] \in Text BY <2>2, <2>5
    <2>7. new["done"] \in BOOLEAN BY <2>3, <2>5, Zenon
    <2>8. new["processed"] \in BOOLEAN BY <2>4, <2>5, Zenon
    <2> HIDE DEF new
    <2> QED BY <2>1, <2>6, <2>7, <2>8, Zenon DEF Columns
  <1>4. row'[t] = new BY <1>1, <1>2 DEF IInv, TypeOK
  <1>5. new.processed = IF Sent(q, "processed") THEN request[q].want.processed
                        ELSE row[t].processed
        BY DEF Column
  <1> QED BY <1>2, <1>3, <1>4, <1>5

\* The UPDATE of a request takes a stamp back only where undone remembers it.
LEMMA FlushKeeps ==
  ASSUME IInv, NEW q \in Request, Flush(q)
  PROVE  IInv'
  <1> DEFINE t == request[q].task
  <1>1. t \in Task /\ Close(q) /\ life' = life /\ stamps' = stamps
        BY DEF IInv, TypeOK, Editing, Flush
  <1>2. CASE life[t] = "present"
    <2>1. row' = [row EXCEPT ![t] = row'[t]] /\ row'[t] \in Columns
          BY <1>1, <1>2, FlushWrites DEF IInv, TypeOK
    <2>2. undone' = IF row[t].processed /\ ~row'[t].processed THEN undone \cup {t} ELSE undone
          BY <1>2 DEF Flush
    <2>3. TypeOK'
      <3>1. request' \in [Request -> Editing] BY <1>1, BlankIsTyped DEF IInv, TypeOK, Close
      <3>2. row' \in [Task -> Columns] BY <2>1 DEF IInv, TypeOK
      <3>3. undone' \subseteq Task BY <1>1, <2>2 DEF IInv, TypeOK
      <3> QED BY <1>1, <3>1, <3>2, <3>3 DEF IInv, TypeOK
    <2>4. \A s \in Task \ {t} : row'[s] = row[s] BY <2>1 DEF IInv, TypeOK
    <2>5. undone \subseteq undone' /\ (row[t].processed => row'[t].processed \/ t \in undone')
          BY <2>2, Zenon
    <2>6. Stamped'
      <3> SUFFICES ASSUME NEW s \in Task
                   PROVE  /\ life[s] = "absent" => stamps[s] = 0
                          /\ row'[s].processed => stamps[s] > 0
                          /\ stamps[s] > 0 => row'[s].processed \/ s \in undone'
                          /\ stamps[s] > 1 => s \in undone'
          BY <1>1 DEF Stamped
      <3>1. /\ life[s] = "absent" => stamps[s] = 0
            /\ row[s].processed => stamps[s] > 0
            /\ stamps[s] > 0 => row[s].processed \/ s \in undone
            /\ stamps[s] > 1 => s \in undone
            BY DEF IInv, Stamped
      <3>2. CASE s = t
        <4>1. row'[t].processed => request[q].want.processed \/ row[t].processed
              BY <1>2, FlushWrites, Zenon
        <4>2. request[q].want.processed => stamps[t] > 0 BY DEF Flush, IInv, Wanted
        <4> QED BY <1>2, <2>5, <3>1, <3>2, <4>1, <4>2, Zenon
      <3>3. CASE s # t BY <2>4, <2>5, <3>1, <3>3, Zenon
      <3> QED BY <3>2, <3>3
    <2>7. Wanted' BY <1>1, BlankIsTyped DEF IInv, TypeOK, Wanted, Close
    <2> QED BY <2>3, <2>6, <2>7 DEF IInv
  <1>3. CASE life[t] # "present"
    <2>1. UNCHANGED <<life, row, stamps, undone>> BY <1>3 DEF Flush
    <2> QED BY <1>1, <2>1, CloseKeeps
  <1> QED BY <1>2, <1>3

\* The worker's transaction.
LEMMA MarkKeeps ==
  ASSUME IInv, NEW t \in Task, MarkBackgroundProcessed(t)
  PROVE  IInv'
  <1>1. life' = life /\ request' = request /\ undone' = undone BY DEF MarkBackgroundProcessed
  <1>2. CASE Unprocessed(t)
    <2>1. /\ row' = [row EXCEPT ![t].processed = TRUE]
          /\ stamps' = [stamps EXCEPT ![t] = IF stamps[t] = 2 THEN 2 ELSE stamps[t] + 1]
          /\ life[t] = "present" /\ ~row[t].processed
          BY <1>2 DEF MarkBackgroundProcessed, Unprocessed
    <2>2. row[t] \in Columns /\ stamps[t] \in 0 .. 2 BY DEF IInv, TypeOK
    <2>3. [row[t] EXCEPT !.processed = TRUE] \in Columns BY <2>2 DEF Columns
    <2>4. TypeOK' BY <1>1, <2>1, <2>2, <2>3 DEF IInv, TypeOK
    <2>5. row'[t].processed BY <2>1, <2>2 DEF IInv, TypeOK, Columns
    <2>6. \A s \in Task \ {t} : row'[s] = row[s] /\ stamps'[s] = stamps[s]
          BY <2>1 DEF IInv, TypeOK
    <2>7. stamps'[t] > 1 => stamps[t] > 0
          BY <2>1, <2>2 DEF IInv, TypeOK
    <2>8. stamps[t] > 0 => t \in undone BY <2>1, Zenon DEF IInv, Stamped
    <2>11. stamps'[t] > 0 /\ \A s \in Task : stamps[s] > 0 => stamps'[s] > 0
          BY <2>1, <2>2, <2>6 DEF IInv, TypeOK
    <2>9. Stamped'
      <3> SUFFICES ASSUME NEW s \in Task
                   PROVE  /\ life[s] = "absent" => stamps'[s] = 0
                          /\ row'[s].processed => stamps'[s] > 0
                          /\ stamps'[s] > 0 => row'[s].processed \/ s \in undone
                          /\ stamps'[s] > 1 => s \in undone
          BY <1>1 DEF Stamped
      <3>1. CASE s = t
        <4>1. life[s] # "absent" BY <2>1, <3>1
        <4> QED BY <2>5, <2>7, <2>8, <2>11, <3>1, <4>1, Zenon
      <3>2. CASE s # t
        <4>1. row'[s] = row[s] /\ stamps'[s] = stamps[s] BY <2>6, <3>2
        <4> QED BY <4>1, Zenon DEF IInv, Stamped
      <3> QED BY <3>1, <3>2
    <2>12. \A q \in Request : request[q].task \in Task BY DEF IInv, TypeOK, Editing
    <2>10. Wanted' BY <1>1, <2>11, <2>12, Zenon DEF IInv, Wanted
    <2> QED BY <2>4, <2>9, <2>10 DEF IInv
  <1>3. CASE ~Unprocessed(t)
    <2>1. UNCHANGED vars BY <1>1, <1>3 DEF MarkBackgroundProcessed, vars
    <2> QED BY <2>1 DEF vars, IInv, TypeOK, Stamped, Wanted
  <1> QED BY <1>2, <1>3

\* A task comes into being, with no stamp.
LEMMA CreateKeeps ==
  ASSUME IInv, NEW t \in Task, CreateTask(t)
  PROVE  IInv'
  <1>1. PICK x \in Text : row' = [row EXCEPT ![t] = [Blank EXCEPT !.text = x]] BY DEF CreateTask
  <1>2. /\ life[t] = "absent" /\ life' = [life EXCEPT ![t] = "present"]
        /\ request' = request /\ stamps' = stamps /\ undone' = undone
        BY DEF CreateTask
  <1>3. [Blank EXCEPT !.text = x] \in Columns /\ ~[Blank EXCEPT !.text = x].processed
        BY BlankIsTyped DEF Columns, Blank
  <1>4. TypeOK' BY <1>1, <1>2, <1>3 DEF IInv, TypeOK
  <1>5. stamps[t] = 0 BY <1>2 DEF IInv, Stamped
  <1>6. life'[t] = "present" BY <1>2 DEF IInv, TypeOK
  <1>7. \A s \in Task \ {t} : row'[s] = row[s] /\ life'[s] = life[s] BY <1>1, <1>2 DEF IInv, TypeOK
  <1>8. Stamped'
    <2> SUFFICES ASSUME NEW s \in Task
                 PROVE  /\ life'[s] = "absent" => stamps[s] = 0
                        /\ row'[s].processed => stamps[s] > 0
                        /\ stamps[s] > 0 => row'[s].processed \/ s \in undone
                        /\ stamps[s] > 1 => s \in undone
        BY <1>2 DEF Stamped
    <2>1. CASE s = t
      <3>1. ~row'[t].processed BY <1>1, <1>3 DEF IInv, TypeOK
      <3> QED BY <1>5, <1>6, <2>1, <3>1
    <2>2. CASE s # t
      <3>1. row'[s] = row[s] /\ life'[s] = life[s] BY <1>7, <2>2
      <3> QED BY <3>1, Zenon DEF IInv, Stamped
    <2> QED BY <2>1, <2>2
  <1>9. Wanted'
    <2>1. \A s \in Task : life[s] # "absent" => life'[s] # "absent" BY <1>6, <1>7
    <2>2. \A q \in Request : request[q].task \in Task BY DEF IInv, TypeOK, Editing
    <2> QED BY <1>2, <2>1, <2>2, Zenon DEF IInv, Wanted
  <1> QED BY <1>4, <1>8, <1>9 DEF IInv

\* A task goes, and stays gone.
LEMMA DeleteKeeps ==
  ASSUME IInv, NEW t \in Task, DeleteTask(t)
  PROVE  IInv'
  <1>1. /\ life[t] = "present" /\ life' = [life EXCEPT ![t] = "deleted"]
        /\ UNCHANGED <<row, request, stamps, undone>>
        BY DEF DeleteTask
  <1>2. TypeOK' BY <1>1 DEF IInv, TypeOK
  <1>3. \A s \in Task : life'[s] = "absent" <=> life[s] = "absent" BY <1>1 DEF IInv, TypeOK
  <1>4. Stamped' BY <1>1, <1>3, Zenon DEF IInv, Stamped
  <1>5. \A q \in Request : request[q].task \in Task BY DEF IInv, TypeOK, Editing
  <1>6. Wanted' BY <1>1, <1>3, <1>5, Zenon DEF IInv, Wanted
  <1> QED BY <1>2, <1>4, <1>6 DEF IInv

\* The invariant is inductive.
LEMMA NextKeeps == IInv /\ [Next]_vars => IInv'
  <1> SUFFICES ASSUME IInv, [Next]_vars PROVE IInv' OBVIOUS
  <1>1. CASE UNCHANGED vars BY <1>1 DEF vars, IInv, TypeOK, Stamped, Wanted
  <1>2. CASE Next
    <2>1. ASSUME NEW q \in Request, Abandon(q) PROVE IInv' BY <2>1, CloseKeeps DEF Abandon
    <2> QED BY <1>2, <2>1, CreateKeeps, DeleteKeeps, MarkKeeps, EditKeeps, RereadKeeps, FlushKeeps
            DEF Next, RequestStep
  <1> QED BY <1>1, <1>2

LEMMA Inductive == Spec => []IInv
  BY InitIInv, NextKeeps, PTL DEF Spec
-----------------------------------------------------------------------------
\* Every reachable state is well typed.
THEOREM TypeCorrect == Spec => []TypeOK
  <1>1. IInv => TypeOK BY DEF IInv
  <1> QED BY <1>1, Inductive, PTL

\* A stamp that every request on the task has seen is there for good.
THEOREM SettledStampsStay == Spec => SettledStampStays
  <1> DEFINE Stays == \A t \in Task :
        /\ row[t].processed
        /\ \A q \in Request : request[q].task = t /\ request[q].pc # "idle" =>
                                request[q].seen.processed
        => row'[t].processed
  <1>1. ASSUME IInv, [Next]_vars PROVE Stays
    <2> SUFFICES ASSUME NEW t \in Task, row[t].processed,
                        \A q \in Request : request[q].task = t /\ request[q].pc # "idle" =>
                                            request[q].seen.processed
                 PROVE  row'[t].processed
        OBVIOUS
    <2>1. CASE row' = row BY <2>1
    <2>2. ASSUME NEW s \in Task, CreateTask(s) PROVE row'[t].processed
      <3>1. s # t
        <4>1. life[s] = "absent" BY <2>2 DEF CreateTask
        <4>2. stamps[s] = 0 BY <1>1, <4>1 DEF IInv, Stamped
        <4>3. stamps[t] > 0 BY <1>1, Zenon DEF IInv, Stamped
        <4> QED BY <4>2, <4>3
      <3>2. row'[t] = row[t] BY <2>2, <3>1, <1>1 DEF CreateTask, IInv, TypeOK
      <3> QED BY <3>2
    <2>3. ASSUME NEW s \in Task, MarkBackgroundProcessed(s) PROVE row'[t].processed
      <3>1. CASE Unprocessed(s)
        <4>1. s # t BY <3>1 DEF Unprocessed
        <4>2. row'[t] = row[t]
              BY <2>3, <3>1, <4>1, <1>1 DEF MarkBackgroundProcessed, IInv, TypeOK
        <4> QED BY <4>2
      <3>2. CASE ~Unprocessed(s)
        <4>1. row' = row BY <2>3, <3>2 DEF MarkBackgroundProcessed
        <4> QED BY <4>1
      <3> QED BY <3>1, <3>2
    <2>4. ASSUME NEW q \in Request, Flush(q) PROVE row'[t].processed
      <3>1. CASE life[request[q].task] # "present"
        <4>1. row' = row BY <2>4, <3>1 DEF Flush
        <4> QED BY <4>1
      <3>2. CASE life[request[q].task] = "present" /\ request[q].task # t
        <4>1. row'[t] = row[t] BY <1>1, <2>4, <3>2, FlushWrites DEF IInv, TypeOK
        <4> QED BY <4>1
      <3>3. CASE life[request[q].task] = "present" /\ request[q].task = t
        <4>1. request[q].pc # "idle" BY <2>4 DEF Flush
        <4>2. request[q].seen.processed BY <3>3, <4>1
        <4>3. request[q].want.processed BY <1>1, <4>1, <4>2, Zenon DEF IInv, Wanted
        <4>4. row'[t].processed = IF Sent(q, "processed") THEN request[q].want.processed
                                  ELSE row[t].processed
              BY <1>1, <2>4, <3>3, FlushWrites
        <4>5. CASE Sent(q, "processed") BY <4>3, <4>4, <4>5, Zenon
        <4>6. CASE ~Sent(q, "processed") BY <4>4, <4>6, Zenon
        <4> QED BY <4>5, <4>6
      <3> QED BY <3>1, <3>2, <3>3
    <2>5. \/ row' = row
          \/ \E s \in Task : CreateTask(s) \/ MarkBackgroundProcessed(s)
          \/ \E q \in Request : Flush(q)
          BY <1>1 DEF Next, RequestStep, vars, DeleteTask, UpdateTask, ToggleTask, ReadTask, Reread,
                      Abandon
    <2> QED BY <2>1, <2>2, <2>3, <2>4, <2>5
  <1>2. IInv /\ [Next]_vars => [Stays]_vars BY <1>1
  <1> QED BY <1>2, Inductive, PTL DEF Spec, SettledStampStays
-----------------------------------------------------------------------------
(***************************************************************************)
(* The history.                                                            *)
(***************************************************************************)

\* A request under way asks for the state it read turned over, or with a text of its own.
Asked == \A q \in Request : request[q].pc # "idle" =>
  \/ request[q].want = [request[q].seen EXCEPT !.done = ~@]
  \/ request[q].want = [request[q].seen EXCEPT !.text = request[q].want.text]

\* One that nobody has overtaken sees the row as it is, and later as much of it as it needs.
Covered == \A q \in Request \ late : LET t == request[q].task IN
  /\ request[q].pc = "read" => row[t] = request[q].seen
  /\ request[q].pc = "reread" => /\ request[q].fresh = request[q].seen
                                 /\ row[t][Own(q)] = request[q].seen[Own(q)]

\* How a step moves a request: not at all, to its first read, to its second, or to its end.
LEMMA RequestMoves ==
  ASSUME IInv, Next, NEW q \in Request
  PROVE  \/ request'[q] = request[q]
         \/ \E t \in Task : UpdateTask(q, t) \/ ToggleTask(q, t)
         \/ Reread(q)
         \/ request'[q].pc = "idle"
  <1>1. ASSUME NEW t \in Task, CreateTask(t) \/ DeleteTask(t) \/ MarkBackgroundProcessed(t)
        PROVE  request' = request
        BY <1>1 DEF CreateTask, DeleteTask, MarkBackgroundProcessed
  <1>2. request \in [Request -> Editing] BY DEF IInv, TypeOK
  <1>3. ASSUME NEW s \in Request, NEW t \in Task, UpdateTask(s, t) \/ ToggleTask(s, t), s # q
        PROVE  request'[q] = request[q]
        BY <1>2, <1>3 DEF UpdateTask, ToggleTask, ReadTask
  <1>4. ASSUME NEW s \in Request, Reread(s) \/ Flush(s) \/ Abandon(s), s # q
        PROVE  request'[q] = request[q]
        BY <1>2, <1>4 DEF Reread, Flush, Abandon, Close
  <1>5. ASSUME Flush(q) \/ Abandon(q) PROVE request'[q].pc = "idle"
        BY <1>2, <1>5, BlankIsTyped DEF Flush, Abandon, Close
  <1> QED BY <1>1, <1>3, <1>4, <1>5 DEF Next, RequestStep

\* The first read, and what it makes the request ask for.
LEMMA FirstRead ==
  ASSUME IInv, NEW q \in Request, NEW t \in Task, UpdateTask(q, t) \/ ToggleTask(q, t)
  PROVE  LET f == request'[q] IN
         /\ f.pc = "read" /\ f.task = t /\ f.seen = row[t] /\ row' = row
         /\ \/ f.want = [f.seen EXCEPT !.done = ~@]
            \/ f.want = [f.seen EXCEPT !.text = f.want.text]
  <1>1. request \in [Request -> Editing] /\ row[t] \in Columns BY DEF IInv, TypeOK
  <1>2. ASSUME NEW want, ReadTask(q, t, want)
        PROVE  /\ request'[q].pc = "read" /\ request'[q].task = t
               /\ request'[q].seen = row[t] /\ request'[q].want = want /\ row' = row
        BY <1>1, <1>2, BlankIsTyped DEF ReadTask, Editing
  <1>3. CASE ToggleTask(q, t) BY <1>2, <1>3 DEF ToggleTask
  <1>4. CASE UpdateTask(q, t)
    <2>1. PICK x \in Text : ReadTask(q, t, [row[t] EXCEPT !.text = x]) BY <1>4 DEF UpdateTask
    <2>2. [row[t] EXCEPT !.text = x].text = x BY <1>1 DEF Columns
    <2> QED BY <1>2, <2>1, <2>2
  <1> QED BY <1>3, <1>4

LEMMA AskedNext ==
  ASSUME IInv, Asked, Next
  PROVE  Asked'
  <1> SUFFICES ASSUME NEW q \in Request, request'[q].pc # "idle"
               PROVE  \/ request'[q].want = [request'[q].seen EXCEPT !.done = ~@]
                      \/ request'[q].want = [request'[q].seen EXCEPT !.text = request'[q].want.text]
      BY DEF Asked
  <1>1. CASE request'[q] = request[q] BY <1>1 DEF Asked
  <1>2. CASE \E t \in Task : UpdateTask(q, t) \/ ToggleTask(q, t) BY <1>2, FirstRead
  <1>3. CASE Reread(q)
    <2>1. request[q] \in Editing /\ request[q].pc # "idle" BY <1>3 DEF Reread, IInv, TypeOK
    <2>2. request' = [request EXCEPT ![q].pc = "reread", ![q].fresh = row[request[q].task]]
          BY <1>3, BlankIsTyped DEF Reread, Close, IInv, TypeOK
    <2>3. request'[q].want = request[q].want /\ request'[q].seen = request[q].seen
          BY <2>1, <2>2 DEF IInv, TypeOK, Editing
    <2> QED BY <2>1, <2>3 DEF Asked
  <1> QED BY <1>1, <1>2, <1>3, RequestMoves

LEMMA CoveredNext ==
  ASSUME IInv, Covered, HistoryNext
  PROVE  Covered'
  <1> SUFFICES ASSUME NEW q \in Request, q \notin late', request'[q].pc # "idle"
               PROVE  LET t == request'[q].task IN
                      /\ request'[q].pc = "read" => row'[t] = request'[q].seen
                      /\ request'[q].pc = "reread" =>
                           /\ request'[q].fresh = request'[q].seen
                           /\ row'[t][Own(q)'] = request'[q].seen[Own(q)']
      BY DEF Covered
  <1>1. q \notin late /\ ~Overtakes(q) BY DEF HistoryNext
  <1>2. CASE request'[q] = request[q]
    <2>1. Own(q)' = Own(q) BY <1>2 DEF Own
    <2> QED BY <1>1, <1>2, <2>1 DEF Covered, Overtakes
  <1>3. CASE \E t \in Task : UpdateTask(q, t) \/ ToggleTask(q, t) BY <1>3, FirstRead
  <1>4. CASE Reread(q)
    <2> DEFINE t == request[q].task
    <2>1. request[q] \in Editing /\ request[q].pc = "read" /\ row' = row
          BY <1>4 DEF Reread, IInv, TypeOK
    <2>2. row[t] = request[q].seen BY <1>1, <2>1 DEF Covered
    <2>3. request' = [request EXCEPT ![q].pc = "reread", ![q].fresh = row[t]]
          BY <1>4, BlankIsTyped DEF Reread, Close, IInv, TypeOK
    <2>4. /\ request'[q].pc = "reread" /\ request'[q].fresh = row[t]
          /\ request'[q].seen = request[q].seen /\ request'[q].task = t
          BY <2>1, <2>3 DEF IInv, TypeOK, Editing
    <2> QED BY <2>1, <2>2, <2>4
  <1> QED BY <1>2, <1>3, <1>4, RequestMoves DEF HistoryNext

\* What the flush of a request that nobody has overtaken makes of the row.
LEMMA FlushApplies ==
  ASSUME IInv, Asked, Covered, NEW q \in Request \ late, Flush(q),
         life[request[q].task] = "present"
  PROVE  row'[request[q].task] = Applied(q, row[request[q].task])
  <1> DEFINE t == request[q].task
             r == row[t]
             seen == request[q].seen
             want == request[q].want
             new == [c \in Column |-> IF Sent(q, c) THEN want[c] ELSE r[c]]
  <1>1. t \in Task /\ r \in Columns /\ seen \in Columns /\ want \in Columns
        BY DEF IInv, TypeOK, Editing
  <1>2. request[q].pc = "reread" BY DEF Flush
  <1>3. request[q].fresh = seen /\ r[Own(q)] = seen[Own(q)] BY <1>2 DEF Covered
  <1>4. row'[t] = new
    <2>1. row' = [row EXCEPT ![t] = new] BY FlushWrites
    <2> QED BY <1>1, <2>1 DEF IInv, TypeOK
  <1>5. new = [ text      |-> IF want.text # seen.text THEN want.text ELSE r.text,
                done      |-> IF want.done # seen.done THEN want.done ELSE r.done,
                processed |-> IF want.processed # seen.processed THEN want.processed
                              ELSE r.processed ]
        BY <1>3 DEF Sent, Column
  <1> HIDE DEF new, want, seen, r
  <1>6. want = [seen EXCEPT !.done = ~seen.done] \/ want = [seen EXCEPT !.text = want.text]
        BY <1>2 DEF Asked, want, seen
  <1>7. CASE want = [seen EXCEPT !.done = ~seen.done]
    <2>1. want.text = seen.text /\ want.processed = seen.processed /\ want.done = ~seen.done
          BY <1>1, <1>7 DEF Columns
    <2>2. want.done # seen.done BY <1>1, <2>1 DEF Columns
    <2>3. Own(q) = "done" BY <2>2 DEF Own, want, seen
    <2>4. want.done = ~r.done BY <1>3, <2>1, <2>3
    <2>5. new = [text |-> r.text, done |-> ~r.done, processed |-> r.processed]
          BY <1>5, <2>1, <2>2, <2>4
    <2>6. Applied(q, r) = [r EXCEPT !.done = ~r.done] BY <2>3 DEF Applied
    <2> QED BY <1>1, <1>4, <2>5, <2>6 DEF Columns, r
  <1>8. CASE want = [seen EXCEPT !.text = want.text]
    <2>1. want.done = seen.done /\ want.processed = seen.processed
          BY <1>1, <1>8 DEF Columns
    <2>2. Own(q) = "text" BY <2>1 DEF Own, want, seen
    <2>3. want.text = seen.text => r.text = want.text BY <1>3, <2>2
    <2>4. new = [text |-> want.text, done |-> r.done, processed |-> r.processed]
          BY <1>5, <2>1, <2>3
    <2>5. Applied(q, r) = [r EXCEPT !.text = want.text] BY <2>2 DEF Applied, want
    <2> QED BY <1>1, <1>4, <2>4, <2>5 DEF Columns, r
  <1> QED BY <1>6, <1>7, <1>8

\* An edit or a toggle (update_task and toggle_task, over the repository's two reads) that nobody
\* has overtaken acts as if it read and wrote at once, whatever others write to other columns.
THEOREM RequestsAreAtomicUnlessLate == HistorySpec => AtomicUnlessLate
  <1> DEFINE HInv == IInv /\ Asked /\ Covered
             Acts == \A q \in Request : LET t == request[q].task IN
               Flush(q) /\ life[t] = "present" /\ q \notin late => row'[t] = Applied(q, row[t])
  <1>1. HistoryInit => HInv
    <2> SUFFICES ASSUME HistoryInit PROVE HInv OBVIOUS
    <2>1. \A q \in Request : request[q].pc = "idle" BY BlankIsTyped DEF HistoryInit, Init
    <2> QED BY <2>1, InitIInv DEF HistoryInit, Asked, Covered
  <1>2. HInv /\ [HistoryNext]_history => HInv'
    <2> SUFFICES ASSUME HInv, [HistoryNext]_history PROVE HInv' OBVIOUS
    <2>1. CASE HistoryNext BY <2>1, NextKeeps, AskedNext, CoveredNext DEF HistoryNext
    <2>2. CASE UNCHANGED history
      <3>1. IInv' BY <2>2, NextKeeps DEF history
      <3>2. Asked' /\ Covered' BY <2>2 DEF history, vars, Asked, Covered, Own
      <3> QED BY <3>1, <3>2
    <2> QED BY <2>1, <2>2
  <1>3. HInv => [Acts]_history BY FlushApplies
  <1> QED BY <1>1, <1>2, <1>3, PTL DEF HistorySpec, AtomicUnlessLate
=============================================================================
