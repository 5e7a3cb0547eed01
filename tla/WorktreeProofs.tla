--------------------------- MODULE WorktreeProofs ---------------------------
(***************************************************************************)
(* Proofs about the worktree, for any number of commands at a time, PIDs,  *)
(* blocks of ports and starts.                                             *)
(*                                                                         *)
(* The commands keep no lock.  What the record is worth rests on a command *)
(* having been the only one when it recorded a start (Solitude), on every  *)
(* payload that may still be written naming as much as the file does       *)
(* (InLoop), and on each loop over the processes forgetting only what is   *)
(* gone (Stage).                                                           *)
(*                                                                         *)
(* What is said of one command is an operator of its record and of the     *)
(* state it reads, so that a step of another is seen to leave it alone.    *)
(***************************************************************************)
EXTENDS Worktree, TLAPS

\* What the record has to name: what lives and was recorded as it should be.
Known == Live \ Astray

\* Commands whose payload may still be written, or must be empty by now.
Loaded(c) == \/ c.pc \in {"check", "spawn", "sign", "write", "poll", "signal", "await"}
             \/ c.doing = "down" /\ c.pc = "compose"

\* The starts a record or a payload r names have been given a PID.
Used(r, p) == \A n \in Name : r[n] # 0 => p[r[n]].pid \in Pid

\* Where a command stands in its loop over the processes, and what its payload says there.
Stage(c) ==
  /\ c.pc = "recall" => c.doing # "up"
  /\ c.pc \in {"spawn", "sign"} => c.mine[c.name] = 0
  /\ c.pc \in {"signal", "await"} => c.doing = "down" /\ c.mine[c.name] # 0
  /\ c.pc = "sign" => c.new # 0
  /\ c.pc = "write" => /\ c.then # "none"
                       /\ IF c.then = "poll" THEN c.mine[c.name] = c.new /\ c.new # 0
                          ELSE c.mine[c.name] = 0 /\ c.new = 0
  /\ c.pc \notin {"sign", "write"} => c.new = 0
  /\ c.new # 0 => c.doing = "up"
  /\ c.doing = "down" /\ Loaded(c) /\ c.name = "app" => c.mine["worker"] = 0
  /\ c.doing = "down" /\ c.pc = "compose" => c.name = "app" /\ c.mine["app"] = 0

\* A command on its way through the processes p, of which those in l live and those in k are
\* known: the start it watches is what it says, and its payload names all that is known.
InLoop(c, p, l, k) ==
  /\ Stage(c)
  /\ Used(c.mine, p) /\ (c.new # 0 => p[c.new].pid \in Pid)
  /\ c.new \in l => p[c.new].name = c.name /\ p[c.new].block = c.block
  /\ Loaded(c) => \A b \in k : c.mine[p[b].name] = b

\* It chooses ports, and writes them, only while nothing is known to run, and an up that has
\* been alone works with the block s of stack.env.
OnPorts(c, k, s) ==
  /\ c.pc \in {"allocate", "env"} => k = {}
  /\ c.pc = "env" => c.block \in Block
  /\ /\ c.alone /\ c.doing = "up"
     /\ c.pc \in {"compose", "load", "check", "spawn", "sign", "write", "poll"}
     => c.block = s /\ s # NoBlock

\* Where there is a block, or Compose is about to start, there is a stack.env (s) in the tree t.
\* What a clean has checked of the tree and the containers n stays so, as far as it can.
Checked(c, k, s, t, n) ==
  /\ t = "present" /\ (c.block # NoBlock \/ (c.doing = "up" /\ c.pc = "compose")) => s # NoBlock
  /\ c.doing = "clean" =>
       /\ c.pc \in {"containers", "remove"} => k = {}
       /\ c.alone /\ c.pc \in {"status", "record", "containers", "remove"} => t = "present"
       /\ c.alone /\ c.pc = "remove" => n = NoBlock
       /\ c.pc = "branch" => t # "present"

\* A PID that somebody else has while the command is about to signal it was taken meanwhile.
Excusable(c, o, p) ==
  c.pc \in {"signal", "await"} /\ o[p[c.mine[c.name]].pid] = Foreign => c.reused

\* A command that was alone so far is alone.
Solitude == \A i, j \in Command : i # j /\ Under(i) /\ command[i].alone => ~Under(j)

\* The file names all that is known; what is known runs on the block of stack.env.
Filed  == file # Torn => Used(file, proc) /\ \A b \in Known : file[proc[b].name] = b
Ported == \A b \in Known : proc[b].block = stack /\ stack # NoBlock
Boxed  == tree = "present" /\ containers # NoBlock => stack # NoBlock

IInv == /\ WorktreeTypeOK /\ Solitude /\ Filed /\ Ported /\ Boxed
        /\ \A i \in Command : /\ InLoop(command[i], proc, Live, Known)
                              /\ OnPorts(command[i], Known, stack)
                              /\ Checked(command[i], Known, stack, tree, containers)
                              /\ Excusable(command[i], os, proc)
-----------------------------------------------------------------------------
(***************************************************************************)
(* What any step does to the processes: a PID once given stays what the    *)
(* records name, and a process that lives on is what it was.               *)
(***************************************************************************)
Onward == /\ \A b \in Start : proc[b].pid \in Pid => proc'[b].pid = proc[b].pid
          /\ \A b \in Live' : proc[b].pid \in Pid => b \in Live /\ proc'[b] = proc[b]

\* The command is where it was, though it may no longer be alone, or be excused by now.
Alike(c, d) == /\ d.doing = c.doing /\ d.pc = c.pc /\ d.then = c.then /\ d.name = c.name
               /\ d.mine = c.mine /\ d.new = c.new /\ d.block = c.block
               /\ d.alone => c.alone
               /\ c.reused => d.reused

LEMMA KnownFacts == /\ Live \subseteq Start /\ Known \subseteq Live
                    /\ \A b \in Known : b \notin excused /\ \A i \in Command : command[i].new # b
  BY DEF Live, Known, Astray, Held

LEMMA ProgressFacts ==
  ASSUME NEW c \in Progress
  PROVE  /\ c.name \in Name /\ c.new \in 0 .. MaxStarts
         /\ c.mine \in Record /\ \A n \in Name : c.mine[n] \in 0 .. MaxStarts
         /\ c.block \in Block \cup {NoBlock} /\ c.alone \in BOOLEAN /\ c.reused \in BOOLEAN
  BY DEF Progress, Record

LEMMA UsedStays ==
  ASSUME Onward, NEW r \in Record, Used(r, proc)
  PROVE  Used(r, proc')
  BY SupervisorAssumption DEF Onward, Used, Record, Start

LEMMA LoopStays ==
  ASSUME WorktreeTypeOK, Onward, NEW c \in Progress, NEW d \in Progress, Alike(c, d),
         InLoop(c, proc, Live, Known), Loaded(c) => Known' \subseteq Known
  PROVE  InLoop(d, proc', Live', Known')
  <1>1. Stage(d) BY DEF InLoop, Stage, Alike, Loaded
  <1>2. Used(d.mine, proc') BY UsedStays, ProgressFacts DEF InLoop, Alike
  <1>3. c.new # 0 => c.new \in Start
        BY ProgressFacts, SupervisorAssumption DEF Start
  <1>4. d.new # 0 => proc'[d.new].pid \in Pid BY <1>3 DEF Onward, InLoop, Alike
  <1>5. ASSUME d.new \in Live'
        PROVE  proc'[d.new].name = d.name /\ proc'[d.new].block = d.block
    <2>1. Live' \subseteq Start BY DEF Live
    <2>2. d.new # 0 BY <1>5, <2>1, SupervisorAssumption DEF Start
    <2> QED BY <1>5, <2>2 DEF Onward, InLoop, Alike
  <1>6. ASSUME Loaded(d), NEW b \in Known' PROVE d.mine[proc'[b].name] = b
    <2>1. Loaded(c) BY <1>6 DEF Loaded, Alike
    <2>2. b \in Known BY <2>1
    <2>3. b \in Live /\ b \in Start /\ b \in Live' BY <2>2, KnownFacts DEF Known
    <2>4. proc[b].pid \in Pid BY <2>3 DEF Live, WorktreeTypeOK, TypeOK
    <2>5. proc'[b] = proc[b] BY <2>3, <2>4 DEF Onward
    <2> QED BY <2>1, <2>2, <2>5 DEF InLoop, Alike
  <1> QED BY <1>1, <1>2, <1>4, <1>5, <1>6 DEF InLoop

LEMMA PortsStay ==
  ASSUME NEW c \in Progress, NEW d \in Progress, Alike(c, d), OnPorts(c, Known, stack),
         c.pc # "idle" => Known' \subseteq Known,
         c.alone /\ c.pc # "idle" => stack' = stack
  PROVE  OnPorts(d, Known', stack')
  BY DEF OnPorts, Alike

LEMMA CheckedStays ==
  ASSUME NEW c \in Progress, NEW d \in Progress, Alike(c, d),
         Checked(c, Known, stack, tree, containers),
         c.pc # "idle" => Known' \subseteq Known,
         tree' = tree \/ tree' # "present",
         stack' = stack \/ stack' # NoBlock \/ tree' # "present",
         c.alone /\ c.pc # "idle" =>
           tree' = tree /\ (containers' = containers \/ containers' = NoBlock)
  PROVE  Checked(d, Known', stack', tree', containers')
  BY DEF Checked, Alike

LEMMA ExcusableStays ==
  ASSUME WorktreeTypeOK, Onward, NEW c \in Progress, NEW d \in Progress, Alike(c, d),
         Excusable(c, os, proc), Stage(c), Used(c.mine, proc),
         \A p \in Pid : os'[p] = Foreign => os[p] = Foreign
  PROVE  Excusable(d, os', proc')
  <1>1. CASE c.pc \in {"signal", "await"}
    <2>1. c.mine[c.name] # 0 /\ c.mine[c.name] \in Start
          BY <1>1, ProgressFacts, SupervisorAssumption DEF Stage, Start
    <2>2. proc[c.mine[c.name]].pid \in Pid BY <2>1, ProgressFacts DEF Used
    <2>3. proc'[c.mine[c.name]].pid = proc[c.mine[c.name]].pid BY <2>1, <2>2 DEF Onward
    <2> QED BY <2>2, <2>3 DEF Excusable, Alike
  <1>2. CASE c.pc \notin {"signal", "await"} BY <1>2 DEF Excusable, Alike
  <1> QED BY <1>1, <1>2
-----------------------------------------------------------------------------
(***************************************************************************)
(* A step of command i, which goes from c to d.                            *)
(***************************************************************************)

\* What is left to show of such a step once its effect is known: the other commands follow.
LEMMA StepKeeps ==
  ASSUME IInv, NEW i \in Command, NEW d \in Progress, Under(i), Set(i, d),
         WorktreeTypeOK', Onward,
         d.alone => command[i].alone \/ d.pc = "idle",
         \A p \in Pid : os'[p] = Foreign => os[p] = Foreign,
         command[i].alone \/ Known' \subseteq Known,
         tree' = tree \/ tree' # "present",
         stack' = stack \/ stack' # NoBlock \/ tree' # "present",
         Filed', Ported', Boxed',
         InLoop(d, proc', Live', Known'), OnPorts(d, Known', stack'),
         Checked(d, Known', stack', tree', containers'), Excusable(d, os', proc')
  PROVE  IInv'
  <1>1. /\ command \in [Command -> Progress] /\ command[i] \in Progress /\ command'[i] = d
        /\ \A j \in Command : j # i => command'[j] = command[j]
        BY DEF IInv, WorktreeTypeOK, TypeOK, Set
  <1>2. ASSUME NEW j \in Command, j # i, Under(j) PROVE ~command[i].alone /\ ~command[j].alone
        BY <1>2 DEF IInv, Solitude
  <1>3. Solitude'
    <2> SUFFICES ASSUME NEW j \in Command, NEW k \in Command, j # k, Under(j)', command'[j].alone
                 PROVE  ~Under(k)'
        BY DEF Solitude
    <2>1. CASE j = i BY <1>1, <1>2, <2>1 DEF Under
    <2>2. CASE j # i BY <1>1, <1>2, <2>2 DEF Under
    <2> QED BY <2>1, <2>2
  <1>4. ASSUME NEW j \in Command
        PROVE  /\ InLoop(command'[j], proc', Live', Known')
               /\ OnPorts(command'[j], Known', stack')
               /\ Checked(command'[j], Known', stack', tree', containers')
               /\ Excusable(command'[j], os', proc')
    <2>1. CASE j = i BY <1>1, <2>1
    <2>2. CASE j # i
      <3> DEFINE c == command[j]
      <3>1. /\ c \in Progress /\ command'[j] = c /\ Alike(c, c)
            /\ InLoop(c, proc, Live, Known) /\ OnPorts(c, Known, stack)
            /\ Checked(c, Known, stack, tree, containers) /\ Excusable(c, os, proc)
            /\ WorktreeTypeOK /\ Stage(c) /\ Used(c.mine, proc)
            BY <1>1, <2>2 DEF IInv, Alike, InLoop
      <3>2. c.pc # "idle" => Known' \subseteq Known /\ ~c.alone BY <1>2, <2>2 DEF Under
      <3>3. Loaded(c) => c.pc # "idle" BY DEF Loaded
      <3> HIDE DEF c
      <3>4. InLoop(c, proc', Live', Known') BY <3>1, <3>2, <3>3, LoopStays
      <3>5. OnPorts(c, Known', stack') BY <3>1, <3>2, PortsStay
      <3>6. Checked(c, Known', stack', tree', containers') BY <3>1, <3>2, CheckedStays
      <3>7. Excusable(c, os', proc') BY <3>1, ExcusableStays
      <3> QED BY <3>1, <3>4, <3>5, <3>6, <3>7
    <2> QED BY <2>1, <2>2
  <1> QED BY <1>3, <1>4 DEF IInv

\* What is known only shrinks, unless the command lets a start go that it has recorded.
LEMMA KnownShrinks ==
  ASSUME NEW i \in Command, NEW d, command' = [command EXCEPT ![i] = d], WorktreeTypeOK,
         \A b \in Live' : b \in Live \/ b = d.new,
         \A b \in Live' : b \in excused => b \in excused',
         command[i].new \in Live' => command[i].new \in excused' \/ d.new = command[i].new
  PROVE  Known' \subseteq Known
  <1>1. command'[i] = d /\ \A j \in Command : j # i => command'[j] = command[j]
        BY DEF WorktreeTypeOK, TypeOK
  <1>2. ASSUME NEW b \in Known' PROVE b \in Known
    <2>1. b \in Live' /\ b \notin excused' /\ \A j \in Command : command'[j].new # b
          BY <1>2 DEF Known, Astray, Held
    <2>2. b \in Live /\ b \notin excused BY <1>1, <2>1
    <2>3. \A j \in Command : command[j].new # b BY <1>1, <2>1
    <2> QED BY <2>2, <2>3 DEF Known, Astray, Held
  <1> QED BY <1>2

LEMMA Quiet ==
  ASSUME UNCHANGED <<os, proc>>
  PROVE  Onward /\ Live' = Live /\ \A p \in Pid : os'[p] = Foreign => os[p] = Foreign
  BY DEF Onward, Live

\* A step that leaves the processes, stack.env and the tree alone, with what is known before it.
LEMMA QuietKeeps ==
  ASSUME IInv, NEW i \in Command, NEW d \in Progress, Under(i), Set(i, d),
         UNCHANGED <<os, proc, stack, tree>>,
         file' \in Record \cup {Torn}, containers' \in Block \cup {NoBlock},
         excused \subseteq excused', excused' \subseteq Start,
         command[i].new \in Live => command[i].new \in excused' \/ d.new = command[i].new,
         d.alone => command[i].alone \/ d.pc = "idle",
         file' = file \/ file' = Torn \/ (Used(file', proc) /\ \A b \in Known : file'[proc[b].name] = b),
         containers' \in {containers, NoBlock} \/ stack # NoBlock \/ tree # "present",
         InLoop(d, proc, Live, Known), OnPorts(d, Known, stack),
         Checked(d, Known, stack, tree, containers'), Excusable(d, os, proc)
  PROVE  IInv'
  <1>1. Onward /\ Live' = Live /\ \A p \in Pid : os'[p] = Foreign => os[p] = Foreign BY Quiet
  <1>2. WorktreeTypeOK /\ Filed /\ Ported /\ Boxed BY DEF IInv
  <1>3. Known' \subseteq Known BY <1>1, <1>2, KnownShrinks DEF Set
  <1>4. WorktreeTypeOK' BY <1>2 DEF WorktreeTypeOK, TypeOK, Set
  <1>5. Filed' BY <1>2, <1>3 DEF Filed
  <1>6. Ported' BY <1>2, <1>3 DEF Ported
  <1>7. Boxed' BY <1>2 DEF Boxed
  <1>8. InLoop(d, proc', Live', Known') BY <1>1, <1>3 DEF InLoop
  <1>9. OnPorts(d, Known', stack') BY <1>3 DEF OnPorts
  <1>10. Checked(d, Known', stack', tree', containers') BY <1>3 DEF Checked
  <1>11. Excusable(d, os', proc') BY DEF Excusable
  <1> QED BY <1>1, <1>3, <1>4, <1>5, <1>6, <1>7, <1>8, <1>9, <1>10, <1>11, StepKeeps
-----------------------------------------------------------------------------
(***************************************************************************)
(* The records that commands go to.                                        *)
(***************************************************************************)
LEMMA RestGives ==
  /\ Rest \in Progress /\ Rest.pc = "idle" /\ Rest.doing = "none" /\ Rest.new = 0
  /\ Rest.mine = Nobody /\ Rest.block = NoBlock /\ Rest.then = "none" /\ Rest.name = "app"
  /\ Rest.alone = TRUE /\ Rest.reset = FALSE
  /\ ~Loaded(Rest)
  BY SupervisorAssumption DEF Rest, Progress, Nobody, Record, Name, Loaded

LEMMA NobodyIsUsed == Nobody \in Record /\ \A p : Used(Nobody, p)
  BY SupervisorAssumption DEF Nobody, Record, Name, Used

\* At rest a command claims nothing.
LEMMA RestIsFine ==
  ASSUME NEW p, NEW l, 0 \notin l, NEW k, NEW s, NEW t, NEW n, NEW o
  PROVE  /\ InLoop(Rest, p, l, k) /\ OnPorts(Rest, k, s) /\ Checked(Rest, k, s, t, n)
         /\ Excusable(Rest, o, p)
  <1>1. Stage(Rest) BY RestGives DEF Stage
  <1>2. InLoop(Rest, p, l, k) BY <1>1, RestGives, NobodyIsUsed DEF InLoop
  <1> QED BY <1>2, RestGives DEF OnPorts, Checked, Excusable

PCs == {"idle", "config", "allocate", "env", "compose", "recall", "load", "check", "spawn", "sign", "write",
        "poll", "ready", "signal", "await",
        "find", "status", "record", "containers", "remove", "branch"}

LEMMA ThosePCs ==
  /\ "allocate" \in PCs /\ "env" \in PCs /\ "compose" \in PCs /\ "load" \in PCs /\ "check" \in PCs
  /\ "spawn" \in PCs /\ "ready" \in PCs /\ "signal" \in PCs /\ "await" \in PCs /\ "poll" \in PCs
  /\ "status" \in PCs /\ "record" \in PCs /\ "containers" \in PCs /\ "remove" \in PCs
  /\ "branch" \in PCs
  BY DEF PCs

LEMMA GotoGives ==
  ASSUME NEW c \in Progress, NEW q \in PCs
  PROVE  LET d == [c EXCEPT !.pc = q] IN
         /\ d \in Progress /\ d.pc = q
         /\ d.doing = c.doing /\ d.reset = c.reset /\ d.then = c.then /\ d.name = c.name
         /\ d.mine = c.mine /\ d.new = c.new /\ d.block = c.block /\ d.alone = c.alone
         /\ d.reused = c.reused
  BY DEF Progress, PCs

\* What Save makes of a command.
Saved(c, b, then) == [c EXCEPT !.mine[c.name] = b, !.pc = "write", !.then = then]

Thens == {"spawn", "poll", "next", "fail"}

LEMMA ThoseThens == "spawn" \in Thens /\ "poll" \in Thens /\ "next" \in Thens /\ "fail" \in Thens
  BY DEF Thens

LEMMA SaveGives ==
  ASSUME NEW c \in Progress, NEW b \in 0 .. MaxStarts, NEW then \in Thens
  PROVE  LET d == Saved(c, b, then) IN
         /\ d \in Progress /\ d.pc = "write" /\ d.then = then
         /\ d.doing = c.doing /\ d.reset = c.reset /\ d.name = c.name
         /\ d.mine[c.name] = b /\ \A n \in Name : n # c.name => d.mine[n] = c.mine[n]
         /\ d.new = c.new /\ d.block = c.block /\ d.alone = c.alone /\ d.reused = c.reused
  BY DEF Saved, Thens, Progress, Record

ToWorker(c) == [c EXCEPT !.name = "worker", !.pc = "check"]
ToApp(c)    == [c EXCEPT !.name = "app", !.pc = "check"]
Cleared(c)  == [c EXCEPT !.new = 0, !.then = "none"]

LEMMA TurnGives ==
  ASSUME NEW c \in Progress
  PROVE  /\ LET d == ToWorker(c) IN
            /\ d \in Progress /\ d.name = "worker" /\ d.pc = "check" /\ d.doing = c.doing
            /\ d.reset = c.reset /\ d.mine = c.mine /\ d.block = c.block /\ d.alone = c.alone
            /\ d.new = c.new
         /\ LET d == ToApp(c) IN
            /\ d \in Progress /\ d.name = "app" /\ d.pc = "check" /\ d.doing = c.doing
            /\ d.reset = c.reset /\ d.mine = c.mine /\ d.block = c.block /\ d.alone = c.alone
            /\ d.new = c.new
  BY DEF ToWorker, ToApp, Progress, Name

LEMMA ClearedGives ==
  ASSUME NEW c \in Progress
  PROVE  LET e == Cleared(c) IN
         /\ e \in Progress /\ e.new = 0 /\ e.then = "none" /\ e.pc = c.pc /\ e.doing = c.doing
         /\ e.reset = c.reset /\ e.mine = c.mine /\ e.block = c.block /\ e.alone = c.alone
         /\ e.name = c.name /\ e.reused = c.reused
  <1> DEFINE e == Cleared(c)
             g == [c EXCEPT !.new = 0]
  <1>1. e = [g EXCEPT !.then = "none"] BY DEF Progress, Cleared
  <1>2. /\ g \in Progress /\ g.new = 0 /\ g.pc = c.pc /\ g.doing = c.doing
        /\ g.reset = c.reset /\ g.mine = c.mine /\ g.block = c.block /\ g.alone = c.alone
        /\ g.name = c.name /\ g.reused = c.reused
        BY SupervisorAssumption DEF Progress
  <1> HIDE DEF g, e
  <1>3. /\ e \in Progress /\ e.new = 0 /\ e.then = "none" /\ e.pc = c.pc /\ e.doing = c.doing
        /\ e.reset = c.reset /\ e.mine = c.mine /\ e.block = c.block /\ e.alone = c.alone
        /\ e.name = c.name /\ e.reused = c.reused
        BY <1>1, <1>2 DEF Progress
  <1> QED BY <1>3 DEF e

LEMMA ForgetGives ==
  ASSUME NEW c \in Progress, NEW e, e = [c EXCEPT !.reused = FALSE]
  PROVE  /\ e \in Progress /\ e.new = c.new /\ e.doing = c.doing /\ e.reset = c.reset
         /\ e.mine = c.mine /\ e.block = c.block /\ e.alone = c.alone /\ e.name = c.name
  BY DEF Progress

\* The next turn of a loop: the same command and payload, at the next name or behind the loop.
Turned(c, d) ==
  /\ d.doing = c.doing /\ d.reset = c.reset /\ d.mine = c.mine /\ d.block = c.block
  /\ d.alone = c.alone /\ d.new = 0
  /\ \/ d.pc = "check" /\ c.doing = "up" /\ d.name = "worker"
     \/ d.pc = "ready" /\ c.doing = "up"
     \/ d.pc = "check" /\ c.doing # "up" /\ d.name = "app" /\ c.name = "worker"
     \/ d.pc = "compose" /\ c.doing # "up" /\ d.name = "app" /\ c.name = "app"

LEMMA NextGives ==
  ASSUME NEW i \in Command, NEW c \in Progress, command[i] = c, NextProcess(i)
  PROVE  \E d \in Progress : Set(i, d) /\ Turned(c, d)
  <1> DEFINE e == Cleared(c)
             r == [c EXCEPT !.new = 0, !.then = "none", !.reused = FALSE]
  <1>1. r = [e EXCEPT !.reused = FALSE] BY DEF Progress, Cleared
  <1>2. /\ e \in Progress /\ e.new = 0 /\ e.doing = c.doing /\ e.reset = c.reset /\ e.mine = c.mine
        /\ e.block = c.block /\ e.alone = c.alone /\ e.name = c.name
        BY ClearedGives
  <1> HIDE DEF e
  <1>3. r = [c EXCEPT !.new = 0, !.then = "none", !.reused = FALSE] OBVIOUS
  <1> HIDE DEF r
  <1>5. /\ r \in Progress /\ r.new = 0 /\ r.doing = c.doing /\ r.reset = c.reset /\ r.mine = c.mine
        /\ r.block = c.block /\ r.alone = c.alone /\ r.name = c.name
        BY <1>1, <1>2, ForgetGives
  <1>6. Set(i, IF r.doing = "up"
               THEN IF r.name = "app" THEN [r EXCEPT !.name = "worker", !.pc = "check"]
                    ELSE [r EXCEPT !.pc = "ready"]
               ELSE IF r.name = "worker" THEN [r EXCEPT !.name = "app", !.pc = "check"]
                    ELSE [r EXCEPT !.pc = "compose"])
        BY <1>3 DEF NextProcess
  <1>7. "ready" \in PCs /\ "compose" \in PCs /\ "check" \in PCs /\ "app" \in Name /\ "worker" \in Name
        BY DEF PCs, Name
  <1>8. r.name \in {"app", "worker"} BY <1>5, ProgressFacts DEF Name
  <1>9. CASE r.doing = "up" /\ r.name = "app"
    <2> DEFINE d == ToWorker(r)
    <2>1. Set(i, d) BY <1>6, <1>9 DEF ToWorker
    <2>2. /\ d \in Progress /\ d.name = "worker" /\ d.pc = "check" /\ d.doing = r.doing
          /\ d.reset = r.reset /\ d.mine = r.mine /\ d.block = r.block /\ d.alone = r.alone
          /\ d.new = r.new
          BY <1>5, <1>7, TurnGives
    <2> HIDE DEF d
    <2>3. Turned(c, d) BY <1>5, <1>9, <2>2 DEF Turned
    <2> QED BY <2>1, <2>2, <2>3
  <1>10. CASE r.doing = "up" /\ r.name # "app"
    <2> DEFINE d == [r EXCEPT !.pc = "ready"]
    <2>1. Set(i, d) BY <1>6, <1>10
    <2>2. d \in Progress /\ Turned(c, d) BY <1>5, <1>7, <1>10, GotoGives DEF Turned
    <2> QED BY <2>1, <2>2
  <1>11. CASE r.doing # "up" /\ r.name = "worker"
    <2> DEFINE d == ToApp(r)
    <2>1. Set(i, d) BY <1>6, <1>11 DEF ToApp
    <2>2. /\ d \in Progress /\ d.name = "app" /\ d.pc = "check" /\ d.doing = r.doing
          /\ d.reset = r.reset /\ d.mine = r.mine /\ d.block = r.block /\ d.alone = r.alone
          /\ d.new = r.new
          BY <1>5, <1>7, TurnGives
    <2> HIDE DEF d
    <2>3. Turned(c, d) BY <1>5, <1>11, <2>2 DEF Turned
    <2> QED BY <2>1, <2>2, <2>3
  <1>12. CASE r.doing # "up" /\ r.name = "app"
    <2> DEFINE d == [r EXCEPT !.pc = "compose"]
    <2>1. Set(i, d) BY <1>6, <1>12
    <2>2. d \in Progress /\ Turned(c, d) BY <1>5, <1>7, <1>12, GotoGives DEF Turned
    <2> QED BY <2>1, <2>2
  <1> QED BY <1>8, <1>9, <1>10, <1>11, <1>12

\* The ports are loaded.
LEMMA ConfiguredGives ==
  ASSUME NEW i \in Command, command[i] \in Progress, NEW x \in Block, Configured(i, x)
  PROVE  LET c == command[i] IN \E d \in Progress :
         /\ Set(i, d)
         /\ d.doing = c.doing /\ d.mine = c.mine /\ d.new = c.new /\ d.name = c.name
         /\ d.then = c.then /\ d.alone = c.alone /\ d.block = x
         /\ d.pc = (IF c.doing = "up" THEN "compose" ELSE "recall")
  <1> DEFINE d == [command[i] EXCEPT !.block = x,
                                     !.pc = IF command[i].doing = "up" THEN "compose" ELSE "recall"]
  <1>1. Set(i, d) BY DEF Configured
  <1>2. d \in Progress /\ d.block = x BY DEF Progress
  <1>3. /\ d.doing = command[i].doing /\ d.mine = command[i].mine /\ d.new = command[i].new
        /\ d.name = command[i].name /\ d.then = command[i].then /\ d.alone = command[i].alone
        BY DEF Progress
  <1>4. d.pc = (IF command[i].doing = "up" THEN "compose" ELSE "recall") BY DEF Progress
  <1> QED BY <1>1, <1>2, <1>3, <1>4
-----------------------------------------------------------------------------
(***************************************************************************)
(* The steps of the commands, one lemma each.                              *)
(***************************************************************************)
LEMMA Standing ==
  ASSUME IInv, NEW i \in Command
  PROVE  /\ command[i] \in Progress /\ WorktreeTypeOK /\ Filed /\ Ported /\ Boxed
         /\ InLoop(command[i], proc, Live, Known) /\ OnPorts(command[i], Known, stack)
         /\ Checked(command[i], Known, stack, tree, containers)
         /\ Excusable(command[i], os, proc)
         /\ Stage(command[i]) /\ Used(command[i].mine, proc)
  BY DEF IInv, InLoop, WorktreeTypeOK, TypeOK

LEMMA LiveFacts ==
  ASSUME WorktreeTypeOK, NEW b \in Live
  PROVE  /\ b \in Start /\ b # 0 /\ os[proc[b].pid] = b
         /\ proc[b].pid \in Pid /\ proc[b].name \in Name
  BY SupervisorAssumption DEF Live, WorktreeTypeOK, TypeOK, Start

LEMMA NobodyLives == 0 \notin Live
  BY SupervisorAssumption DEF Live, Start

LEMMA KnownIsAlive ==
  ASSUME WorktreeTypeOK, NEW b \in Known
  PROVE  b # 0 /\ b \in Live /\ PidAlive(b) /\ proc[b].name \in Name
  BY KnownFacts, LiveFacts DEF PidAlive, FreePid

\* The steps that change only the command, and perhaps truncate the file.
Hush == UNCHANGED <<os, proc, stack, containers, tree, excused>> /\ file' \in {file, Torn}

LEMMA MoveKeeps ==
  ASSUME IInv, NEW i \in Command, NEW d \in Progress, Under(i), Set(i, d), Hush,
         d.alone => command[i].alone, d.new = command[i].new,
         InLoop(d, proc, Live, Known), OnPorts(d, Known, stack),
         Checked(d, Known, stack, tree, containers), Excusable(d, os, proc)
  PROVE  IInv'
  <1>1. WorktreeTypeOK BY Standing
  <1>2. /\ UNCHANGED <<os, proc, stack, tree>>
        /\ excused' = excused /\ containers' = containers /\ excused \subseteq Start
        /\ file' \in Record \cup {Torn} /\ (file' = file \/ file' = Torn)
        /\ containers' \in Block \cup {NoBlock}
        BY <1>1 DEF Hush, WorktreeTypeOK, TypeOK
  <1>3. Checked(d, Known, stack, tree, containers') BY <1>2
  <1> QED BY <1>2, <1>3, QuietKeeps

LEMMA LeaveKeeps ==
  ASSUME IInv, NEW i \in Command, Under(i), Leave(i), UNCHANGED <<os, proc, stack, tree>>,
         excused \subseteq excused', excused' \subseteq Start,
         command[i].new \in Live => command[i].new \in excused',
         file' \in Record \cup {Torn},
         file' = file \/ file' = Torn \/ (Used(file', proc) /\ \A b \in Known : file'[proc[b].name] = b),
         containers' \in Block \cup {NoBlock},
         containers' \in {containers, NoBlock} \/ stack # NoBlock \/ tree # "present"
  PROVE  IInv'
  <1>1. Rest \in Progress /\ Set(i, Rest) BY RestGives DEF Leave
  <1>2. Rest.alone => Rest.pc = "idle" BY RestGives
  <1>4. /\ InLoop(Rest, proc, Live, Known) /\ OnPorts(Rest, Known, stack)
        /\ Checked(Rest, Known, stack, tree, containers') /\ Excusable(Rest, os, proc)
        BY RestIsFine, NobodyLives
  <1> QED BY <1>1, <1>2, <1>4, QuietKeeps

LEMMA LeaveHushed ==
  ASSUME IInv, NEW i \in Command, Under(i), Leave(i), Hush, command[i].pc \notin {"sign", "write"}
  PROVE  IInv'
  <1>1. command[i].new = 0 /\ WorktreeTypeOK BY Standing DEF Stage
  <1> QED BY <1>1, LeaveKeeps, NobodyLives DEF Hush, WorktreeTypeOK, TypeOK

LEMMA LoadConfigKeeps ==
  ASSUME IInv, NEW i \in Command, LoadConfig(i), UNCHANGED tree
  PROVE  IInv'
  <1> DEFINE c == command[i]
  <1>1. /\ c \in Progress /\ c.pc = "config" /\ Under(i) /\ Stage(c) /\ Used(c.mine, proc)
        /\ WorktreeTypeOK /\ Ported /\ Checked(c, Known, stack, tree, containers)
        BY Standing DEF LoadConfig, Under
  <1>2. Hush BY DEF LoadConfig, Hush, disk
  <1>3. CASE stack \in Block
    <2>1. stack # NoBlock /\ stack # Torn BY <1>3, SupervisorAssumption
    <2>2. PICK d \in Progress :
            /\ Set(i, d)
            /\ d.doing = c.doing /\ d.mine = c.mine /\ d.new = c.new /\ d.name = c.name
            /\ d.then = c.then /\ d.alone = c.alone /\ d.block = stack
            /\ d.pc = (IF c.doing = "up" THEN "compose" ELSE "recall")
          BY <1>1, <1>3, <2>1, ConfiguredGives DEF LoadConfig
    <2> HIDE DEF c
    <2>3. Stage(d) BY <1>1, <2>2 DEF Stage, Loaded
    <2>4. d.new = 0 /\ ~Loaded(d) BY <1>1, <2>2 DEF Stage, Loaded
    <2>5. InLoop(d, proc, Live, Known) BY <1>1, <2>2, <2>3, <2>4, NobodyLives DEF InLoop
    <2>6. OnPorts(d, Known, stack) BY <2>1, <2>2 DEF OnPorts
    <2>7. Checked(d, Known, stack, tree, containers) BY <2>1, <2>2 DEF Checked
    <2>8. Excusable(d, os, proc) BY <2>2 DEF Excusable
    <2> QED BY <1>1, <1>2, <2>2, <2>5, <2>6, <2>7, <2>8, MoveKeeps DEF c
  <1>4. CASE stack = NoBlock
    <2> DEFINE d == [c EXCEPT !.pc = "allocate"]
    <2>1. Set(i, d) BY <1>4, SupervisorAssumption DEF LoadConfig, Goto
    <2> HIDE DEF c
    <2>2. /\ d \in Progress /\ d.pc = "allocate" /\ d.doing = c.doing /\ d.mine = c.mine
          /\ d.new = c.new /\ d.block = c.block /\ d.alone = c.alone /\ d.name = c.name
          BY <1>1, GotoGives, ThosePCs
    <2> HIDE DEF d
    <2>3. Stage(d) BY <1>1, <2>2 DEF Stage, Loaded
    <2>4. d.new = 0 /\ ~Loaded(d) BY <1>1, <2>2 DEF Stage, Loaded
    <2>5. InLoop(d, proc, Live, Known) BY <1>1, <2>2, <2>3, <2>4, NobodyLives DEF InLoop
    <2>6. OnPorts(d, Known, stack) BY <1>1, <1>4, <2>2 DEF OnPorts, Ported
    <2>7. Checked(d, Known, stack, tree, containers) BY <1>1, <2>2 DEF Checked
    <2>8. Excusable(d, os, proc) BY <2>2 DEF Excusable
    <2> QED BY <1>1, <1>2, <2>1, <2>2, <2>5, <2>6, <2>7, <2>8, MoveKeeps DEF c
  <1>5. CASE stack = Torn
    <2>1. Leave(i) BY <1>5, SupervisorAssumption DEF LoadConfig
    <2> QED BY <1>1, <1>2, <2>1, LeaveHushed
  <1> QED BY <1>1, <1>3, <1>4, <1>5 DEF WorktreeTypeOK, TypeOK

LEMMA RecallConfigKeeps ==
  ASSUME IInv, NEW i \in Command, RecallConfig(i), UNCHANGED tree
  PROVE  IInv'
  <1> DEFINE c == command[i]
  <1>1. /\ c \in Progress /\ c.pc = "recall" /\ Under(i) /\ Stage(c) /\ Used(c.mine, proc)
        /\ WorktreeTypeOK /\ c.doing # "up"
        BY Standing DEF RecallConfig, Under, Stage
  <1>2. Hush BY DEF RecallConfig, Hush, disk
  <1>3. CASE stack = Torn
    <2>1. Leave(i) BY <1>3 DEF RecallConfig
    <2> QED BY <1>1, <1>2, <2>1, LeaveHushed
  <1>4. CASE stack # Torn
    <2> DEFINE d1 == [c EXCEPT !.pc = "load"]
               d  == [d1 EXCEPT !.block = stack]
    <2>1. Set(i, [c EXCEPT !.block = stack, !.pc = "load"]) BY <1>4 DEF RecallConfig
    <2>2. d = [c EXCEPT !.block = stack, !.pc = "load"] BY <1>1 DEF Progress
    <2>3. Set(i, d) BY <2>1, <2>2
    <2>4. stack \in Block \cup {NoBlock} BY <1>1, <1>4 DEF WorktreeTypeOK, TypeOK
    <2> HIDE DEF c
    <2>5. /\ d1 \in Progress /\ d1.pc = "load" /\ d1.doing = c.doing /\ d1.mine = c.mine
          /\ d1.new = c.new /\ d1.name = c.name /\ d1.alone = c.alone
          BY <1>1, GotoGives, ThosePCs
    <2> HIDE DEF d1
    <2>6. /\ d \in Progress /\ d.pc = "load" /\ d.doing = c.doing /\ d.mine = c.mine
          /\ d.new = c.new /\ d.name = c.name /\ d.alone = c.alone /\ d.block = stack
          BY <2>4, <2>5 DEF Progress
    <2> HIDE DEF d
    <2>7. Stage(d) BY <1>1, <2>6 DEF Stage, Loaded
    <2>8. d.new = 0 /\ ~Loaded(d) BY <1>1, <2>6 DEF Stage, Loaded
    <2>9. InLoop(d, proc, Live, Known) BY <1>1, <2>6, <2>7, <2>8, NobodyLives DEF InLoop
    <2>10. OnPorts(d, Known, stack) BY <1>1, <2>6 DEF OnPorts
    <2>11. Checked(d, Known, stack, tree, containers) BY <1>1, <2>6 DEF Checked
    <2>12. Excusable(d, os, proc) BY <2>6 DEF Excusable
    <2> QED BY <1>1, <1>2, <2>3, <2>6, <2>9, <2>10, <2>11, <2>12, MoveKeeps DEF c
  <1> QED BY <1>3, <1>4

LEMMA AllocatePortsKeeps ==
  ASSUME IInv, NEW i \in Command, AllocatePorts(i), UNCHANGED tree
  PROVE  IInv'
  <1> DEFINE c == command[i]
  <1>1. /\ c \in Progress /\ c.pc = "allocate" /\ Under(i) /\ Stage(c) /\ Used(c.mine, proc)
        /\ WorktreeTypeOK /\ Filed /\ c.new = 0 /\ Known = {}
        BY Standing DEF AllocatePorts, Under, Stage, OnPorts
  <1>2. UNCHANGED <<os, proc, file, excused, containers>> BY DEF AllocatePorts
  <1>3. CASE Leave(i) /\ stack' = stack
    BY <1>1, <1>2, <1>3, LeaveKeeps, NobodyLives DEF WorktreeTypeOK, TypeOK
  <1>4. CASE \E x \in Block : stack' = Torn /\ Set(i, [c EXCEPT !.block = x, !.pc = "env"])
    <2>1. PICK x \in Block : stack' = Torn /\ Set(i, [c EXCEPT !.block = x, !.pc = "env"]) BY <1>4
    <2> DEFINE d1 == [c EXCEPT !.pc = "env"]
               d  == [d1 EXCEPT !.block = x]
    <2>2. d = [c EXCEPT !.block = x, !.pc = "env"] BY <1>1 DEF Progress
    <2>3. Set(i, d) BY <2>1, <2>2
    <2> HIDE DEF c
    <2>4. /\ d1 \in Progress /\ d1.pc = "env" /\ d1.doing = c.doing /\ d1.mine = c.mine
          /\ d1.new = c.new /\ d1.name = c.name /\ d1.alone = c.alone
          BY <1>1, GotoGives, ThosePCs
    <2> HIDE DEF d1
    <2>5. /\ d \in Progress /\ d.pc = "env" /\ d.doing = c.doing /\ d.mine = c.mine
          /\ d.new = c.new /\ d.name = c.name /\ d.alone = c.alone /\ d.block = x
          BY <2>4 DEF Progress
    <2> HIDE DEF d
    <2>6. Torn # NoBlock BY SupervisorAssumption
    <2>7. Onward /\ Live' = Live /\ \A p \in Pid : os'[p] = Foreign => os[p] = Foreign
          BY <1>2, Quiet
    <2>8. Known' = {} BY <1>1, <1>2, <2>3, <2>5, <2>7, KnownShrinks DEF Set, c
    <2>9. WorktreeTypeOK'
          BY <1>1, <1>2, <2>1, <2>3, <2>5 DEF WorktreeTypeOK, TypeOK, Set
    <2>10. Filed' BY <1>1, <1>2, <2>8 DEF Filed
    <2>11. Ported' BY <2>8 DEF Ported
    <2>12. Boxed' BY <2>1, <2>6 DEF Boxed
    <2>13. Stage(d) BY <1>1, <2>5 DEF Stage, Loaded
    <2>14. d.new = 0 /\ ~Loaded(d) BY <1>1, <2>5 DEF Loaded
    <2>15. InLoop(d, proc', Live', Known')
           BY <1>1, <1>2, <2>5, <2>7, <2>13, <2>14, NobodyLives DEF InLoop
    <2>16. OnPorts(d, Known', stack') BY <2>5, <2>8 DEF OnPorts
    <2>17. Checked(d, Known', stack', tree', containers') BY <1>1, <2>1, <2>5, <2>6 DEF Checked
    <2>18. Excusable(d, os', proc') BY <2>5 DEF Excusable
    <2> QED BY <1>1, <2>1, <2>3, <2>5, <2>6, <2>7, <2>8, <2>9, <2>10, <2>11, <2>12, <2>15, <2>16,
               <2>17, <2>18, StepKeeps DEF c
  <1> QED BY <1>3, <1>4 DEF AllocatePorts

LEMMA WriteEnvKeeps ==
  ASSUME IInv, NEW i \in Command, WriteEnv(i), UNCHANGED tree
  PROVE  IInv'
  <1> DEFINE c == command[i]
             x == c.block
  <1>1. /\ c \in Progress /\ c.pc = "env" /\ Under(i) /\ Stage(c) /\ Used(c.mine, proc)
        /\ WorktreeTypeOK /\ Filed /\ c.new = 0 /\ Known = {} /\ x \in Block
        BY Standing DEF WriteEnv, Under, Stage, OnPorts
  <1>2. UNCHANGED <<os, proc, file, excused, containers>> BY DEF WriteEnv
  <1>3. stack' = x /\ Configured(i, x) BY DEF WriteEnv
  <1>4. PICK d \in Progress :
          /\ Set(i, d)
          /\ d.doing = c.doing /\ d.mine = c.mine /\ d.new = c.new /\ d.name = c.name
          /\ d.then = c.then /\ d.alone = c.alone /\ d.block = x
          /\ d.pc = (IF c.doing = "up" THEN "compose" ELSE "recall")
        BY <1>1, <1>3, ConfiguredGives
  <1>5. x # NoBlock BY <1>1, SupervisorAssumption
  <1>6. Onward /\ Live' = Live /\ \A p \in Pid : os'[p] = Foreign => os[p] = Foreign
        BY <1>2, Quiet
  <1>7. Known' = {} BY <1>1, <1>2, <1>4, <1>6, KnownShrinks DEF Set
  <1>8. WorktreeTypeOK'
        BY <1>1, <1>2, <1>3, <1>4 DEF WorktreeTypeOK, TypeOK, Set
  <1>9. Filed' BY <1>1, <1>2, <1>7 DEF Filed
  <1>10. Ported' BY <1>7 DEF Ported
  <1>11. Boxed' BY <1>3, <1>5 DEF Boxed
  <1> HIDE DEF c, x
  <1>12. Stage(d) BY <1>1, <1>4 DEF Stage, Loaded
  <1>13. d.new = 0 /\ ~Loaded(d) BY <1>1, <1>4 DEF Loaded
  <1>14. InLoop(d, proc', Live', Known')
         BY <1>1, <1>2, <1>4, <1>6, <1>12, <1>13, NobodyLives DEF InLoop
  <1>15. OnPorts(d, Known', stack') BY <1>3, <1>4, <1>5 DEF OnPorts
  <1>16. Checked(d, Known', stack', tree', containers') BY <1>3, <1>4, <1>5 DEF Checked
  <1>17. Excusable(d, os', proc') BY <1>4 DEF Excusable
  <1> QED BY <1>1, <1>3, <1>4, <1>5, <1>6, <1>7, <1>8, <1>9, <1>10, <1>11, <1>14, <1>15, <1>16,
             <1>17, StepKeeps DEF c

LEMMA ComposeUpKeeps ==
  ASSUME IInv, NEW i \in Command, ComposeUp(i), tree = "present", UNCHANGED tree
  PROVE  IInv'
  <1> DEFINE c == command[i]
  <1>1. /\ c \in Progress /\ c.pc = "compose" /\ c.doing = "up" /\ Under(i) /\ Stage(c)
        /\ Used(c.mine, proc) /\ WorktreeTypeOK /\ Checked(c, Known, stack, tree, containers)
        /\ OnPorts(c, Known, stack) /\ c.new = 0 /\ c.block \in Block \cup {NoBlock}
        BY Standing, ProgressFacts DEF ComposeUp, At, Under, Stage
  <1>2. UNCHANGED <<os, proc, file, stack, excused>> BY DEF ComposeUp
  <1>3. stack # NoBlock BY <1>1 DEF Checked
  <1>4. containers' \in Block \cup {NoBlock}
        BY <1>1 DEF ComposeUp, Published, WorktreeTypeOK, TypeOK
  <1>5. CASE Leave(i)
    BY <1>1, <1>2, <1>3, <1>4, <1>5, LeaveKeeps, NobodyLives DEF WorktreeTypeOK, TypeOK
  <1>6. CASE Goto(i, "load")
    <2> DEFINE d == [c EXCEPT !.pc = "load"]
    <2>1. Set(i, d) BY <1>6 DEF Goto
    <2> HIDE DEF c
    <2>2. /\ d \in Progress /\ d.pc = "load" /\ d.doing = c.doing /\ d.mine = c.mine
          /\ d.new = c.new /\ d.block = c.block /\ d.alone = c.alone /\ d.name = c.name
          BY <1>1, GotoGives, ThosePCs
    <2> HIDE DEF d
    <2>3. Stage(d) BY <1>1, <2>2 DEF Stage, Loaded
    <2>4. d.new = 0 /\ ~Loaded(d) BY <1>1, <2>2 DEF Loaded
    <2>5. InLoop(d, proc, Live, Known) BY <1>1, <2>2, <2>3, <2>4, NobodyLives DEF InLoop
    <2>6. OnPorts(d, Known, stack) BY <1>1, <2>2 DEF OnPorts
    <2>7. Checked(d, Known, stack, tree, containers') BY <1>1, <2>2 DEF Checked
    <2>8. Excusable(d, os, proc) BY <2>2 DEF Excusable
    <2>10. file' \in Record \cup {Torn} /\ excused' = excused /\ excused \subseteq Start
           BY <1>1, <1>2 DEF WorktreeTypeOK, TypeOK
    <2> QED BY <1>1, <1>2, <1>3, <1>4, <2>1, <2>2, <2>4, <2>5, <2>6, <2>7, <2>8, <2>10,
               QuietKeeps DEF c
  <1> QED BY <1>5, <1>6 DEF ComposeUp

LEMMA LoadProcessesKeeps ==
  ASSUME IInv, NEW i \in Command, LoadProcesses(i), UNCHANGED tree
  PROVE  IInv'
  <1> DEFINE c == command[i]
  <1>1. /\ c \in Progress /\ c.pc = "load" /\ Under(i) /\ Stage(c) /\ WorktreeTypeOK /\ Filed
        /\ OnPorts(c, Known, stack) /\ Checked(c, Known, stack, tree, containers) /\ c.new = 0
        BY Standing DEF LoadProcesses, Under, Stage
  <1>2. Hush BY DEF LoadProcesses, Hush, disk
  <1>3. CASE file = Torn
    <2>1. Leave(i) BY <1>3 DEF LoadProcesses
    <2> QED BY <1>1, <1>2, <2>1, LeaveHushed
  <1>4. CASE file # Torn
    <2> DEFINE up == c.doing = "up"
               d1 == [c EXCEPT !.pc = "check"]
               d2 == [d1 EXCEPT !.mine = file]
               d  == [d2 EXCEPT !.name = IF up THEN "app" ELSE "worker"]
    <2>1. Set(i, [c EXCEPT !.pc = "check", !.mine = file,
                           !.name = IF up THEN "app" ELSE "worker"])
          BY <1>4 DEF LoadProcesses
    <2>2. d = [c EXCEPT !.pc = "check", !.mine = file, !.name = IF up THEN "app" ELSE "worker"]
          BY <1>1 DEF Progress
    <2>3. Set(i, d) BY <2>1, <2>2
    <2>4. file \in Record BY <1>1, <1>4 DEF WorktreeTypeOK, TypeOK
    <2> HIDE DEF c
    <2>5. /\ d1 \in Progress /\ d1.pc = "check" /\ d1.doing = c.doing /\ d1.new = c.new
          /\ d1.block = c.block /\ d1.alone = c.alone
          BY <1>1, GotoGives, ThosePCs
    <2> HIDE DEF d1
    <2>6. /\ d2 \in Progress /\ d2.pc = "check" /\ d2.doing = c.doing /\ d2.new = c.new
          /\ d2.block = c.block /\ d2.alone = c.alone /\ d2.mine = file
          BY <2>4, <2>5 DEF Progress
    <2> HIDE DEF d2
    <2>8. /\ d \in Progress /\ d.pc = "check" /\ d.doing = c.doing /\ d.new = c.new
          /\ d.block = c.block /\ d.alone = c.alone /\ d.mine = file
          /\ d.name = IF up THEN "app" ELSE "worker"
          BY <2>6 DEF Progress, Name
    <2> HIDE DEF d
    <2>9. Stage(d) BY <1>1, <2>8 DEF Stage, Loaded
    <2>10. Used(d.mine, proc) /\ \A b \in Known : d.mine[proc[b].name] = b
           BY <1>1, <1>4, <2>8 DEF Filed
    <2>11. InLoop(d, proc, Live, Known) BY <1>1, <2>8, <2>9, <2>10, NobodyLives DEF InLoop
    <2>12. OnPorts(d, Known, stack) BY <1>1, <2>8 DEF OnPorts
    <2>13. Checked(d, Known, stack, tree, containers) BY <1>1, <2>8 DEF Checked
    <2>14. Excusable(d, os, proc) BY <2>8 DEF Excusable
    <2> QED BY <1>1, <1>2, <2>3, <2>8, <2>11, <2>12, <2>13, <2>14, MoveKeeps DEF c
  <1> QED BY <1>3, <1>4

\* The next turn is where the loop says, for the command's ways to get there.
LEMMA TurnedStands ==
  ASSUME NEW c \in Progress, NEW d \in Progress, Turned(c, d),
         NEW p, NEW l, 0 \notin l, NEW k, NEW s, NEW t, NEW n, NEW o,
         InLoop(c, p, l, k), OnPorts(c, k, s), Checked(c, k, s, t, n),
         c.pc \in {"check", "write", "poll"}, c.doing = "down" => c.mine[c.name] = 0
  PROVE  /\ InLoop(d, p, l, k) /\ OnPorts(d, k, s) /\ Checked(d, k, s, t, n) /\ Excusable(d, o, p)
         /\ d.alone = c.alone /\ d.new = 0
  <1>1. Loaded(c) BY DEF Loaded
  <1>2. Stage(d) BY <1>1 DEF InLoop, Stage, Turned, Loaded
  <1>3. InLoop(d, p, l, k) BY <1>1, <1>2 DEF InLoop, Turned
  <1>4. OnPorts(d, k, s) BY DEF OnPorts, Turned
  <1>5. Checked(d, k, s, t, n) BY DEF Checked, Turned
  <1> QED BY <1>3, <1>4, <1>5 DEF Excusable, Turned

\* A payload in which b is put under the current name, on its way to the file.
Noted(c, d, b) ==
  /\ d.pc = "write" /\ d.doing = c.doing /\ d.name = c.name /\ d.mine[c.name] = b
  /\ \A n \in Name : n # c.name => d.mine[n] = c.mine[n]
  /\ d.new = c.new /\ d.block = c.block /\ d.alone = c.alone

\* What is noted is the start being watched, or nothing where none is.
Fits(c, d, b) ==
  d.then # "none" /\ IF d.then = "poll" THEN b = c.new /\ b # 0 ELSE b = 0 /\ c.new = 0

LEMMA SaveSets ==
  ASSUME NEW i \in Command, NEW c \in Progress, command[i] = c, NEW b \in 0 .. MaxStarts,
         NEW then \in Thens, Save(i, b, then)
  PROVE  \E d \in Progress : Set(i, d) /\ d.then = then /\ Noted(c, d, b)
  <1> DEFINE d == Saved(c, b, then)
  <1>1. Set(i, d) BY DEF Save, Saved
  <1>2. /\ d \in Progress /\ d.pc = "write" /\ d.then = then /\ d.doing = c.doing /\ d.name = c.name
        /\ d.mine[c.name] = b /\ \A n \in Name : n # c.name => d.mine[n] = c.mine[n]
        /\ d.new = c.new /\ d.block = c.block /\ d.alone = c.alone
        BY SaveGives
  <1> HIDE DEF d
  <1>3. Noted(c, d, b) BY <1>2 DEF Noted
  <1> QED BY <1>1, <1>2, <1>3

\* It is where the loop says if what was there under that name is not known.
LEMMA NotedStands ==
  ASSUME NEW c \in Progress, NEW d \in Progress, NEW b \in 0 .. MaxStarts, Noted(c, d, b),
         NEW p, NEW l, 0 \notin l, NEW k, NEW s, NEW t, NEW n, NEW o,
         InLoop(c, p, l, k), OnPorts(c, k, s), Checked(c, k, s, t, n),
         \A a \in k : p[a].name \in Name /\ p[a].name # c.name,
         c.pc \in {"check", "sign", "poll", "await"},
         Fits(c, d, b)
  PROVE  /\ InLoop(d, p, l, k) /\ OnPorts(d, k, s) /\ Checked(d, k, s, t, n) /\ Excusable(d, o, p)
  <1>1. Loaded(c) BY DEF Loaded
  <1>2. c.name \in Name /\ d.mine[d.name] = b BY ProgressFacts DEF Noted
  <1>3. Stage(d)
    <2>1. d.doing = "down" /\ d.name = "app" => d.mine["worker"] = 0
          BY <1>1 DEF InLoop, Stage, Noted, Loaded, Name
    <2>2. d.new # 0 => d.doing = "up" BY DEF InLoop, Stage, Noted
    <2> QED BY <1>2, <2>1, <2>2 DEF Stage, Noted, Fits
  <1>4. Used(d.mine, p)
    <2>1. b # 0 => p[b].pid \in Pid BY DEF InLoop, Fits
    <2> QED BY <2>1 DEF InLoop, Used, Noted
  <1>5. \A a \in k : d.mine[p[a].name] = a BY <1>1 DEF InLoop, Noted
  <1>6. InLoop(d, p, l, k) BY <1>3, <1>4, <1>5 DEF InLoop, Noted
  <1>7. OnPorts(d, k, s)
    <2>1. c.pc = "await" => c.doing = "down" BY DEF InLoop, Stage
    <2> QED BY <2>1 DEF OnPorts, Noted
  <1>8. Checked(d, k, s, t, n) BY DEF Checked, Noted
  <1> QED BY <1>6, <1>7, <1>8 DEF Excusable, Noted

\* The command goes on to the next process.
LEMMA TurnKeeps ==
  ASSUME IInv, NEW i \in Command, NextProcess(i), Hush, command[i].pc \in {"check", "poll"},
         command[i].doing = "down" => command[i].mine[command[i].name] = 0
  PROVE  IInv'
  <1> DEFINE c == command[i]
  <1>1. /\ c \in Progress /\ Under(i) /\ Stage(c) /\ c.new = 0
        /\ InLoop(c, proc, Live, Known) /\ OnPorts(c, Known, stack)
        /\ Checked(c, Known, stack, tree, containers)
        BY Standing DEF Under, Stage
  <1>2. PICK d \in Progress : Set(i, d) /\ Turned(c, d) BY <1>1, NextGives
  <1>3. c.pc \in {"check", "write", "poll"} /\ (c.doing = "down" => c.mine[c.name] = 0) OBVIOUS
  <1> HIDE DEF c
  <1>4. /\ InLoop(d, proc, Live, Known) /\ OnPorts(d, Known, stack)
        /\ Checked(d, Known, stack, tree, containers) /\ Excusable(d, os, proc)
        /\ d.alone = c.alone /\ d.new = c.new
        BY <1>1, <1>2, <1>3, NobodyLives, TurnedStands
  <1> QED BY <1>1, <1>2, <1>4, MoveKeeps DEF c

\* The command forgets what is recorded under the current name, which does not live.
LEMMA ForgetKeeps ==
  ASSUME IInv, NEW i \in Command, NEW then \in Thens, then # "poll", Save(i, 0, then), Hush,
         command[i].pc \in {"check", "poll"}, Mine(i) \notin Known
  PROVE  IInv'
  <1> DEFINE c == command[i]
  <1>1. /\ c \in Progress /\ Under(i) /\ Stage(c) /\ c.new = 0 /\ WorktreeTypeOK
        /\ InLoop(c, proc, Live, Known) /\ OnPorts(c, Known, stack)
        /\ Checked(c, Known, stack, tree, containers)
        BY Standing DEF Under, Stage
  <1>2. 0 \in 0 .. MaxStarts BY SupervisorAssumption
  <1>3. then \in Thens /\ then # "poll" /\ then # "none" BY DEF Thens
  <1>4. PICK d \in Progress : Set(i, d) /\ d.then = then /\ Noted(c, d, 0)
        BY <1>1, <1>2, <1>3, SaveSets
  <1>5. Loaded(c) /\ c.pc \in {"check", "sign", "poll", "await"} /\ c.mine[c.name] \notin Known
        BY DEF Loaded, Mine
  <1> HIDE DEF c
  <1>6. \A a \in Known : proc[a].name \in Name /\ proc[a].name # c.name
        BY <1>1, <1>5, KnownIsAlive DEF InLoop
  <1> DEFINE b == 0
  <1>7. b \in 0 .. MaxStarts /\ Noted(c, d, b) /\ Fits(c, d, b) BY <1>1, <1>2, <1>3, <1>4 DEF Fits
  <1> HIDE DEF b
  <1>8. /\ InLoop(d, proc, Live, Known) /\ OnPorts(d, Known, stack)
        /\ Checked(d, Known, stack, tree, containers) /\ Excusable(d, os, proc)
        BY <1>1, <1>4, <1>5, <1>6, <1>7, NobodyLives, NotedStands
  <1>9. d.alone = c.alone /\ d.new = c.new BY <1>4 DEF Noted
  <1> QED BY <1>1, <1>4, <1>8, <1>9, MoveKeeps DEF c

\* A step of the command to another place in the code.
LEMMA GotoKeeps ==
  ASSUME IInv, NEW i \in Command, NEW q \in PCs, Goto(i, q), Hush,
         LET c == command[i] IN
         /\ c.pc \notin {"idle", "sign", "write"} /\ q \notin {"allocate", "env", "sign", "write"}
         /\ q \in {"spawn", "signal", "await", "check", "poll"} => c.pc \in {"check", "signal"}
         /\ q \notin {"compose", "recall", "load"}
         /\ q = "spawn" => c.doing = "up" /\ c.mine[c.name] = 0
         /\ q \in {"signal", "await"} => /\ c.doing = "down" /\ c.mine[c.name] # 0
                                         /\ \/ c.pc = "signal"
                                            \/ os[proc[c.mine[c.name]].pid] # Foreign
         /\ c.doing = "clean" =>
              /\ q \in {"containers", "remove"} => Known = {}
              /\ c.alone /\ q \in {"status", "record", "containers", "remove"} => tree = "present"
              /\ c.alone /\ q = "remove" => containers = NoBlock
              /\ q # "branch"
  PROVE  IInv'
  <1> DEFINE c == command[i]
             d == [c EXCEPT !.pc = q]
  <1>1. /\ c \in Progress /\ Under(i) /\ Stage(c) /\ c.new = 0 /\ Used(c.mine, proc)
        /\ InLoop(c, proc, Live, Known) /\ OnPorts(c, Known, stack)
        /\ Checked(c, Known, stack, tree, containers) /\ Excusable(c, os, proc)
        BY Standing DEF Under, Stage
  <1>2. Set(i, d) BY DEF Goto
  <1>3. /\ c.pc \notin {"idle", "sign", "write"} /\ q \notin {"allocate", "env", "sign", "write"}
        /\ q \in {"spawn", "signal", "await", "check", "poll"} => c.pc \in {"check", "signal"}
        /\ q \notin {"compose", "recall", "load"}
        /\ q = "spawn" => c.doing = "up" /\ c.mine[c.name] = 0
        /\ q \in {"signal", "await"} => /\ c.doing = "down" /\ c.mine[c.name] # 0
                                        /\ \/ c.pc = "signal"
                                           \/ os[proc[c.mine[c.name]].pid] # Foreign
        /\ c.doing = "clean" =>
             /\ q \in {"containers", "remove"} => Known = {}
             /\ c.alone /\ q \in {"status", "record", "containers", "remove"} => tree = "present"
             /\ c.alone /\ q = "remove" => containers = NoBlock
             /\ q # "branch"
        OBVIOUS
  <1> HIDE DEF c
  <1>4. /\ d \in Progress /\ d.pc = q /\ d.doing = c.doing /\ d.mine = c.mine /\ d.then = c.then
        /\ d.new = c.new /\ d.block = c.block /\ d.alone = c.alone /\ d.name = c.name
        /\ d.reused = c.reused
        BY <1>1, GotoGives
  <1> HIDE DEF d
  <1>5. Loaded(d) => Loaded(c) BY <1>3, <1>4 DEF Loaded
  <1>6. Stage(d) BY <1>1, <1>3, <1>4, <1>5 DEF Stage
  <1>7. InLoop(d, proc, Live, Known) BY <1>1, <1>4, <1>5, <1>6, NobodyLives DEF InLoop
  <1>8. OnPorts(d, Known, stack)
    <2>1. c.pc = "signal" => c.doing = "down" BY <1>1 DEF Stage
    <2> QED BY <1>1, <1>3, <1>4, <2>1 DEF OnPorts
  <1>9. Checked(d, Known, stack, tree, containers) BY <1>1, <1>3, <1>4 DEF Checked
  <1>10. Excusable(d, os, proc) BY <1>1, <1>3, <1>4 DEF Excusable
  <1> QED BY <1>1, <1>2, <1>4, <1>7, <1>8, <1>9, <1>10, MoveKeeps DEF c

LEMMA CheckStartKeeps ==
  ASSUME IInv, NEW i \in Command, CheckStart(i), UNCHANGED tree
  PROVE  IInv'
  <1> DEFINE c == command[i]
  <1>1. /\ c.pc = "check" /\ c.doing = "up" /\ Under(i) /\ c.pc \notin {"sign", "write"}
        /\ WorktreeTypeOK
        BY Standing DEF CheckStart, At, Under
  <1>2. Hush BY DEF CheckStart, Save, Hush
  <1>3. CASE Mine(i) = 0
    <2>1. Goto(i, "spawn") BY <1>3 DEF CheckStart
    <2> QED BY <1>1, <1>2, <1>3, <2>1, GotoKeeps, ThosePCs DEF Mine
  <1>4. CASE Mine(i) # 0 /\ ~PidAlive(Mine(i))
    <2>1. Save(i, 0, "spawn") BY <1>4 DEF CheckStart
    <2>2. Mine(i) \notin Known BY <1>1, <1>4, KnownIsAlive
    <2> QED BY <1>1, <1>2, <2>1, <2>2, ForgetKeeps, ThoseThens
  <1>5. CASE Mine(i) # 0 /\ PidAlive(Mine(i)) /\ PidOwned(Mine(i))
    <2>1. NextProcess(i) BY <1>5 DEF CheckStart
    <2> QED BY <1>1, <1>2, <2>1, TurnKeeps
  <1>6. CASE Mine(i) # 0 /\ PidAlive(Mine(i)) /\ ~PidOwned(Mine(i))
    <2>1. Leave(i) BY <1>6 DEF CheckStart
    <2> QED BY <1>1, <1>2, <2>1, LeaveHushed
  <1> QED BY <1>3, <1>4, <1>5, <1>6

LEMMA PollKeeps ==
  ASSUME IInv, NEW i \in Command, Poll(i), UNCHANGED tree
  PROVE  IInv'
  <1>1. command[i].pc = "poll" /\ command[i].doing = "up" BY DEF Poll, At
  <1>2. Hush BY DEF Poll, Save, Hush
  <1>3. CASE Mine(i) \in Live
    <2>1. NextProcess(i) BY <1>3 DEF Poll
    <2> QED BY <1>1, <1>2, <2>1, TurnKeeps
  <1>4. CASE Mine(i) \notin Live
    <2>1. Save(i, 0, "fail") BY <1>4 DEF Poll
    <2>2. Mine(i) \notin Known BY <1>4, KnownFacts
    <2> QED BY <1>1, <1>2, <2>1, <2>2, ForgetKeeps, ThoseThens
  <1> QED BY <1>3, <1>4

LEMMA CheckStopKeeps ==
  ASSUME IInv, NEW i \in Command, CheckStop(i), UNCHANGED tree
  PROVE  IInv'
  <1> DEFINE c == command[i]
  <1>1. /\ c \in Progress /\ c.pc = "check" /\ c.doing = "down" /\ Under(i)
        /\ c.pc \notin {"sign", "write"} /\ WorktreeTypeOK
        BY Standing DEF CheckStop, At, Under
  <1>2. Hush BY DEF CheckStop, Save, Hush
  <1>3. CASE Mine(i) = 0
    <2>1. NextProcess(i) BY <1>3 DEF CheckStop
    <2> QED BY <1>1, <1>2, <1>3, <2>1, TurnKeeps DEF Mine
  <1>4. CASE Mine(i) # 0 /\ ~PidAlive(Mine(i))
    <2>1. Save(i, 0, "next") BY <1>4 DEF CheckStop
    <2>2. Mine(i) \notin Known BY <1>1, <1>4, KnownIsAlive
    <2> QED BY <1>1, <1>2, <2>1, <2>2, ForgetKeeps, ThoseThens
  <1>5. CASE Mine(i) # 0 /\ PidAlive(Mine(i)) /\ PidOwned(Mine(i))
    <2>1. Goto(i, "signal") BY <1>5 DEF CheckStop
    <2>2. Mine(i) \in 0 .. MaxStarts BY <1>1, ProgressFacts DEF Mine
    <2>3. os[proc[Mine(i)].pid] # Foreign BY <1>5, <2>2, SupervisorAssumption DEF PidOwned
    <2> QED BY <1>1, <1>2, <1>5, <2>1, <2>3, GotoKeeps, ThosePCs DEF Mine
  <1>6. CASE Mine(i) # 0 /\ PidAlive(Mine(i)) /\ ~PidOwned(Mine(i))
    <2>1. Leave(i) BY <1>6 DEF CheckStop
    <2> QED BY <1>1, <1>2, <2>1, LeaveHushed
  <1> QED BY <1>3, <1>4, <1>5, <1>6

LEMMA TerminateKeeps ==
  ASSUME IInv, NEW i \in Command, Terminate(i), UNCHANGED tree
  PROVE  IInv'
  <1>1. /\ command[i].pc = "signal" /\ command[i].doing = "down" /\ Under(i)
        /\ command[i].mine[command[i].name] # 0
        BY Standing DEF Terminate, Under, Stage
  <1>2. Hush BY DEF Terminate, Hush, disk
  <1>3. CASE Goto(i, "await") BY <1>1, <1>2, <1>3, GotoKeeps, ThosePCs
  <1>4. CASE Leave(i) BY <1>1, <1>2, <1>4, LeaveHushed
  <1> QED BY <1>3, <1>4 DEF Terminate

LEMMA WaitReadyKeeps ==
  ASSUME IInv, NEW i \in Command, WaitReady(i), UNCHANGED tree
  PROVE  IInv'
  <1>1. command[i].pc = "ready" /\ Under(i) BY DEF WaitReady, At, Under
  <1>2. Hush BY DEF WaitReady, Hush, disk
  <1> QED BY <1>1, <1>2, LeaveHushed DEF WaitReady

LEMMA InterruptKeeps ==
  ASSUME IInv, NEW i \in Command, Interrupt(i), UNCHANGED tree
  PROVE  IInv'
  <1>1. WorktreeTypeOK BY Standing
  <1>2. UNCHANGED <<os, proc, stack, file, containers>> /\ Under(i) /\ Leave(i) BY DEF Interrupt, disk
  <1>3. /\ excused \subseteq excused' /\ excused' \subseteq Start
        /\ command[i].new \in Live => command[i].new \in excused'
        BY <1>1, KnownFacts DEF Interrupt, WorktreeTypeOK, TypeOK
  <1> QED BY <1>1, <1>2, <1>3, LeaveKeeps DEF WorktreeTypeOK, TypeOK

LEMMA SignKeeps ==
  ASSUME IInv, NEW i \in Command, Sign(i), UNCHANGED tree
  PROVE  IInv'
  <1> DEFINE c == command[i]
             b == c.new
  <1>1. /\ c \in Progress /\ c.pc = "sign" /\ Under(i) /\ Stage(c) /\ b # 0 /\ WorktreeTypeOK
        /\ InLoop(c, proc, Live, Known) /\ OnPorts(c, Known, stack)
        /\ Checked(c, Known, stack, tree, containers) /\ c.mine[c.name] = 0
        BY Standing DEF Sign, Under, Stage
  <1>2. CASE Leave(i) /\ excused' = excused \cup ({b} \cap Live) /\ file' = file
    <2>1. UNCHANGED <<os, proc, stack, containers>> BY DEF Sign
    <2>2. /\ excused \subseteq excused' /\ excused' \subseteq Start
          /\ c.new \in Live => c.new \in excused'
          BY <1>1, <1>2, KnownFacts DEF WorktreeTypeOK, TypeOK
    <2> QED BY <1>1, <1>2, <2>1, <2>2, LeaveKeeps DEF WorktreeTypeOK, TypeOK
  <1>3. CASE Save(i, b, "poll") /\ excused' = excused
    <2>1. Hush BY <1>3 DEF Sign, Save, Hush
    <2>2. b \in 0 .. MaxStarts BY <1>1, ProgressFacts
    <2>3. PICK d \in Progress : Set(i, d) /\ d.then = "poll" /\ Noted(c, d, b)
          BY <1>1, <1>3, <2>2, SaveSets, ThoseThens
    <2>4. Fits(c, d, b) BY <1>1, <2>3 DEF Fits
    <2> HIDE DEF b, c
    <2>5. \A a \in Known : proc[a].name \in Name /\ proc[a].name # c.name
          BY <1>1, KnownIsAlive DEF InLoop, Loaded
    <2>6. c.pc \in {"check", "sign", "poll", "await"} BY <1>1
    <2>7. /\ InLoop(d, proc, Live, Known) /\ OnPorts(d, Known, stack)
          /\ Checked(d, Known, stack, tree, containers) /\ Excusable(d, os, proc)
          BY <1>1, <2>2, <2>3, <2>4, <2>5, <2>6, NobodyLives, NotedStands
    <2>8. d.alone = c.alone /\ d.new = c.new BY <2>3 DEF Noted
    <2> QED BY <1>1, <2>1, <2>3, <2>7, <2>8, MoveKeeps DEF c
  <1> QED BY <1>2, <1>3 DEF Sign

\* What is written is what the payload says: with the start that was watched, where the command
\* is still the only one, that start is known from now on.
LEMMA WriteKeeps ==
  ASSUME IInv, NEW i \in Command, Write(i), UNCHANGED tree
  PROVE  IInv'
  <1> DEFINE c == command[i]
  <1>1. /\ c \in Progress /\ c.pc = "write" /\ Under(i) /\ Stage(c) /\ Used(c.mine, proc)
        /\ WorktreeTypeOK /\ Ported /\ Boxed
        /\ InLoop(c, proc, Live, Known) /\ OnPorts(c, Known, stack)
        /\ Checked(c, Known, stack, tree, containers)
        BY Standing DEF Write, Under, Stage
  <1>2. /\ UNCHANGED <<os, proc, stack, containers>> /\ file' = c.mine
        /\ excused' = IF c.alone THEN excused ELSE excused \cup ({c.new} \cap Live)
        BY DEF Write
  <1>3. Onward /\ Live' = Live /\ \A p \in Pid : os'[p] = Foreign => os[p] = Foreign
        BY <1>2, Quiet
  <1>4. excused \subseteq excused' /\ excused' \subseteq Start
        BY <1>1, <1>2, KnownFacts DEF WorktreeTypeOK, TypeOK
  <1>5. PICK d \in Progress :
          /\ Set(i, d) /\ d.new = 0 /\ (d.alone => c.alone \/ d.pc = "idle")
          /\ \A k : InLoop(c, proc, Live, k) /\ OnPorts(c, k, stack)
                    /\ Checked(c, k, stack, tree, containers)
                    => /\ InLoop(d, proc, Live, k) /\ OnPorts(d, k, stack)
                       /\ Checked(d, k, stack, tree, containers) /\ Excusable(d, os, proc)
    <2>1. CASE c.then = "next"
      <3>1. NextProcess(i) BY <2>1 DEF Write
      <3>2. PICK d \in Progress : Set(i, d) /\ Turned(c, d) BY <1>1, <3>1, NextGives
      <3>3. c.pc \in {"check", "write", "poll"} /\ c.mine[c.name] = 0 BY <1>1, <2>1 DEF Stage
      <3> HIDE DEF c
      <3>4. \A k : InLoop(c, proc, Live, k) /\ OnPorts(c, k, stack)
                   /\ Checked(c, k, stack, tree, containers)
                   => /\ InLoop(d, proc, Live, k) /\ OnPorts(d, k, stack)
                      /\ Checked(d, k, stack, tree, containers) /\ Excusable(d, os, proc)
            BY <1>1, <3>2, <3>3, NobodyLives, TurnedStands
      <3>5. d.new = 0 /\ d.alone = c.alone BY <3>2 DEF Turned
      <3> QED BY <3>2, <3>4, <3>5
    <2>2. CASE c.then = "fail"
      <3>1. Rest \in Progress /\ Set(i, Rest) /\ Rest.new = 0 /\ Rest.pc = "idle"
            BY <2>2, RestGives DEF Write, Leave
      <3>2. \A k : /\ InLoop(Rest, proc, Live, k) /\ OnPorts(Rest, k, stack)
                   /\ Checked(Rest, k, stack, tree, containers) /\ Excusable(Rest, os, proc)
            BY RestIsFine, NobodyLives
      <3> QED BY <3>1, <3>2
    <2>3. CASE c.then \notin {"next", "fail"}
      <3> DEFINE e == Cleared(c)
                 d == [e EXCEPT !.pc = c.then]
      <3>1. Set(i, [[c EXCEPT !.new = 0, !.then = "none"] EXCEPT !.pc = c.then])
            BY <2>3 DEF Write
      <3>2. Set(i, d) BY <3>1 DEF Cleared
      <3> HIDE DEF c
      <3>3. c.then \in {"spawn", "poll"} /\ c.then \in PCs
            BY <1>1, <2>3 DEF Progress, Stage, PCs
      <3>4. /\ e \in Progress /\ e.new = 0 /\ e.then = "none" /\ e.doing = c.doing
            /\ e.mine = c.mine /\ e.block = c.block /\ e.alone = c.alone /\ e.name = c.name
            BY <1>1, ClearedGives
      <3> HIDE DEF e
      <3>5. /\ d \in Progress /\ d.pc = c.then /\ d.new = 0 /\ d.then = "none" /\ d.doing = c.doing
            /\ d.mine = c.mine /\ d.block = c.block /\ d.alone = c.alone /\ d.name = c.name
            BY <3>3, <3>4, GotoGives
      <3> HIDE DEF d
      <3>6. Stage(d) BY <1>1, <3>3, <3>5 DEF Stage, Loaded
      <3>7. \A k : InLoop(c, proc, Live, k) => InLoop(d, proc, Live, k)
            BY <1>1, <3>5, <3>6, NobodyLives DEF InLoop, Loaded
      <3>8. \A k : OnPorts(c, k, stack) => OnPorts(d, k, stack)
            BY <1>1, <3>3, <3>5 DEF OnPorts
      <3>9. \A k : Checked(c, k, stack, tree, containers) => Checked(d, k, stack, tree, containers)
            BY <3>3, <3>5 DEF Checked
      <3>10. Excusable(d, os, proc) BY <3>3, <3>5 DEF Excusable
      <3> QED BY <3>2, <3>5, <3>7, <3>8, <3>9, <3>10
    <2> QED BY <2>1, <2>2, <2>3
  <1>6. command' = [command EXCEPT ![i] = d] /\ command'[i] = d
        /\ \A j \in Command : j # i => command'[j] = command[j]
        BY <1>1, <1>5 DEF Set, WorktreeTypeOK, TypeOK
  <1>7. ASSUME NEW b \in Known', b \notin Known PROVE b = c.new /\ c.alone /\ b \in Live /\ b # 0
    <2>1. b \in Live /\ b \notin excused' /\ \A j \in Command : command'[j].new # b
          BY <1>3, <1>7 DEF Known, Astray, Held
    <2>2. \A j \in Command : j # i => command[j].new # b BY <1>6, <2>1
    <2>3. b = c.new BY <1>4, <1>7, <2>1, <2>2 DEF Known, Astray, Held
    <2> QED BY <1>2, <2>1, <2>3, NobodyLives
  <1>8. \A b \in Known' : c.mine[proc[b].name] = b
    <2> SUFFICES ASSUME NEW b \in Known', b \notin Known PROVE c.mine[proc[b].name] = b
        BY <1>1 DEF InLoop, Loaded
    <2>1. b = c.new /\ b \in Live /\ b # 0 BY <1>7
    <2> HIDE DEF c
    <2> QED BY <1>1, <2>1 DEF InLoop, Stage
  <1>9. \A b \in Known' : proc[b].block = stack /\ stack # NoBlock
    <2> SUFFICES ASSUME NEW b \in Known', b \notin Known
                 PROVE  proc[b].block = stack /\ stack # NoBlock
        BY <1>1 DEF Ported
    <2>1. b = c.new /\ b \in Live /\ b # 0 /\ c.alone BY <1>7
    <2> HIDE DEF c
    <2>2. c.doing = "up" /\ c.block = stack /\ stack # NoBlock
          BY <1>1, <2>1 DEF Stage, OnPorts
    <2> QED BY <1>1, <2>1, <2>2 DEF InLoop
  <1>10. WorktreeTypeOK'
    <2>1. c.mine \in Record BY <1>1, ProgressFacts
    <2> QED BY <1>1, <1>2, <1>4, <1>5, <2>1 DEF WorktreeTypeOK, TypeOK, Set
  <1>11. Filed' BY <1>1, <1>2, <1>8 DEF Filed
  <1>12. Ported' BY <1>2, <1>9 DEF Ported
  <1>13. Boxed' BY <1>1, <1>2 DEF Boxed
  <1>14. InLoop(c, proc, Live, Known') BY <1>1, <1>8 DEF InLoop
  <1>15. OnPorts(c, Known', stack) /\ Checked(c, Known', stack, tree, containers)
    <2> HIDE DEF c
    <2>1. c.pc # "allocate" /\ c.pc \notin {"containers", "remove"} BY <1>1
    <2> QED BY <1>1, <2>1 DEF OnPorts, Checked
  <1>16. /\ InLoop(d, proc', Live', Known') /\ OnPorts(d, Known', stack')
         /\ Checked(d, Known', stack', tree', containers') /\ Excusable(d, os', proc')
         BY <1>2, <1>3, <1>5, <1>14, <1>15
  <1>17. c.alone \/ Known' \subseteq Known BY <1>7
  <1> QED BY <1>1, <1>2, <1>3, <1>5, <1>10, <1>11, <1>12, <1>13, <1>16, <1>17, StepKeeps

LEMMA SpawnKeeps ==
  ASSUME IInv, NEW i \in Command, Spawn(i), UNCHANGED tree
  PROVE  IInv'
  <1> DEFINE c == command[i]
  <1>1. /\ c \in Progress /\ c.pc = "spawn" /\ c.doing = "up" /\ Under(i) /\ Stage(c) /\ c.new = 0
        /\ Used(c.mine, proc) /\ c.mine[c.name] = 0 /\ WorktreeTypeOK /\ Filed /\ Ported /\ Boxed
        /\ InLoop(c, proc, Live, Known) /\ OnPorts(c, Known, stack)
        /\ Checked(c, Known, stack, tree, containers)
        /\ c.mine \in Record /\ c.name \in Name /\ c.block \in Block \cup {NoBlock}
        BY Standing, ProgressFacts DEF Spawn, At, Under, Stage
  <1>2. UNCHANGED <<file, stack, containers, excused, tree>> BY DEF Spawn, disk
  <1>3. PICK b \in Start, p \in Pid :
          /\ proc[b].pid = Foreign /\ FreePid(p)
          /\ os' = [os EXCEPT ![p] = b]
          /\ proc' = [proc EXCEPT ![b] = [name |-> c.name, pid |-> p, block |-> c.block]]
          /\ Set(i, [c EXCEPT !.pc = "sign", !.new = b])
        BY DEF Spawn
  <1> DEFINE e == [c EXCEPT !.pc = "sign"]
             d == [e EXCEPT !.new = b]
  <1>4. Set(i, d)
    <2>1. d = [c EXCEPT !.pc = "sign", !.new = b] BY <1>1 DEF Progress
    <2> QED BY <1>3, <2>1
  <1> HIDE DEF c
  <1>5. /\ e \in Progress /\ e.pc = "sign" /\ e.doing = c.doing /\ e.mine = c.mine
        /\ e.block = c.block /\ e.alone = c.alone /\ e.name = c.name
    <2>1. "sign" \in PCs BY DEF PCs
    <2> QED BY <1>1, <2>1, GotoGives
  <1> HIDE DEF e
  <1>6. b \in 0 .. MaxStarts /\ b # 0 /\ b # Foreign BY SupervisorAssumption DEF Start
  <1>7. /\ d \in Progress /\ d.pc = "sign" /\ d.doing = c.doing /\ d.mine = c.mine
        /\ d.block = c.block /\ d.alone = c.alone /\ d.name = c.name /\ d.new = b
        BY <1>5, <1>6 DEF Progress
  <1> HIDE DEF d
  <1>8. /\ os \in [Pid -> 0 .. MaxStarts \cup {Foreign}]
        /\ proc \in [Start -> [name : Name, pid : Pid \cup {Foreign}, block : Block \cup {NoBlock}]]
        BY <1>1 DEF WorktreeTypeOK, TypeOK
  <1>9. /\ \A a \in Start : a # b => proc'[a] = proc[a]
        /\ proc'[b].name = c.name /\ proc'[b].pid = p /\ proc'[b].block = c.block
        /\ os'[p] = b /\ \A q \in Pid : q # p => os'[q] = os[q]
        BY <1>3, <1>8
  <1>10. Foreign \notin Pid BY SupervisorAssumption
  <1>11. \A q \in Pid : os'[q] = Foreign => os[q] = Foreign BY <1>6, <1>9
  <1>12. ASSUME NEW a \in Live', a # b PROVE a \in Live /\ proc'[a] = proc[a]
    <2>1. a \in Start /\ proc'[a] = proc[a] /\ proc[a].pid # Foreign /\ os'[proc[a].pid] = a
          BY <1>9, <1>12 DEF Live
    <2>2. proc[a].pid \in Pid BY <1>8, <2>1
    <2>3. os[proc[a].pid] = a BY <1>9, <1>12, <2>1, <2>2
    <2> QED BY <2>1, <2>3 DEF Live
  <1>13. Onward
    <2>1. \A a \in Start : proc[a].pid \in Pid => proc'[a].pid = proc[a].pid
          BY <1>3, <1>9, <1>10
    <2>2. \A a \in Live' : proc[a].pid \in Pid => a \in Live /\ proc'[a] = proc[a]
          BY <1>3, <1>10, <1>12
    <2> QED BY <2>1, <2>2 DEF Onward
  <1>14. Known' \subseteq Known
    <2>1. \A a \in Live' : a \in Live \/ a = d.new BY <1>7, <1>12
    <2>2. c.new \notin Live'
      <3>1. Live' \subseteq Start BY DEF Live
      <3> QED BY <1>1, <3>1, SupervisorAssumption DEF Start
    <2> QED BY <1>1, <1>2, <1>4, <2>1, <2>2, KnownShrinks DEF Set, c
  <1>15. \A a \in Known' : a \in Known /\ proc'[a] = proc[a]
    <2>1. \A a \in Known' : a \in Live' /\ command'[i].new # a BY DEF Known, Astray, Held
    <2>2. command'[i] = d BY <1>1, <1>4 DEF Set, WorktreeTypeOK, TypeOK
    <2> QED BY <1>7, <1>12, <1>14, <2>1, <2>2
  <1>16. WorktreeTypeOK'
    <2>1. os' \in [Pid -> 0 .. MaxStarts \cup {Foreign}] BY <1>3, <1>6, <1>8
    <2>2. [name |-> c.name, pid |-> p, block |-> c.block]
            \in [name : Name, pid : Pid \cup {Foreign}, block : Block \cup {NoBlock}]
          BY <1>1
    <2>3. proc' \in [Start -> [name : Name, pid : Pid \cup {Foreign}, block : Block \cup {NoBlock}]]
          BY <1>3, <1>8, <2>2
    <2>4. command' \in [Command -> Progress]
          BY <1>1, <1>4, <1>7 DEF Set, WorktreeTypeOK, TypeOK
    <2> QED BY <1>1, <1>2, <2>1, <2>3, <2>4 DEF WorktreeTypeOK, TypeOK
  <1>17. Filed'
    <2>1. file # Torn => Used(file, proc')
          BY <1>1, <1>13, UsedStays DEF Filed, WorktreeTypeOK, TypeOK
    <2> QED BY <1>1, <1>2, <1>15, <2>1 DEF Filed
  <1>18. Ported' BY <1>1, <1>2, <1>15 DEF Ported
  <1>19. Boxed' BY <1>1, <1>2 DEF Boxed
  <1>20. InLoop(d, proc', Live', Known')
    <2>1. Stage(d) BY <1>1, <1>6, <1>7 DEF Stage
    <2>2. Used(d.mine, proc') BY <1>1, <1>7, <1>13, UsedStays
    <2>3. \A a \in Known' : d.mine[proc'[a].name] = a
          BY <1>1, <1>7, <1>15 DEF InLoop, Loaded
    <2> QED BY <1>7, <1>9, <2>1, <2>2, <2>3 DEF InLoop
  <1>21. OnPorts(d, Known', stack') BY <1>1, <1>2, <1>7 DEF OnPorts
  <1>22. Checked(d, Known', stack', tree', containers') BY <1>1, <1>2, <1>7 DEF Checked
  <1>23. Excusable(d, os', proc') BY <1>7 DEF Excusable
  <1> QED BY <1>1, <1>2, <1>4, <1>7, <1>11, <1>13, <1>14, <1>16, <1>17, <1>18, <1>19, <1>20, <1>21,
             <1>22, <1>23, StepKeeps DEF c

\* A start that lives ends, and with it what it was excused for.
LEMMA EndsFacts ==
  ASSUME WorktreeTypeOK, NEW b \in Start, proc[b].pid \in Pid,
         os' = [os EXCEPT ![proc[b].pid] = 0], Ends(b)
  PROVE  /\ Onward /\ b \notin Live' /\ \A a \in Live' : a \in Live /\ proc'[a] = proc[a]
         /\ \A p \in Pid : os'[p] = Foreign => os[p] = Foreign
         /\ \A a \in Live' : a \in excused => a \in excused'
         /\ os' \in [Pid -> 0 .. MaxStarts \cup {Foreign}]
         /\ proc' \in [Start -> [name : Name, pid : Pid \cup {Foreign}, block : Block \cup {NoBlock}]]
         /\ excused' \subseteq Start
  <1>1. /\ os \in [Pid -> 0 .. MaxStarts \cup {Foreign}]
        /\ proc \in [Start -> [name : Name, pid : Pid \cup {Foreign}, block : Block \cup {NoBlock}]]
        /\ excused \subseteq Start
        BY DEF WorktreeTypeOK, TypeOK
  <1> DEFINE q == proc[b].pid
  <1>2. /\ os'[q] = 0 /\ \A p \in Pid : p # q => os'[p] = os[p]
        /\ \A a \in Start : a # b => proc'[a] = proc[a]
        /\ proc'[b] = Ended(q) /\ proc'[b].pid = q
        BY <1>1 DEF Ends, Ended
  <1>3. Foreign # 0 /\ Foreign \notin Pid BY SupervisorAssumption
  <1>4. ASSUME NEW a \in Live' PROVE a \in Live /\ proc'[a] = proc[a] /\ a # b
    <2>1. a \in Start /\ a # 0 /\ proc'[a].pid # Foreign /\ os'[proc'[a].pid] = a
          BY SupervisorAssumption DEF Live, Start
    <2>2. a # b BY <1>2, <2>1
    <2>3. proc'[a] = proc[a] /\ proc[a].pid \in Pid BY <1>1, <1>2, <2>1, <2>2
    <2>4. os[proc[a].pid] = a BY <1>2, <2>1, <2>3
    <2> QED BY <2>1, <2>2, <2>3, <2>4 DEF Live
  <1>5. Onward BY <1>2, <1>4 DEF Onward
  <1>6. \A p \in Pid : os'[p] = Foreign => os[p] = Foreign BY <1>2, <1>3
  <1>7. os' \in [Pid -> 0 .. MaxStarts \cup {Foreign}]
    <2>1. 0 \in 0 .. MaxStarts \cup {Foreign} BY SupervisorAssumption
    <2> QED BY <1>1, <2>1
  <1>8. proc' \in [Start -> [name : Name, pid : Pid \cup {Foreign}, block : Block \cup {NoBlock}]]
    <2>1. Ended(q) \in [name : Name, pid : Pid \cup {Foreign}, block : Block \cup {NoBlock}]
          BY DEF Ended, Name
    <2> QED BY <1>1, <2>1 DEF Ends
  <1> QED BY <1>1, <1>4, <1>5, <1>6, <1>7, <1>8 DEF Ends

LEMMA AwaitExitKeeps ==
  ASSUME IInv, NEW i \in Command, AwaitExit(i), UNCHANGED tree
  PROVE  IInv'
  <1> DEFINE c == command[i]
             b == Mine(i)
  <1>1. /\ c \in Progress /\ c.pc = "await" /\ c.doing = "down" /\ Under(i) /\ Stage(c) /\ c.new = 0
        /\ b = c.mine[c.name] /\ b # 0 /\ WorktreeTypeOK /\ Filed /\ Ported /\ Boxed
        /\ InLoop(c, proc, Live, Known) /\ OnPorts(c, Known, stack)
        /\ Checked(c, Known, stack, tree, containers)
        BY Standing DEF AwaitExit, Under, Stage, Mine
  <1>2. UNCHANGED <<stack, containers>> BY DEF AwaitExit
  <1>3. CASE Leave(i) /\ UNCHANGED <<os, proc, file, excused>>
    <2>1. Hush BY <1>2, <1>3 DEF Hush
    <2> QED BY <1>1, <1>3, <2>1, LeaveHushed
  <1>4. CASE os' = [os EXCEPT ![proc[b].pid] = 0] /\ Ends(b) /\ Save(i, 0, "next")
    <2>1. /\ b \in Start /\ proc[b].pid \in Pid /\ c.name \in Name /\ c.mine \in Record
          <3>1. b \in 0 .. MaxStarts /\ c.name \in Name /\ c.mine \in Record BY <1>1, ProgressFacts
          <3>2. b \in Start BY <1>1, <3>1, SupervisorAssumption DEF Start
          <3> QED BY <1>1, <3>1, <3>2 DEF InLoop, Used
    <2> HIDE DEF b
    <2>2. /\ Onward /\ b \notin Live' /\ \A a \in Live' : a \in Live /\ proc'[a] = proc[a]
          /\ \A p \in Pid : os'[p] = Foreign => os[p] = Foreign
          /\ \A a \in Live' : a \in excused => a \in excused'
          /\ os' \in [Pid -> 0 .. MaxStarts \cup {Foreign}]
          /\ proc' \in [Start -> [name : Name, pid : Pid \cup {Foreign}, block : Block \cup {NoBlock}]]
          /\ excused' \subseteq Start
          BY <1>1, <1>4, <2>1, EndsFacts
    <2> DEFINE z == 0
    <2>3. z \in 0 .. MaxStarts /\ Save(i, z, "next") BY <1>4, SupervisorAssumption
    <2> HIDE DEF z
    <2>4. PICK d \in Progress : Set(i, d) /\ d.then = "next" /\ Noted(c, d, z)
          BY <1>1, <2>3, SaveSets, ThoseThens
    <2>5. Fits(c, d, z) BY <1>1, <2>4 DEF Fits, z
    <2>6. file' = Torn BY <1>4 DEF Save
    <2>7. Known' \subseteq Known
      <3>1. Live' \subseteq Start BY DEF Live
      <3>2. c.new \notin Live' BY <1>1, <3>1, SupervisorAssumption DEF Start
      <3> QED BY <1>1, <2>2, <2>4, <3>2, KnownShrinks DEF Set
    <2>8. WorktreeTypeOK'
      <3>1. command' \in [Command -> Progress]
            BY <1>1, <2>4 DEF Set, WorktreeTypeOK, TypeOK
      <3> QED BY <1>1, <1>2, <2>2, <2>6, <3>1 DEF WorktreeTypeOK, TypeOK
    <2>9. \A a \in Known' : a \in Known /\ a \in Live' /\ proc'[a] = proc[a]
      <3>1. Known' \subseteq Live' BY DEF Known
      <3> QED BY <2>2, <2>7, <3>1
    <2> HIDE DEF c
    <2>10. \A a \in Known' : proc'[a].name \in Name /\ proc'[a].name # c.name
           BY <1>1, <2>2, <2>9, KnownIsAlive DEF InLoop, Loaded
    <2>11. Filed' BY <2>6 DEF Filed
    <2>12. Ported' BY <1>1, <1>2, <2>9 DEF Ported
    <2>13. Boxed' BY <1>1, <1>2 DEF Boxed
    <2>14. Alike(c, c) BY DEF Alike
    <2>15. InLoop(c, proc', Live', Known') BY <1>1, <2>2, <2>7, <2>14, LoopStays
    <2>16. OnPorts(c, Known', stack') BY <1>1, <1>2, <2>7 DEF OnPorts
    <2>17. Checked(c, Known', stack', tree', containers') BY <1>1, <1>2, <2>7 DEF Checked
    <2>18. 0 \notin Live'
      <3>1. Live' \subseteq Start BY DEF Live
      <3> QED BY <3>1, SupervisorAssumption DEF Start
    <2>19. c.pc \in {"check", "sign", "poll", "await"} BY <1>1
    <2>20. /\ InLoop(d, proc', Live', Known') /\ OnPorts(d, Known', stack')
           /\ Checked(d, Known', stack', tree', containers') /\ Excusable(d, os', proc')
           BY <1>1, <2>3, <2>4, <2>5, <2>10, <2>15, <2>16, <2>17, <2>18, <2>19, NotedStands
    <2>21. d.alone = c.alone BY <2>4 DEF Noted
    <2> QED BY <1>1, <1>2, <2>2, <2>4, <2>7, <2>8, <2>11, <2>12, <2>13, <2>20, <2>21, StepKeeps DEF c
  <1> QED BY <1>3, <1>4 DEF AwaitExit

\* When down turns to the containers its payload is empty, and so nothing is known to run.
LEMMA DownIsDone ==
  ASSUME IInv, NEW i \in Command, At(i, "down", "compose")
  PROVE  Known = {}
  <1>1. SUFFICES ASSUME NEW b \in Known PROVE FALSE OBVIOUS
  <1>2. b # 0 /\ proc[b].name \in Name BY Standing, KnownIsAlive
  <1>3. command[i].mine[proc[b].name] = b BY Standing DEF InLoop, Loaded, At
  <1>4. command[i].mine["app"] = 0 /\ command[i].mine["worker"] = 0
        BY Standing DEF Stage, Loaded, At
  <1> QED BY <1>2, <1>3, <1>4 DEF Name

LEMMA ComposeDownKeeps ==
  ASSUME IInv, NEW i \in Command, ComposeDown(i), UNCHANGED tree
  PROVE  IInv'
  <1> DEFINE c == command[i]
  <1>1. /\ c \in Progress /\ At(i, "down", "compose") /\ c.pc = "compose" /\ Under(i) /\ c.new = 0
        /\ WorktreeTypeOK /\ Known = {} /\ c.alone \in BOOLEAN
        BY Standing, DownIsDone, ProgressFacts DEF ComposeDown, At, Under, Stage
  <1>2. UNCHANGED <<os, proc, stack, excused>> /\ containers' \in {containers, NoBlock}
        BY DEF ComposeDown
  <1>3. CASE Leave(i) /\ file' = file
    BY <1>1, <1>2, <1>3, LeaveKeeps, NobodyLives DEF WorktreeTypeOK, TypeOK
  <1>4. CASE file' = Nobody /\ Set(i, [Rest EXCEPT !.doing = "up", !.pc = "config", !.alone = c.alone])
    <2> DEFINE d1 == [Rest EXCEPT !.doing = "up"]
               d2 == [d1 EXCEPT !.pc = "config"]
               d  == [d2 EXCEPT !.alone = c.alone]
    <2>1. Set(i, d)
      <3>1. d = [Rest EXCEPT !.doing = "up", !.pc = "config", !.alone = c.alone]
            BY RestGives DEF Progress
      <3> QED BY <1>4, <3>1
    <2> HIDE DEF c
    <2>2. /\ d1 \in Progress /\ d1.doing = "up" /\ d1.mine = Nobody /\ d1.new = 0
          /\ d1.block = NoBlock /\ d1.then = "none" /\ d1.name = "app"
          BY RestGives DEF Progress
    <2> HIDE DEF d1
    <2>3. /\ d2 \in Progress /\ d2.doing = "up" /\ d2.mine = Nobody /\ d2.new = 0
          /\ d2.block = NoBlock /\ d2.pc = "config"
          BY <2>2 DEF Progress
    <2> HIDE DEF d2
    <2>4. /\ d \in Progress /\ d.doing = "up" /\ d.mine = Nobody /\ d.new = 0
          /\ d.block = NoBlock /\ d.pc = "config" /\ d.alone = c.alone
          BY <1>1, <2>3 DEF Progress
    <2> HIDE DEF d
    <2>5. Stage(d) BY <2>4 DEF Stage, Loaded
    <2>6. ~Loaded(d) BY <2>4 DEF Loaded
    <2>7. InLoop(d, proc, Live, Known) BY <2>4, <2>5, <2>6, NobodyLives, NobodyIsUsed DEF InLoop
    <2>8. /\ OnPorts(d, Known, stack) /\ Checked(d, Known, stack, tree, containers')
          /\ Excusable(d, os, proc)
          BY <2>4 DEF OnPorts, Checked, Excusable
    <2>9. /\ file' \in Record \cup {Torn} /\ Used(file', proc)
          /\ \A b \in Known : file'[proc[b].name] = b
          BY <1>1, <1>4, NobodyIsUsed
    <2>10. /\ containers' \in Block \cup {NoBlock} /\ excused' = excused /\ excused \subseteq Start
           BY <1>1, <1>2 DEF WorktreeTypeOK, TypeOK
    <2> QED BY <1>1, <1>2, <2>1, <2>4, <2>7, <2>8, <2>9, <2>10, NobodyLives, QuietKeeps DEF c
  <1> QED BY <1>3, <1>4 DEF ComposeDown

LEMMA LooksIsHush ==
  ASSUME NEW i \in Command, Looks
  PROVE  Hush
  BY DEF Looks, Hush, disk

LEMMA FindMergedKeeps ==
  ASSUME IInv, NEW i \in Command, FindMerged(i)
  PROVE  IInv'
  <1>1. command[i].pc = "find" /\ command[i].doing = "clean" /\ Under(i) /\ Hush
        BY LooksIsHush DEF FindMerged, Cleaning, At, Under
  <1>2. CASE tree = "present" /\ Goto(i, "status") BY <1>1, <1>2, GotoKeeps, ThosePCs
  <1>3. CASE Leave(i) BY <1>1, <1>3, LeaveHushed
  <1> QED BY <1>2, <1>3 DEF FindMerged

LEMMA CheckStatusKeeps ==
  ASSUME IInv, NEW i \in Command, CheckStatus(i)
  PROVE  IInv'
  <1>1. command[i].pc = "status" /\ command[i].doing = "clean" /\ Under(i) /\ Hush
        BY LooksIsHush DEF CheckStatus, Cleaning, At, Under
  <1>2. CASE tree = "present" /\ Goto(i, "record") BY <1>1, <1>2, GotoKeeps, ThosePCs
  <1>3. CASE Leave(i) BY <1>1, <1>3, LeaveHushed
  <1> QED BY <1>2, <1>3 DEF CheckStatus

\* A record that can be read and names nobody alive says that nothing known is running.
LEMMA CheckRecordKeeps ==
  ASSUME IInv, NEW i \in Command, CheckRecord(i)
  PROVE  IInv'
  <1>1. command[i].pc = "record" /\ command[i].doing = "clean" /\ Under(i) /\ Hush
        BY LooksIsHush DEF CheckRecord, Cleaning, At, Under
  <1>2. CASE Leave(i) BY <1>1, <1>2, LeaveHushed
  <1>3. CASE /\ Goto(i, "containers") /\ file # Torn
             /\ ~ \E n \in Name : file[n] # 0 /\ PidAlive(file[n])
    <2>1. Known = {}
      <3> SUFFICES ASSUME NEW b \in Known PROVE FALSE OBVIOUS
      <3>1. b # 0 /\ PidAlive(b) /\ proc[b].name \in Name BY Standing, KnownIsAlive
      <3>2. file[proc[b].name] = b BY <1>3, Standing DEF Filed
      <3> QED BY <1>3, <3>1, <3>2
    <2>2. command[i].alone => tree = "present" BY <1>1, Standing DEF Checked
    <2> QED BY <1>1, <1>3, <2>1, <2>2, GotoKeeps, ThosePCs
  <1> QED BY <1>2, <1>3 DEF CheckRecord

LEMMA CheckContainersKeeps ==
  ASSUME IInv, NEW i \in Command, CheckContainers(i)
  PROVE  IInv'
  <1>1. command[i].pc = "containers" /\ command[i].doing = "clean" /\ Under(i) /\ Hush
        BY LooksIsHush DEF CheckContainers, Cleaning, At, Under
  <1>2. CASE Leave(i) BY <1>1, <1>2, LeaveHushed
  <1>3. CASE (stack = NoBlock \/ (stack # Torn /\ containers = NoBlock)) /\ Goto(i, "remove")
    <2>1. Known = {} /\ (command[i].alone => tree = "present") BY <1>1, Standing DEF Checked
    <2>2. command[i].alone => containers = NoBlock BY <1>3, <2>1, Standing DEF Boxed
    <2> QED BY <1>1, <1>3, <2>1, <2>2, GotoKeeps, ThosePCs
  <1> QED BY <1>2, <1>3 DEF CheckContainers

LEMMA RemoveKeeps ==
  ASSUME IInv, NEW i \in Command, Remove(i)
  PROVE  IInv'
  <1> DEFINE c == command[i]
  <1>1. /\ c \in Progress /\ c.pc = "remove" /\ c.doing = "clean" /\ Under(i) /\ Stage(c)
        /\ c.new = 0 /\ Used(c.mine, proc) /\ WorktreeTypeOK /\ Known = {}
        BY Standing DEF Remove, Cleaning, At, Under, Stage, Checked
  <1>2. UNCHANGED <<os, proc, containers, excused>> BY DEF Remove
  <1>3. CASE Leave(i) /\ UNCHANGED <<tree, file, stack>>
    <2>1. Hush BY <1>2, <1>3 DEF Hush
    <2> QED BY <1>1, <1>3, <2>1, LeaveHushed
  <1>4. CASE tree' = "removed" /\ file' = Nobody /\ stack' = NoBlock /\ Goto(i, "branch")
    <2> DEFINE d == [c EXCEPT !.pc = "branch"]
    <2>1. Set(i, d) BY <1>4 DEF Goto
    <2>2. Onward /\ Live' = Live /\ \A p \in Pid : os'[p] = Foreign => os[p] = Foreign
          BY <1>2, Quiet
    <2> HIDE DEF c
    <2>3. /\ d \in Progress /\ d.pc = "branch" /\ d.doing = c.doing /\ d.mine = c.mine
          /\ d.new = c.new /\ d.block = c.block /\ d.alone = c.alone /\ d.name = c.name
          BY <1>1, GotoGives, ThosePCs
    <2> HIDE DEF d
    <2>4. Known' = {} BY <1>1, <1>2, <2>1, <2>2, <2>3, KnownShrinks DEF Set, c
    <2>5. WorktreeTypeOK'
          BY <1>1, <1>2, <1>4, <2>1, <2>3, NobodyIsUsed
          DEF WorktreeTypeOK, TypeOK, Set
    <2>6. Filed' /\ Ported' /\ Boxed'
          BY <1>4, <2>4, NobodyIsUsed DEF Filed, Ported, Boxed
    <2>7. Stage(d) /\ ~Loaded(d) BY <1>1, <2>3 DEF Stage, Loaded
    <2>8. InLoop(d, proc', Live', Known')
          BY <1>1, <1>2, <2>2, <2>3, <2>7, NobodyLives DEF InLoop
    <2>9. /\ OnPorts(d, Known', stack') /\ Checked(d, Known', stack', tree', containers')
          /\ Excusable(d, os', proc')
          BY <1>1, <1>4, <2>3 DEF OnPorts, Checked, Excusable
    <2> QED BY <1>1, <1>4, <2>1, <2>2, <2>3, <2>4, <2>5, <2>6, <2>8, <2>9, StepKeeps DEF c
  <1> QED BY <1>3, <1>4 DEF Remove

LEMMA DeleteBranchKeeps ==
  ASSUME IInv, NEW i \in Command, DeleteBranch(i)
  PROVE  IInv'
  <1>1. /\ command[i].pc = "branch" /\ command[i].doing = "clean" /\ Under(i) /\ command[i].new = 0
        /\ WorktreeTypeOK /\ Filed /\ Ported /\ Boxed /\ tree # "present"
        BY Standing DEF DeleteBranch, Cleaning, At, Under, Stage, Checked
  <1>2. /\ UNCHANGED <<os, proc, file, stack, containers, excused>>
        /\ tree' \in {tree, "deleted"}
        BY DEF DeleteBranch, disk
  <1>3. Set(i, Rest) /\ Rest \in Progress /\ Rest.pc = "idle" BY RestGives DEF DeleteBranch, Leave
  <1>4. Onward /\ Live' = Live /\ \A p \in Pid : os'[p] = Foreign => os[p] = Foreign
        BY <1>2, Quiet
  <1>5. Known' \subseteq Known
        BY <1>1, <1>2, <1>3, <1>4, NobodyLives, KnownShrinks DEF Set
  <1>6. WorktreeTypeOK'
        BY <1>1, <1>2, <1>3 DEF WorktreeTypeOK, TypeOK, Set
  <1>7. Filed' BY <1>1, <1>2, <1>5 DEF Filed
  <1>8. Ported' BY <1>1, <1>2, <1>5 DEF Ported
  <1>9. Boxed' BY <1>1, <1>2 DEF Boxed
  <1>10. /\ InLoop(Rest, proc', Live', Known') /\ OnPorts(Rest, Known', stack')
         /\ Checked(Rest, Known', stack', tree', containers') /\ Excusable(Rest, os', proc')
         BY <1>4, RestIsFine, NobodyLives
  <1>11. (tree' = tree \/ tree' # "present") /\ (stack' = stack \/ stack' # NoBlock \/ tree' # "present")
         BY <1>1, <1>2
  <1> QED BY <1>1, <1>3, <1>4, <1>5, <1>6, <1>7, <1>8, <1>9, <1>10, <1>11, StepKeeps
-----------------------------------------------------------------------------
(***************************************************************************)
(* The steps of nobody's, and those that change every command.             *)
(***************************************************************************)
LEMMA AlikeKnown ==
  ASSUME WorktreeTypeOK, \A j \in Command : command'[j].new = command[j].new,
         Live' \subseteq Live, \A b \in Live' : b \in excused => b \in excused'
  PROVE  Known' \subseteq Known
  <1>1. Held' = Held BY DEF Held
  <1> QED BY <1>1 DEF Known, Astray

\* All commands stay where they are, and the file, stack.env and the tree too.
LEMMA AlikeKeeps ==
  ASSUME IInv, WorktreeTypeOK', Onward, Live' \subseteq Live,
         \A b \in Live' : b \in excused => b \in excused',
         UNCHANGED <<file, stack, tree>>, containers' \in {containers, NoBlock},
         \A j \in Command : Alike(command[j], command'[j]) /\ Excusable(command'[j], os', proc')
  PROVE  IInv'
  <1>1. WorktreeTypeOK /\ Solitude /\ Filed /\ Ported /\ Boxed BY DEF IInv
  <1>2. Known' \subseteq Known BY <1>1, AlikeKnown DEF Alike
  <1>3. Solitude' BY <1>1 DEF Solitude, Under, Alike
  <1>4. \A b \in Known' : b \in Known /\ proc'[b] = proc[b]
    <2>1. Known' \subseteq Live' BY DEF Known
    <2> QED BY <1>1, <1>2, <2>1, LiveFacts DEF Onward
  <1>5. Filed'
    <2>1. file # Torn => Used(file, proc')
          BY <1>1, UsedStays DEF Filed, WorktreeTypeOK, TypeOK
    <2> QED BY <1>1, <1>4, <2>1 DEF Filed
  <1>6. Ported' BY <1>1, <1>4 DEF Ported
  <1>7. Boxed' BY <1>1 DEF Boxed
  <1>8. ASSUME NEW j \in Command
        PROVE  /\ InLoop(command'[j], proc', Live', Known')
               /\ OnPorts(command'[j], Known', stack')
               /\ Checked(command'[j], Known', stack', tree', containers')
    <2> DEFINE c == command[j]
               d == command'[j]
    <2>1. /\ c \in Progress /\ d \in Progress /\ Alike(c, d)
          /\ InLoop(c, proc, Live, Known) /\ OnPorts(c, Known, stack)
          /\ Checked(c, Known, stack, tree, containers)
          BY <1>8, Standing DEF WorktreeTypeOK, TypeOK
    <2> HIDE DEF c, d
    <2>2. InLoop(d, proc', Live', Known') BY <1>1, <1>2, <2>1, LoopStays
    <2>3. OnPorts(d, Known', stack') BY <1>2, <2>1, PortsStay
    <2>4. Checked(d, Known', stack', tree', containers') BY <1>2, <2>1, CheckedStays
    <2> QED BY <2>2, <2>3, <2>4 DEF d
  <1> QED BY <1>3, <1>5, <1>6, <1>7, <1>8 DEF IInv

\* Where nobody takes a PID, whoever is excusable stays so.
LEMMA StillExcusable ==
  ASSUME IInv, Onward, \A p \in Pid : os'[p] = Foreign => os[p] = Foreign, command' = command
  PROVE  \A j \in Command : Alike(command[j], command'[j]) /\ Excusable(command'[j], os', proc')
  <1> TAKE j \in Command
  <1> DEFINE c == command[j]
  <1>1. /\ c \in Progress /\ WorktreeTypeOK /\ Excusable(c, os, proc) /\ Stage(c)
        /\ Used(c.mine, proc) /\ command'[j] = c
        BY Standing
  <1> HIDE DEF c
  <1>2. Alike(c, c) BY DEF Alike
  <1>3. Excusable(c, os', proc') BY <1>1, <1>2, ExcusableStays
  <1> QED BY <1>1, <1>2, <1>3 DEF c

LEMMA ExitKeeps ==
  ASSUME IInv, NEW b \in Start, Exit(b), UNCHANGED tree
  PROVE  IInv'
  <1>1. WorktreeTypeOK /\ proc[b].pid \in Pid
        BY LiveFacts DEF Exit, IInv
  <1>2. UNCHANGED <<file, stack, containers, command, tree>> BY DEF Exit, disk
  <1>3. /\ Onward /\ \A a \in Live' : a \in Live
        /\ \A p \in Pid : os'[p] = Foreign => os[p] = Foreign
        /\ \A a \in Live' : a \in excused => a \in excused'
        /\ os' \in [Pid -> 0 .. MaxStarts \cup {Foreign}]
        /\ proc' \in [Start -> [name : Name, pid : Pid \cup {Foreign}, block : Block \cup {NoBlock}]]
        /\ excused' \subseteq Start
        BY <1>1, EndsFacts DEF Exit
  <1>4. WorktreeTypeOK' BY <1>1, <1>2, <1>3 DEF WorktreeTypeOK, TypeOK
  <1>5. \A j \in Command : Alike(command[j], command'[j]) /\ Excusable(command'[j], os', proc')
        BY <1>2, <1>3, StillExcusable
  <1> QED BY <1>2, <1>3, <1>4, <1>5, AlikeKeeps

\* No start of the worktree loses a PID to a process of somebody else, or by its leaving.
LEMMA ForeignFacts ==
  ASSUME WorktreeTypeOK, NEW p \in Pid, NEW x \in {0, Foreign}, os[p] \in {0, Foreign},
         os' = [os EXCEPT ![p] = x], proc' = proc
  PROVE  Onward /\ Live' \subseteq Live /\ os' \in [Pid -> 0 .. MaxStarts \cup {Foreign}]
  <1>1. /\ os \in [Pid -> 0 .. MaxStarts \cup {Foreign}]
        /\ proc \in [Start -> [name : Name, pid : Pid \cup {Foreign}, block : Block \cup {NoBlock}]]
        BY DEF WorktreeTypeOK, TypeOK
  <1>2. os'[p] = x /\ \A q \in Pid : q # p => os'[q] = os[q] BY <1>1
  <1>3. ASSUME NEW a \in Live' PROVE a \in Live
    <2>1. a \in Start /\ a # 0 /\ a # Foreign /\ proc[a].pid # Foreign /\ os'[proc[a].pid] = a
          BY SupervisorAssumption DEF Live, Start
    <2>2. proc[a].pid \in Pid BY <1>1, <2>1
    <2>3. os[proc[a].pid] = a BY <1>2, <2>1, <2>2
    <2> QED BY <2>1, <2>3 DEF Live
  <1>4. Onward BY <1>3 DEF Onward
  <1>5. x \in 0 .. MaxStarts \cup {Foreign} BY SupervisorAssumption
  <1> QED BY <1>1, <1>3, <1>4, <1>5

LEMMA ForeignExitsKeeps ==
  ASSUME IInv, NEW p \in Pid, ForeignExits(p), UNCHANGED tree
  PROVE  IInv'
  <1>1. WorktreeTypeOK BY DEF IInv
  <1>2. /\ UNCHANGED <<proc, file, stack, containers, command, excused, tree>>
        /\ os' = [os EXCEPT ![p] = 0] /\ os[p] = Foreign
        BY DEF ForeignExits, disk
  <1>3. Onward /\ Live' \subseteq Live /\ os' \in [Pid -> 0 .. MaxStarts \cup {Foreign}]
        BY <1>1, <1>2, ForeignFacts
  <1>4. \A q \in Pid : os'[q] = Foreign => os[q] = Foreign
        BY <1>1, <1>2, SupervisorAssumption DEF WorktreeTypeOK, TypeOK
  <1>5. WorktreeTypeOK' BY <1>1, <1>2, <1>3 DEF WorktreeTypeOK, TypeOK
  <1>6. \A j \in Command : Alike(command[j], command'[j]) /\ Excusable(command'[j], os', proc')
        BY <1>2, <1>3, <1>4, StillExcusable
  <1> QED BY <1>2, <1>3, <1>5, <1>6, AlikeKeeps

LEMMA ForeignTakesKeeps ==
  ASSUME IInv, NEW p \in Pid, ForeignTakes(p), UNCHANGED tree
  PROVE  IInv'
  <1>1. WorktreeTypeOK /\ command \in [Command -> Progress] BY DEF IInv, WorktreeTypeOK, TypeOK
  <1>2. /\ UNCHANGED <<proc, file, stack, containers, excused, tree>>
        /\ os' = [os EXCEPT ![p] = Foreign] /\ os[p] = 0
        BY DEF ForeignTakes, disk, FreePid
  <1>3. Onward /\ Live' \subseteq Live /\ os' \in [Pid -> 0 .. MaxStarts \cup {Foreign}]
        BY <1>1, <1>2, ForeignFacts
  <1>4. ASSUME NEW j \in Command
        PROVE  /\ command'[j] \in Progress /\ Alike(command[j], command'[j])
               /\ Excusable(command'[j], os', proc')
    <2> DEFINE c == command[j]
               x == c.reused \/ (c.pc \in {"signal", "await"} /\ proc[Mine(j)].pid = p)
               d == [c EXCEPT !.reused = x]
    <2>1. command'[j] = d BY <1>1 DEF ForeignTakes
    <2>2. c \in Progress /\ Excusable(c, os, proc) /\ Stage(c) /\ Used(c.mine, proc)
          /\ x \in BOOLEAN
          BY Standing
    <2>3. c.pc \in {"signal", "await"} /\ proc[c.mine[c.name]].pid = p => x BY DEF Mine
    <2>4. c.reused => x OBVIOUS
    <2> HIDE DEF c, x
    <2>5. /\ d \in Progress /\ d.doing = c.doing /\ d.pc = c.pc /\ d.then = c.then
          /\ d.name = c.name /\ d.mine = c.mine /\ d.new = c.new /\ d.block = c.block
          /\ d.alone = c.alone /\ d.reused = x
          BY <2>2 DEF Progress
    <2> HIDE DEF d
    <2>6. Alike(c, d) BY <2>4, <2>5 DEF Alike
    <2>7. Excusable(d, os', proc')
      <3>1. CASE c.pc \in {"signal", "await"}
        <4>1. c.mine[c.name] # 0 BY <2>2, <3>1 DEF Stage
        <4>2. proc[c.mine[c.name]].pid \in Pid BY <2>2, <4>1, ProgressFacts DEF Used
        <4>3. \A q \in Pid : q # p => os'[q] = os[q] BY <1>1, <1>2 DEF WorktreeTypeOK, TypeOK
        <4> QED BY <1>2, <2>2, <2>3, <2>4, <2>5, <3>1, <4>2, <4>3 DEF Excusable
      <3>2. CASE c.pc \notin {"signal", "await"} BY <2>5, <3>2 DEF Excusable
      <3> QED BY <3>1, <3>2
    <2> QED BY <2>1, <2>5, <2>6, <2>7 DEF c
  <1>5. command' \in [Command -> Progress]
    <2>1. DOMAIN command' = Command /\ command' = [j \in Command |-> command'[j]]
          BY DEF ForeignTakes
    <2> QED BY <1>4, <2>1
  <1>6. WorktreeTypeOK' BY <1>1, <1>2, <1>3, <1>5 DEF WorktreeTypeOK, TypeOK
  <1> QED BY <1>2, <1>3, <1>4, <1>6, AlikeKeeps

\* Containers removed by hand, and stuttering.
LEMMA NothingMoves ==
  ASSUME IInv, UNCHANGED <<os, proc, file, stack, command, excused, tree>>,
         containers' \in {containers, NoBlock}
  PROVE  IInv'
  <1>1. WorktreeTypeOK BY DEF IInv
  <1>2. Onward /\ Live' = Live /\ \A p \in Pid : os'[p] = Foreign => os[p] = Foreign BY Quiet
  <1>3. WorktreeTypeOK' BY <1>1 DEF WorktreeTypeOK, TypeOK
  <1>4. \A j \in Command : Alike(command[j], command'[j]) /\ Excusable(command'[j], os', proc')
        BY <1>2, StillExcusable
  <1> QED BY <1>2, <1>3, <1>4, AlikeKeeps

\* A command that begins is alone when nobody is under way; from then on nobody else is alone.
LEMMA BeginKeeps ==
  ASSUME IInv, NEW i \in Command, NEW doing \in {"up", "down", "clean"}, NEW reset \in BOOLEAN,
         Begin(i, doing, reset), UNCHANGED tree
  PROVE  IInv'
  <1>1. /\ WorktreeTypeOK /\ Solitude /\ Filed /\ Ported /\ Boxed /\ command \in [Command -> Progress]
        BY DEF IInv, WorktreeTypeOK, TypeOK
  <1>2. UNCHANGED <<os, proc, file, stack, containers, excused, tree>> /\ ~Under(i)
        BY DEF Begin, disk
  <1>3. Onward /\ Live' = Live /\ \A p \in Pid : os'[p] = Foreign => os[p] = Foreign
        BY <1>2, Quiet
  <1> DEFINE lone == \A k \in Command : ~Under(k)
             q == CASE doing = "clean" -> "find"
                    [] doing = "down" /\ ~reset -> "recall"
                    [] OTHER -> "config"
             d1 == [Rest EXCEPT !.doing = doing]
             d2 == [d1 EXCEPT !.reset = reset]
             d3 == [d2 EXCEPT !.pc = q]
             d  == [d3 EXCEPT !.alone = lone]
  <1>4. command'[i] = d
    <2>1. command'[i] = [Rest EXCEPT !.doing = doing, !.reset = reset, !.pc = q, !.alone = lone]
          BY DEF Begin
    <2>2. d = [Rest EXCEPT !.doing = doing, !.reset = reset, !.pc = q, !.alone = lone]
          BY RestGives DEF Progress
    <2> QED BY <2>1, <2>2
  <1>5. lone \in BOOLEAN /\ q \in {"find", "recall", "config"} /\ (q = "recall" => doing = "down")
        OBVIOUS
  <1>6. lone => \A k \in Command : ~Under(k) OBVIOUS
  <1> HIDE DEF lone, q
  <1>7. /\ d1 \in Progress /\ d1.doing = doing /\ d1.mine = Nobody /\ d1.new = 0
        /\ d1.block = NoBlock /\ d1.then = "none" /\ d1.name = "app"
        BY RestGives DEF Progress
  <1> HIDE DEF d1
  <1>8. /\ d2 \in Progress /\ d2.doing = doing /\ d2.mine = Nobody /\ d2.new = 0
        /\ d2.block = NoBlock /\ d2.then = "none" /\ d2.name = "app"
        BY <1>7 DEF Progress
  <1> HIDE DEF d2
  <1>9. /\ d3 \in Progress /\ d3.doing = doing /\ d3.mine = Nobody /\ d3.new = 0
        /\ d3.block = NoBlock /\ d3.then = "none" /\ d3.name = "app" /\ d3.pc = q
        BY <1>5, <1>8 DEF Progress
  <1> HIDE DEF d3
  <1>10. /\ d \in Progress /\ d.doing = doing /\ d.mine = Nobody /\ d.new = 0
         /\ d.block = NoBlock /\ d.then = "none" /\ d.name = "app" /\ d.pc = q /\ d.alone = lone
         BY <1>5, <1>9 DEF Progress
  <1> HIDE DEF d
  <1>11. ASSUME NEW j \in Command, j # i
         PROVE  /\ command'[j] \in Progress /\ Alike(command[j], command'[j])
                /\ command'[j].alone => ~Under(j)
    <2> DEFINE c == command[j]
               x == c.alone /\ ~Under(j)
               e == [c EXCEPT !.alone = x]
    <2>1. command'[j] = e BY <1>11 DEF Begin
    <2>2. c \in Progress /\ x \in BOOLEAN /\ (x => c.alone /\ ~Under(j))
          BY <1>1, ProgressFacts DEF Under
    <2> HIDE DEF c, x
    <2>3. /\ e \in Progress /\ e.doing = c.doing /\ e.pc = c.pc /\ e.then = c.then
          /\ e.name = c.name /\ e.mine = c.mine /\ e.new = c.new /\ e.block = c.block
          /\ e.alone = x /\ e.reused = c.reused
          BY <2>2 DEF Progress
    <2> HIDE DEF e
    <2> QED BY <2>1, <2>2, <2>3 DEF Alike, c
  <1>12. command' \in [Command -> Progress]
    <2>1. command' = [j \in Command |-> command'[j]] BY DEF Begin
    <2>2. \A j \in Command : command'[j] \in Progress BY <1>4, <1>10, <1>11
    <2> QED BY <2>1, <2>2
  <1>13. WorktreeTypeOK' BY <1>1, <1>2, <1>12 DEF WorktreeTypeOK, TypeOK
  <1>14. Known' \subseteq Known
    <2>1. command[i].new = 0 BY <1>2, Standing DEF Stage, Under
    <2>2. \A j \in Command : command'[j].new = command[j].new
          BY <1>4, <1>10, <1>11, <2>1 DEF Alike
    <2> QED BY <1>1, <1>2, <1>3, <2>2, AlikeKnown
  <1>15. Filed' BY <1>1, <1>2, <1>14 DEF Filed
  <1>16. Ported' BY <1>1, <1>2, <1>14 DEF Ported
  <1>17. Boxed' BY <1>1, <1>2 DEF Boxed
  <1>18. Solitude'
    <2> SUFFICES ASSUME NEW j \in Command, NEW k \in Command, j # k, Under(j)', command'[j].alone
                 PROVE  ~Under(k)'
        BY DEF Solitude
    <2>1. CASE j = i
      <3>1. ~Under(k) BY <1>4, <1>6, <1>10, <2>1
      <3> QED BY <1>11, <2>1, <3>1 DEF Under, Alike
    <2>2. CASE j # i
      <3>1. ~Under(j) /\ Under(j) BY <1>11, <2>2 DEF Under, Alike
      <3> QED BY <3>1
    <2> QED BY <2>1, <2>2
  <1>19. ASSUME NEW j \in Command
         PROVE  /\ InLoop(command'[j], proc', Live', Known')
                /\ OnPorts(command'[j], Known', stack')
                /\ Checked(command'[j], Known', stack', tree', containers')
                /\ Excusable(command'[j], os', proc')
    <2>1. CASE j = i
      <3>1. Stage(d) /\ ~Loaded(d) BY <1>5, <1>10 DEF Stage, Loaded
      <3>2. InLoop(d, proc', Live', Known')
            BY <1>3, <1>10, <3>1, NobodyLives, NobodyIsUsed DEF InLoop
      <3>3. /\ OnPorts(d, Known', stack') /\ Checked(d, Known', stack', tree', containers')
            /\ Excusable(d, os', proc')
            BY <1>5, <1>10 DEF OnPorts, Checked, Excusable
      <3> QED BY <1>4, <2>1, <3>2, <3>3
    <2>2. CASE j # i
      <3> DEFINE c == command[j]
                 e == command'[j]
      <3>1. /\ c \in Progress /\ e \in Progress /\ Alike(c, e)
            /\ InLoop(c, proc, Live, Known) /\ OnPorts(c, Known, stack)
            /\ Checked(c, Known, stack, tree, containers) /\ Excusable(c, os, proc)
            /\ Stage(c) /\ Used(c.mine, proc)
            BY <1>11, <2>2, Standing
      <3> HIDE DEF c, e
      <3>2. InLoop(e, proc', Live', Known') BY <1>1, <1>3, <1>14, <3>1, LoopStays
      <3>3. OnPorts(e, Known', stack') BY <1>2, <1>14, <3>1, PortsStay
      <3>4. Checked(e, Known', stack', tree', containers') BY <1>2, <1>14, <3>1, CheckedStays
      <3>5. Excusable(e, os', proc') BY <1>1, <1>3, <3>1, ExcusableStays
      <3> QED BY <3>2, <3>3, <3>4, <3>5 DEF e
    <2> QED BY <2>1, <2>2
  <1> QED BY <1>13, <1>15, <1>16, <1>17, <1>18, <1>19 DEF IInv
-----------------------------------------------------------------------------
(***************************************************************************)
(* The invariant.                                                          *)
(***************************************************************************)
LEMMA InitIInv == WorktreeInit => IInv
  <1> SUFFICES ASSUME WorktreeInit PROVE IInv OBVIOUS
  <1>1. /\ os = [p \in Pid |-> 0] /\ proc = [b \in Start |-> Ended(Foreign)] /\ file = Nobody
        /\ stack = NoBlock /\ containers = NoBlock /\ command = [i \in Command |-> Rest]
        /\ excused = {} /\ tree = "present"
        BY DEF WorktreeInit, Init
  <1>2. Live = {} /\ Known = {}
    <2>1. \A b \in Start : proc[b].pid = Foreign BY <1>1 DEF Ended
    <2> QED BY <2>1 DEF Live, Known
  <1>3. WorktreeTypeOK
    <2>1. os \in [Pid -> 0 .. MaxStarts \cup {Foreign}]
      <3>1. 0 \in 0 .. MaxStarts \cup {Foreign} BY SupervisorAssumption
      <3> QED BY <1>1, <3>1
    <2>2. proc \in [Start -> [name : Name, pid : Pid \cup {Foreign}, block : Block \cup {NoBlock}]]
      <3>1. Ended(Foreign) \in [name : Name, pid : Pid \cup {Foreign}, block : Block \cup {NoBlock}]
            BY DEF Ended, Name
      <3> QED BY <1>1, <3>1
    <2> QED BY <1>1, <2>1, <2>2, RestGives, NobodyIsUsed DEF WorktreeTypeOK, TypeOK
  <1>4. Filed /\ Ported /\ Boxed BY <1>1, <1>2, NobodyIsUsed DEF Filed, Ported, Boxed
  <1>5. \A i \in Command : command[i] = Rest /\ ~Under(i) BY <1>1, RestGives DEF Under
  <1>6. \A i \in Command : /\ InLoop(command[i], proc, Live, Known)
                           /\ OnPorts(command[i], Known, stack)
                           /\ Checked(command[i], Known, stack, tree, containers)
                           /\ Excusable(command[i], os, proc)
        BY <1>5, RestIsFine, NobodyLives
  <1> QED BY <1>3, <1>4, <1>5, <1>6 DEF IInv, Solitude

LEMMA StackStepKeeps ==
  ASSUME IInv, NEW i \in Command, StackStep(i)
  PROVE  IInv'
  <1>1. UNCHANGED tree BY DEF StackStep
  <1>2. CASE LoadConfig(i) BY <1>1, <1>2, LoadConfigKeeps
  <1>3. CASE AllocatePorts(i) BY <1>1, <1>3, AllocatePortsKeeps
  <1>4. CASE LoadProcesses(i) BY <1>1, <1>4, LoadProcessesKeeps
  <1>5. CASE Write(i) BY <1>1, <1>5, WriteKeeps
  <1>6. CASE ComposeUp(i)
    <2>1. tree = "present" BY <1>6 DEF StackStep, ComposeUp, At
    <2> QED BY <1>1, <1>6, <2>1, ComposeUpKeeps
  <1>7. CASE CheckStart(i) BY <1>1, <1>7, CheckStartKeeps
  <1>8. CASE Spawn(i) BY <1>1, <1>8, SpawnKeeps
  <1>9. CASE Sign(i) BY <1>1, <1>9, SignKeeps
  <1>10. CASE Poll(i) BY <1>1, <1>10, PollKeeps
  <1>11. CASE WaitReady(i) BY <1>1, <1>11, WaitReadyKeeps
  <1>12. CASE CheckStop(i) BY <1>1, <1>12, CheckStopKeeps
  <1>13. CASE Terminate(i) BY <1>1, <1>13, TerminateKeeps
  <1>14. CASE AwaitExit(i) BY <1>1, <1>14, AwaitExitKeeps
  <1>15. CASE ComposeDown(i) BY <1>1, <1>15, ComposeDownKeeps
  <1>16. CASE WriteEnv(i) BY <1>1, <1>16, WriteEnvKeeps
  <1>17. CASE RecallConfig(i) BY <1>1, <1>17, RecallConfigKeeps
  <1> QED BY <1>2, <1>3, <1>4, <1>5, <1>6, <1>7, <1>8, <1>9, <1>10, <1>11, <1>12, <1>13, <1>14,
             <1>15, <1>16, <1>17 DEF StackStep, Step, Up, Down

LEMMA CleanKeeps ==
  ASSUME IInv, NEW i \in Command, Clean(i)
  PROVE  IInv'
  BY FindMergedKeeps, CheckStatusKeeps, CheckRecordKeeps, CheckContainersKeeps, RemoveKeeps,
     DeleteBranchKeeps DEF Clean

LEMMA OutsideKeeps ==
  ASSUME IInv, Outside
  PROVE  IInv'
  <1>1. UNCHANGED tree BY DEF Outside
  <1>2. CASE \E b \in Start : Exit(b) BY <1>1, <1>2, ExitKeeps
  <1>3. CASE \E p \in Pid : ForeignTakes(p) BY <1>1, <1>3, ForeignTakesKeeps
  <1>4. CASE \E p \in Pid : ForeignExits(p) BY <1>1, <1>4, ForeignExitsKeeps
  <1>5. CASE containers' = NoBlock /\ UNCHANGED <<os, proc, file, stack, command, excused>>
    BY <1>1, <1>5, NothingMoves
  <1> QED BY <1>2, <1>3, <1>4, <1>5 DEF Outside

LEMMA NextKeeps == IInv /\ [Next]_allvars => IInv'
  <1> SUFFICES ASSUME IInv, [Next]_allvars PROVE IInv' OBVIOUS
  <1>2. ASSUME NEW i \in Command, NEW doing \in {"up", "down"}, NEW reset \in BOOLEAN,
               BeginUpOrDown(i, doing, reset)
        PROVE  IInv'
    <2>1. doing \in {"up", "down", "clean"} OBVIOUS
    <2> QED BY <1>2, <2>1, BeginKeeps DEF BeginUpOrDown
  <1>3. ASSUME NEW i \in Command, BeginClean(i) PROVE IInv'
    <2> DEFINE doing == "clean"
    <2>1. doing \in {"up", "down", "clean"} /\ FALSE \in BOOLEAN OBVIOUS
    <2>2. Begin(i, doing, FALSE) /\ UNCHANGED tree BY <1>3 DEF BeginClean
    <2> HIDE DEF doing
    <2> QED BY <2>1, <2>2, BeginKeeps
  <1>4. ASSUME NEW i \in Command, StackStep(i) PROVE IInv' BY <1>4, StackStepKeeps
  <1>5. ASSUME NEW i \in Command, Clean(i) PROVE IInv' BY <1>5, CleanKeeps
  <1>6. ASSUME NEW i \in Command, Kill(i) PROVE IInv' BY <1>6, InterruptKeeps DEF Kill
  <1>8. CASE Outside BY <1>8, OutsideKeeps
  <1>9. CASE UNCHANGED allvars BY <1>9, NothingMoves DEF allvars, vars, disk
  <1> QED BY <1>2, <1>3, <1>4, <1>5, <1>6, <1>8, <1>9 DEF Next

LEMMA Inductive == Spec => []IInv
  BY InitIInv, NextKeeps, PTL DEF Spec
-----------------------------------------------------------------------------
(***************************************************************************)
(* What it gives.                                                          *)
(***************************************************************************)

\* The records, the payloads and the PIDs hold only what the program can put there.
THEOREM TypeCorrect == Spec => []WorktreeTypeOK
  <1>1. IInv => WorktreeTypeOK BY DEF IInv
  <1> QED BY <1>1, Inductive, PTL

\* processes.json (_save_processes, _load_processes) names every process that lives, except one
\* its up has not recorded yet, never recorded, or recorded while other commands were under way.
THEOREM RecordComplete == Spec => []RecordIsComplete
  <1>1. IInv => RecordIsComplete BY DEF IInv, Filed, Known, RecordIsComplete
  <1> QED BY <1>1, Inductive, PTL

\* down removes the containers only when everything it had to stop is gone (_stop_process has
\* been through both names).
THEOREM DownStopsAll == Spec => []DownLeavesNothing
  <1>1. IInv => DownLeavesNothing
    <2> SUFFICES ASSUME IInv, NEW i \in Command, At(i, "down", "compose") PROVE Live \subseteq Astray
        BY DEF DownLeavesNothing
    <2>1. Known = {} BY DownIsDone
    <2> QED BY <2>1 DEF Known
  <1> QED BY <1>1, Inductive, PTL

\* stack.env names the ports of what runs (load_config, _allocate_ports): later commands reach it.
THEOREM PortsStayTheSame == Spec => []PortsPersist
  <1>1. IInv => PortsPersist BY DEF IInv, Ported, Known, PortsPersist
  <1> QED BY <1>1, Inductive, PTL

\* No signal goes to a process that had the PID already when pid_owned was asked about it.
THEOREM SignalsAreMeant == Spec => NothingForeignIsSignalled
  <1>1. IInv => \A i \in Command :
          (Terminate(i) \/ AwaitExit(i)) /\ os[proc[Mine(i)].pid] = Foreign => command[i].reused
    <2> SUFFICES ASSUME IInv, NEW i \in Command, Terminate(i) \/ AwaitExit(i),
                        os[proc[Mine(i)].pid] = Foreign
                 PROVE  command[i].reused
        OBVIOUS
    <2>1. command[i].pc \in {"signal", "await"} BY DEF Terminate, AwaitExit
    <2> QED BY <2>1, Standing DEF Excusable, Mine
  <1> QED BY <1>1, Inductive, PTL DEF NothingForeignIsSignalled

\* A clean (clean_worktree) removes the worktree when no process lives in it but those the
\* record promises nothing about, whatever other commands did since it read the record; and
\* when no container is left either, if it was the only command.
THEOREM RemovedIsIdle == Spec => IdleWhenRemoved
  <1>1. IInv => \A i \in Command :
          Remove(i) /\ tree' = "removed"
            => Live \subseteq Astray /\ (command[i].alone => containers = NoBlock)
    <2> SUFFICES ASSUME IInv, NEW i \in Command, Remove(i)
                 PROVE  Live \subseteq Astray /\ (command[i].alone => containers = NoBlock)
        OBVIOUS
    <2>1. command[i].pc = "remove" /\ command[i].doing = "clean"
          BY DEF Remove, Cleaning, At
    <2>2. Known = {} /\ (command[i].alone => containers = NoBlock)
          BY <2>1, Standing DEF Checked
    <2> QED BY <2>2 DEF Known
  <1> QED BY <1>1, Inductive, PTL DEF IdleWhenRemoved
=============================================================================
