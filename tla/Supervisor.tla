----------------------------- MODULE Supervisor -----------------------------
(***************************************************************************)
(* The development stack of one worktree (tools/dev.py): the commands up,  *)
(* down and db-reset.  They run the app and the worker as processes of     *)
(* their own, record those in .run/processes.json and the stack's ports in *)
(* .run/stack.env, and keep no lock.                                       *)
(*                                                                         *)
(* Commands overlap (recipes of the Justfile call up on their own) and may *)
(* be killed anywhere; processes exit by themselves; a PID that is free    *)
(* may come to name a process of somebody else.  Worktree adds the command *)
(* that removes the worktree, and the next-state relation.                 *)
(***************************************************************************)
EXTENDS Naturals

CONSTANTS
  Command,    \* invocations of the tool that may be under way together
  Pid,        \* process ids
  Block,      \* blocks of six ports
  Foreign,    \* a process this worktree did not start
  Torn,       \* a file (processes.json or stack.env) truncated and not written yet
  NoBlock,    \* no stack.env; no containers
  MaxStarts   \* bound: processes the worktree starts

Name   == {"app", "worker"}
Start  == 1 .. MaxStarts
Record == [Name -> 0 .. MaxStarts]

ASSUME SupervisorAssumption == /\ MaxStarts \in Nat /\ Foreign \notin (0 .. MaxStarts) \cup Pid
                               /\ NoBlock \notin Block /\ Torn \notin Record \cup Block \cup {NoBlock}

VARIABLES
  os,          \* what runs under each PID: nothing (0), the worktree's b-th start, or Foreign
  proc,        \* what each start was: its PID, and, while it lives, its name and block
  file,        \* processes.json: the start recorded under each name, 0 for none
  stack,       \* the block in stack.env
  containers,  \* the block the Compose containers publish
  command,     \* where each command stands
  excused      \* starts their up did not record, or not while it was the only command

disk == <<file, stack, containers>>
vars == <<os, proc, disk, command, excused>>

\* `mine` is the payload the command loaded, `new` the start it is watching, `alone` whether no
\* other command was under way with it so far, `reused` whether a foreign process took the
\* PID it checked.
Progress == [ doing : {"none", "up", "down", "clean"}, reset : BOOLEAN,
              pc    : {"idle", "config", "allocate", "env", "compose", "recall", "load", "check",
                       "spawn", "sign", "write", "poll", "ready", "signal", "await",
                       "find", "status", "record", "containers", "remove", "branch"},
              then  : {"none", "spawn", "poll", "next", "fail"},
              name  : Name, mine : Record, new : 0 .. MaxStarts, block : Block \cup {NoBlock},
              alone : BOOLEAN, reused : BOOLEAN ]

TypeOK == /\ os \in [Pid -> 0 .. MaxStarts \cup {Foreign}]
          /\ proc \in [Start -> [name : Name, pid : Pid \cup {Foreign}, block : Block \cup {NoBlock}]]
          /\ file \in Record \cup {Torn}
          /\ stack \in Block \cup {NoBlock, Torn} /\ containers \in Block \cup {NoBlock}
          /\ command \in [Command -> Progress]
          /\ excused \subseteq Start

Nobody == [n \in Name |-> 0]
Rest   == [ doing |-> "none", reset |-> FALSE, pc |-> "idle", then |-> "none", name |-> "app",
            mine |-> Nobody, new |-> 0, block |-> NoBlock, alone |-> TRUE, reused |-> FALSE ]

\* What is kept of a start that has ended, or never was: the PID that records name it by.
Ended(p) == [name |-> "app", pid |-> p, block |-> NoBlock]

Init == /\ os = [p \in Pid |-> 0]
        /\ proc = [b \in Start |-> Ended(Foreign)]
        /\ file = Nobody /\ stack = NoBlock /\ containers = NoBlock
        /\ command = [i \in Command |-> Rest]
        /\ excused = {}
-----------------------------------------------------------------------------
Under(i)         == command[i].pc # "idle"
Live             == {b \in Start : proc[b].pid # Foreign /\ os[proc[b].pid] = b}
Held             == {command[i].new : i \in Command}
At(i, doing, pc) == command[i].doing = doing /\ command[i].pc = pc
Set(i, progress) == command' = [command EXCEPT ![i] = progress]
Goto(i, pc)      == Set(i, [command[i] EXCEPT !.pc = pc])
Leave(i)         == Set(i, Rest)

Ends(b) == /\ proc' = [proc EXCEPT ![b] = Ended(proc[b].pid)]
           /\ excused' = excused \ {b}

\* What the command's payload records under the current name.
Mine(i) == command[i].mine[command[i].name]

\* A PID is not given out again before the command that started its holder reaped it.
Unreaped(p) == \E i \in Command :
  IF command[i].new # 0 THEN p = proc[command[i].new].pid
  ELSE At(i, "up", "poll") /\ p = proc[Mine(i)].pid
FreePid(p) == os[p] = 0 /\ ~Unreaped(p)

\* pid_alive: signal 0 finds somebody, be it what has not been reaped yet.
PidAlive(b) == ~FreePid(proc[b].pid)

\* Mutation: a live PID is taken for the process it was recorded for.
PidOwnedIfAlive(b) == PidAlive(b)

\* pid_owned: the PID is alive and its start time and command line are the recorded ones.
PidOwned(b) == os[proc[b].pid] = b

\* Mutation: down is done after one process.
NextProcessOnce(i) ==
  LET c == [command[i] EXCEPT !.new = 0, !.then = "none", !.reused = FALSE] IN
  Set(i, IF c.doing = "down" THEN [c EXCEPT !.pc = "compose"]
         ELSE IF c.name = "app" THEN [c EXCEPT !.name = "worker", !.pc = "check"]
         ELSE [c EXCEPT !.pc = "ready"])

\* The next turn of the loop over the processes, or what follows the loop.
NextProcess(i) ==
  LET c == [command[i] EXCEPT !.new = 0, !.then = "none", !.reused = FALSE] IN
  Set(i, IF c.doing = "up"
         THEN IF c.name = "app" THEN [c EXCEPT !.name = "worker", !.pc = "check"]
              ELSE [c EXCEPT !.pc = "ready"]
         ELSE IF c.name = "worker" THEN [c EXCEPT !.name = "app", !.pc = "check"]
              ELSE [c EXCEPT !.pc = "compose"])

\* processes[name] = b and _save_processes, which truncates the file and then writes it.
Save(i, b, then) ==
  /\ Set(i, [command[i] EXCEPT !.mine[command[i].name] = b, !.pc = "write", !.then = then])
  /\ file' = Torn

\* A command begins: up, down, db-reset (which is down, the record removed, and up) or clean.
Begin(i, doing, reset) ==
  /\ ~Under(i) /\ (reset => doing = "down")
  /\ command' = [j \in Command |->
       IF j = i THEN [Rest EXCEPT !.doing = doing, !.reset = reset,
                                  !.pc = CASE doing = "clean" -> "find"
                                           [] doing = "down" /\ ~reset -> "recall"
                                           [] OTHER -> "config",
                                  !.alone = \A k \in Command : ~Under(k)]
       ELSE [command[j] EXCEPT !.alone = @ /\ ~Under(j)]]
  /\ UNCHANGED <<os, proc, disk, excused>>

Configured(i, block) ==
  Set(i, [command[i] EXCEPT !.block = block,
                            !.pc = IF command[i].doing = "up" THEN "compose" ELSE "recall"])

\* Mutation: the ports are chosen anew each time.
LoadConfigAnew(i) == /\ command[i].pc = "config" /\ Goto(i, "allocate")
                     /\ UNCHANGED <<os, proc, disk, excused>>

\* Mutation: a stack.env without its values is not refused.
LoadConfigUnchecked(i) ==
  /\ command[i].pc = "config"
  /\ IF stack # NoBlock THEN Configured(i, stack) ELSE Goto(i, "allocate")
  /\ UNCHANGED <<os, proc, disk, excused>>

\* load_config: the block on disk, if there is one; a torn file is refused.
LoadConfig(i) == /\ command[i].pc = "config"
                 /\ \/ stack \in Block /\ Configured(i, stack)
                    \/ stack = NoBlock /\ Goto(i, "allocate")
                    \/ stack = Torn /\ Leave(i)
                 /\ UNCHANGED <<os, proc, disk, excused>>

\* The same, for down, which can do without.
RecallConfig(i) == /\ command[i].pc = "recall"
                   /\ IF stack = Torn THEN Leave(i)
                      ELSE Set(i, [command[i] EXCEPT !.block = stack, !.pc = "load"])
                   /\ UNCHANGED <<os, proc, disk, excused>>

\* _allocate_ports finds a free block, whoever else holds the others, and write_dotenv
\* truncates stack.env to write it; or there is none.
AllocatePorts(i) ==
  /\ command[i].pc = "allocate"
  /\ \/ \E x \in Block : /\ containers # x /\ \A b \in Live : proc[b].block # x
                         /\ Set(i, [command[i] EXCEPT !.block = x, !.pc = "env"])
                         /\ stack' = Torn
     \/ Leave(i) /\ UNCHANGED stack
  /\ UNCHANGED <<os, proc, file, containers, excused>>

WriteEnv(i) == /\ command[i].pc = "env"
               /\ stack' = command[i].block /\ Configured(i, command[i].block)
               /\ UNCHANGED <<os, proc, file, containers, excused>>

\* The ports Compose publishes: those stack.env names by now, or else its defaults.
Published == IF stack \in Block THEN {stack} ELSE Block

\* docker compose up -d --wait, and the migrations; either may fail.
ComposeUp(i) ==
  /\ At(i, "up", "compose")
  /\ \/ containers' \in Published /\ Goto(i, "load")
     \/ containers' \in {containers} \cup Published /\ Leave(i)
  /\ UNCHANGED <<os, proc, file, stack, excused>>

\* _load_processes; a torn file is no JSON.
LoadProcesses(i) ==
  /\ command[i].pc = "load"
  /\ IF file = Torn THEN Leave(i)
     ELSE Set(i, [command[i] EXCEPT !.pc = "check", !.mine = file,
                    !.name = IF command[i].doing = "up" THEN "app" ELSE "worker"])
  /\ UNCHANGED <<os, proc, disk, excused>>

\* Mutation: the record is not looked at.
CheckStartAnew(i) == /\ At(i, "up", "check") /\ Goto(i, "spawn")
                     /\ UNCHANGED <<os, proc, disk, excused>>

\* _start_process, the recorded process: reused when it is ours, refused when somebody else
\* has its PID, forgotten when the PID is gone.
CheckStart(i) ==
  /\ At(i, "up", "check")
  /\ IF Mine(i) = 0 THEN Goto(i, "spawn") /\ UNCHANGED file
     ELSE IF ~PidAlive(Mine(i)) THEN Save(i, 0, "spawn")
     ELSE UNCHANGED file /\ IF PidOwned(Mine(i)) THEN NextProcess(i) ELSE Leave(i)
  /\ UNCHANGED <<os, proc, stack, containers, excused>>

\* subprocess.Popen.
Spawn(i) == /\ At(i, "up", "spawn")
            /\ \E b \in Start, p \in Pid :
                 /\ proc[b].pid = Foreign /\ \A a \in 1 .. b - 1 : proc[a].pid # Foreign
                 /\ FreePid(p)
                 /\ os' = [os EXCEPT ![p] = b]
                 /\ proc' = [proc EXCEPT ![b] = [name |-> command[i].name, pid |-> p,
                                                 block |-> command[i].block]]
                 /\ Set(i, [command[i] EXCEPT !.pc = "sign", !.new = b])
            /\ UNCHANGED <<disk, excused>>

\* Its start time is read, and it is recorded; or ps has nothing to say and it is told to stop.
Sign(i) == LET b == command[i].new IN
  /\ command[i].pc = "sign"
  /\ \/ Save(i, b, "poll") /\ UNCHANGED excused
     \/ Leave(i) /\ excused' = excused \cup ({b} \cap Live) /\ UNCHANGED file
  /\ UNCHANGED <<os, proc, stack, containers>>

\* The file is written; whatever the command still had to do follows.
Write(i) == LET c == [command[i] EXCEPT !.new = 0, !.then = "none"] IN
  /\ command[i].pc = "write"
  /\ file' = command[i].mine
  /\ CASE command[i].then = "next" -> NextProcess(i)
       [] command[i].then = "fail" -> Leave(i)
       [] OTHER                    -> Set(i, [c EXCEPT !.pc = command[i].then])
  /\ excused' = IF command[i].alone THEN excused ELSE excused \cup ({command[i].new} \cap Live)
  /\ UNCHANGED <<os, proc, stack, containers>>

\* process.poll() after three quarters of a second.
Poll(i) == /\ At(i, "up", "poll")
           /\ IF Mine(i) \in Live THEN NextProcess(i) /\ UNCHANGED file
              ELSE Save(i, 0, "fail")
           /\ UNCHANGED <<os, proc, stack, containers, excused>>

\* _wait_ready: both are found running and the application answers, or up fails.
WaitReady(i) == /\ At(i, "up", "ready") /\ Leave(i)
                /\ UNCHANGED <<os, proc, disk, excused>>

\* _stop_process, before it signals: nothing recorded, PID gone, or PID of somebody else.
CheckStop(i) ==
  /\ At(i, "down", "check")
  /\ IF Mine(i) = 0 THEN NextProcess(i) /\ UNCHANGED file
     ELSE IF ~PidAlive(Mine(i)) THEN Save(i, 0, "next")
     ELSE UNCHANGED file /\ IF PidOwned(Mine(i)) THEN Goto(i, "signal") ELSE Leave(i)
  /\ UNCHANGED <<os, proc, stack, containers, excused>>

\* The process group led by b is gone, so that a signal to it fails (killpg raises).
NoGroup(b) == os[proc[b].pid] # b /\ ~Unreaped(proc[b].pid)

\* SIGTERM to the process group.
Terminate(i) == /\ command[i].pc = "signal"
                /\ \/ Goto(i, "await")
                   \/ NoGroup(Mine(i)) /\ Leave(i)
                /\ UNCHANGED <<os, proc, disk, excused>>

\* The PID goes within ten seconds, or SIGKILL ends whatever has it; it too can come too late.
AwaitExit(i) == LET b == Mine(i) IN
  /\ command[i].pc = "await"
  /\ \/ /\ os' = [os EXCEPT ![proc[b].pid] = 0] /\ Ends(b)
        /\ Save(i, 0, "next")
     \/ NoGroup(b) /\ Leave(i) /\ UNCHANGED <<os, proc, file, excused>>
  /\ UNCHANGED <<stack, containers>>

\* docker compose down, where there is a stack and a docker; db-reset then removes the record
\* and goes on with up.
ComposeDown(i) ==
  /\ At(i, "down", "compose")
  /\ \/ /\ containers' \in IF command[i].block = NoBlock THEN {containers} ELSE {NoBlock, containers}
        /\ IF command[i].reset
           THEN /\ file' = Nobody
                /\ Set(i, [Rest EXCEPT !.doing = "up", !.pc = "config", !.alone = command[i].alone])
           ELSE Leave(i) /\ UNCHANGED file
     \/ Leave(i) /\ UNCHANGED <<file, containers>>
  /\ UNCHANGED <<os, proc, stack, excused>>

\* Ctrl-C or a kill of the tool; what it started has a session of its own and lives on.
Interrupt(i) == /\ Under(i) /\ Leave(i)
                /\ excused' = excused \cup ({command[i].new} \cap Live)
                /\ UNCHANGED <<os, proc, disk>>

\* A process exits, of itself or because it was told to.
Exit(b) == /\ b \in Live /\ os' = [os EXCEPT ![proc[b].pid] = 0] /\ Ends(b)
           /\ UNCHANGED <<disk, command>>

\* A process of somebody else gets a free PID, and one leaves it.
ForeignTakes(p) ==
  /\ FreePid(p) /\ os' = [os EXCEPT ![p] = Foreign]
  /\ command' = [i \in Command |->
       [command[i] EXCEPT !.reused = @ \/ /\ command[i].pc \in {"signal", "await"}
                                          /\ proc[Mine(i)].pid = p]]
  /\ UNCHANGED <<proc, disk, excused>>

ForeignExits(p) == /\ os[p] = Foreign /\ os' = [os EXCEPT ![p] = 0]
                   /\ UNCHANGED <<proc, disk, command, excused>>

Up(i)   == \/ ComposeUp(i) \/ CheckStart(i) \/ Spawn(i) \/ Sign(i) \/ Poll(i) \/ WaitReady(i)
Down(i) == \/ CheckStop(i) \/ Terminate(i) \/ AwaitExit(i) \/ ComposeDown(i)
Step(i) == \/ LoadConfig(i) \/ AllocatePorts(i) \/ WriteEnv(i) \/ RecallConfig(i)
           \/ LoadProcesses(i) \/ Write(i) \/ Up(i) \/ Down(i)
-----------------------------------------------------------------------------
(***************************************************************************)
(* Properties.                                                             *)
(***************************************************************************)

\* Starts about which the record promises nothing: see the variables.
Astray == excused \cup Held

\* Every process the worktree started stays in the record while it lives, however commands
\* overlap and die afterwards: it can be lost only by what happened before its own up had
\* recorded it.  (A torn file is read by no command.)
RecordIsComplete == file # Torn => \A b \in Live \ Astray : file[proc[b].name] = b

\* When down turns to the containers, everything it had to stop is gone.
DownLeavesNothing == \A i \in Command : At(i, "down", "compose") => Live \subseteq Astray

\* No signal goes to a process that was somebody else's when the command checked its PID.
NothingForeignIsSignalled ==
  [][\A i \in Command : (Terminate(i) \/ AwaitExit(i)) /\ os[proc[Mine(i)].pid] = Foreign
                           => command[i].reused]_vars

\* Processes run on the ports that stack.env names, which later commands use to reach them.
PortsPersist == \A b \in Live \ Astray : proc[b].block = stack
=============================================================================
