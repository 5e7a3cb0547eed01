------------------------------ MODULE Worktree ------------------------------
(***************************************************************************)
(* The life of a worktree: the commands of Supervisor, and clean_worktree  *)
(* (tools/dev.py), run from another checkout, which removes the worktree   *)
(* and its branch once the pull request is merged and nothing runs.  It    *)
(* checks these one after another while the other commands go on.  Git has *)
(* its own reasons to refuse, changes and commits that are nowhere else:   *)
(* what becomes of those is git's and not followed here.                   *)
(***************************************************************************)
EXTENDS Supervisor

VARIABLE tree  \* the worktree and its branch are there, the branch is left, or both are gone

allvars == <<vars, tree>>

WorktreeTypeOK == TypeOK /\ tree \in {"present", "removed", "deleted"}

WorktreeInit == Init /\ tree = "present"

Cleaning(i, pc) == At(i, "clean", pc)
Looks           == UNCHANGED <<os, proc, disk, excused, tree>>
-----------------------------------------------------------------------------
\* The branch is checked out in a worktree and GitHub has its pull request merged.
FindMerged(i) == /\ Cleaning(i, "find")
                 /\ \/ tree = "present" /\ Goto(i, "status")
                    \/ Leave(i)
                 /\ Looks

\* git status --porcelain prints nothing, or there are local changes.
CheckStatus(i) == /\ Cleaning(i, "status")
                  /\ \/ tree = "present" /\ Goto(i, "record")
                     \/ Leave(i)
                  /\ Looks

\* Mutation: the record is not read.
CheckRecordNot(i) == Cleaning(i, "record") /\ Goto(i, "containers") /\ Looks

\* processes.json can be read and none of its PIDs is alive.
CheckRecord(i) == LET alive == \E n \in Name : file[n] # 0 /\ PidAlive(file[n]) IN
  /\ Cleaning(i, "record")
  /\ IF file = Torn \/ alive THEN Leave(i) ELSE Goto(i, "containers")
  /\ Looks

\* stack.env names a project, of which docker ps lists no container; or it names none, or
\* docker cannot tell.
CheckContainers(i) ==
  /\ Cleaning(i, "containers")
  /\ \/ /\ stack = NoBlock \/ (stack # Torn /\ containers = NoBlock)
        /\ Goto(i, "remove")
     \/ stack # NoBlock /\ Leave(i)
  /\ Looks

\* git worktree remove; what git ignores (.run) goes with the rest.
Remove(i) ==
  /\ Cleaning(i, "remove")
  /\ \/ /\ tree = "present" /\ tree' = "removed"
        /\ file' = Nobody /\ stack' = NoBlock /\ Goto(i, "branch")
     \/ Leave(i) /\ UNCHANGED <<tree, file, stack>>
  /\ UNCHANGED <<os, proc, containers, excused>>

\* git branch -d.
DeleteBranch(i) == /\ Cleaning(i, "branch") /\ Leave(i)
                   /\ tree' \in {tree, "deleted"}
                   /\ UNCHANGED <<os, proc, disk, excused>>

Clean(i) == \/ FindMerged(i) \/ CheckStatus(i) \/ CheckRecord(i)
            \/ CheckContainers(i) \/ Remove(i) \/ DeleteBranch(i)
-----------------------------------------------------------------------------
\* The tool starts from a worktree, clean from another one.
BeginUpOrDown(i, doing, reset) == tree = "present" /\ Begin(i, doing, reset) /\ UNCHANGED tree
BeginClean(i) == Begin(i, "clean", FALSE) /\ UNCHANGED tree

\* docker and the migrations need the files of the worktree; the rest makes .run again.
StackStep(i) == /\ (tree # "present" => command[i].pc # "compose")
                /\ Step(i) /\ UNCHANGED tree

Kill(i) == Interrupt(i) /\ UNCHANGED tree

\* Containers are also removed by hand.
Outside == /\ \/ \E b \in Start : Exit(b)
              \/ \E p \in Pid : ForeignTakes(p) \/ ForeignExits(p)
              \/ /\ containers # NoBlock /\ containers' = NoBlock
                 /\ UNCHANGED <<os, proc, file, stack, command, excused>>
           /\ UNCHANGED tree

Next == \/ \E i \in Command :
             \/ \E doing \in {"up", "down"}, reset \in BOOLEAN : BeginUpOrDown(i, doing, reset)
             \/ BeginClean(i) \/ StackStep(i) \/ Clean(i) \/ Kill(i)
        \/ Outside

Spec == WorktreeInit /\ [][Next]_allvars
-----------------------------------------------------------------------------
(***************************************************************************)
(* Properties.                                                             *)
(***************************************************************************)

\* Whatever runs beside it, a clean removes the worktree only when no process is left in it,
\* but for those the record promises nothing about; and a clean that had the worktree to
\* itself, only when there are no containers either.  (Containers that an overlapping up
\* starts after docker was asked are not seen.)
IdleWhenRemoved == [][\A i \in Command :
  Remove(i) /\ tree' = "removed"
    => Live \subseteq Astray /\ (command[i].alone => containers = NoBlock)]_allvars
=============================================================================
