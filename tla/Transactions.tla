---------------------------- MODULE Transactions ----------------------------
(***************************************************************************)
(* TransactionRunner.run (adapters/persistence/engine.py): one operation   *)
(* in a session of its own, committed when it returns and rolled back when *)
(* anything is raised.  A cancellation of the task reaches every await,    *)
(* the anyio shields included; commit and rollback give up after a timeout *)
(* while PostgreSQL may still be at work on what it was sent.              *)
(*                                                                         *)
(* The module that extends this one says what operations do.               *)
(***************************************************************************)
CONSTANT Call   \* calls of run

VARIABLES
  client,  \* where each call stands in the application
  txn      \* its transaction in PostgreSQL

Ended == {"returned", "refused", "unknown"}

TransactionsTypeOK ==
  /\ client \in [Call -> {"idle", "operating", "committing", "closing", "undoing", "recovering"}
                           \cup Ended]
  /\ txn \in [Call -> {"none", "open", "sent", "committed", "aborted"}]

TransactionsInit == client = [c \in Call |-> "idle"] /\ txn = [c \in Call |-> "none"]

Unsettled(c)   == txn[c] \in {"open", "sent"}
Operating(c)   == client[c] = "operating" /\ txn[c] = "open"
Turn(c, to)    == client' = [client EXCEPT ![c] = to]
Becomes(c, to) == txn' = [txn EXCEPT ![c] = to]
-----------------------------------------------------------------------------
\* A session, and its transaction with the first statement.
Begin(c) == /\ client[c] = "idle" /\ Turn(c, "operating") /\ Becomes(c, "open")

\* Mutation: the session is committed on the way out, whatever happened.
RaiseCommits(c) == client[c] = "operating" /\ Turn(c, "undoing") /\ Becomes(c, "sent")

\* The operation raises, or the task is cancelled meanwhile.
Raise(c) == client[c] = "operating" /\ Turn(c, "undoing") /\ UNCHANGED txn

\* The operation has returned: COMMIT is sent.
SendCommit(c) == Operating(c) /\ Turn(c, "committing") /\ Becomes(c, "sent")

\* The answer to COMMIT.
CommitAnswered(c) == /\ client[c] = "committing"
                     /\ \/ txn[c] = "committed" /\ Turn(c, "closing")
                        \/ txn[c] = "aborted"   /\ Turn(c, "recovering")
                     /\ UNCHANGED txn

\* Mutation: giving up on COMMIT is no error.
CommitGivesUpQuietly(c) == client[c] = "committing" /\ Turn(c, "closing") /\ UNCHANGED txn

\* Five seconds pass, or the task is cancelled, before the answer arrives.
CommitGivesUp(c) == client[c] = "committing" /\ Turn(c, "recovering") /\ UNCHANGED txn

\* ROLLBACK, and the exception goes on: what was open is undone unless this times out or is
\* cancelled too; a COMMIT under way is not called back.
Rollback(c) ==
  /\ client[c] \in {"undoing", "recovering"}
  /\ Turn(c, IF client[c] = "undoing" THEN "refused" ELSE "unknown")
  /\ \/ txn[c] = "open" /\ Becomes(c, "aborted")
     \/ UNCHANGED txn

\* The session is closed; a cancellation now hides the result.
Close(c) == /\ client[c] = "closing"
            /\ Turn(c, "returned") \/ Turn(c, "unknown")
            /\ UNCHANGED txn

Run(c) == CommitAnswered(c) \/ CommitGivesUp(c) \/ Rollback(c) \/ Close(c)

\* PostgreSQL commits what it was told to.
Land(c) == txn[c] = "sent" /\ Becomes(c, "committed") /\ UNCHANGED client

\* PostgreSQL aborts: the connection, the server or the transaction failed.
Abort(c) == Unsettled(c) /\ Becomes(c, "aborted") /\ UNCHANGED client

\* Mutation: the session of a failed rollback stays open.
ReapReturned(c) == client[c] = "returned" /\ Abort(c)

\* The connection of a call that has ended is reset or closed, and with it an open transaction.
Reap(c) == client[c] \in Ended /\ txn[c] = "open" /\ Abort(c)
-----------------------------------------------------------------------------
(***************************************************************************)
(* Properties.                                                             *)
(***************************************************************************)

\* What run returns has been committed, whatever timeouts and cancellations came between, and
\* a call that failed before its commit began leaves nothing in the database, then or later.
OutcomeIsTrue ==
  \A c \in Call : /\ client[c] = "returned" => txn[c] = "committed"
                  /\ client[c] = "refused"  => txn[c] \in {"open", "aborted"}
=============================================================================
