---------------------------- MODULE Credentials ----------------------------
(***************************************************************************)
(* One account: its row in app.users, the requests that read and change    *)
(* it, and the session cookies in its browsers.                            *)
(*                                                                         *)
(* A request carries the cookie its browser held when it was sent; its     *)
(* response sets one when it arrives, in any order with others.  A cookie  *)
(* is the session version it names.  A password hash is the password and   *)
(* whether the hash is obsolete, that is, due for an upgrade at the next   *)
(* login.  Session lifetime (expires_at) is left out: no cookie expires.   *)
(***************************************************************************)
EXTENDS Naturals, FiniteSets

CONSTANTS
  Password,    \* passwords the account may have
  Browser,     \* browsers with a cookie jar each
  Request,     \* requests that may be in flight together
  MaxChanges,  \* bound: password changes in a behaviour
  Nobody,      \* the row is not locked
  NoCookie,    \* an empty jar, or a response that deletes the cookie
  Keep         \* a response that leaves the jar alone

Version == 0 .. MaxChanges
Row     == [password : Password, obsolete : BOOLEAN, version : Version]
Cookie  == Version \cup {NoCookie}

ASSUME BoundAssumption  == MaxChanges \in Nat
ASSUME CookieAssumption == NoCookie \notin Nat /\ Keep \notin Nat /\ Keep # NoCookie
ASSUME LockAssumption   == Nobody \notin Request
ASSUME SetAssumption    == IsFiniteSet(Request) /\ Password # {} /\ Browser # {}

VARIABLES
  user,     \* the committed row
  lock,     \* the request whose SELECT ... FOR UPDATE holds the row
  request,  \* where each request stands
  jar,      \* the cookie each browser holds
  changes,  \* committed password changes
  set,      \* for each version, the password set when it was committed
  won       \* the cookie and current password each committed change was sent with

vars == <<user, lock, request, jar, changes, set, won>>

\* `seen` is the row as the request's transaction read it under the lock, `reply` what
\* its response does to the jar.
Flight == [ pc      : {"idle", "sent", "waiting", "locked", "replying"},
            op      : {"view", "login", "change", "logout"},
            browser : Browser,
            sent    : Cookie,
            guess   : Password,
            new     : Password,
            seen    : Row,
            reply   : Cookie \cup {Keep} ]

TypeOK == /\ user \in Row
          /\ lock \in Request \cup {Nobody}
          /\ request \in [Request -> Flight]
          /\ jar \in [Browser -> Cookie]
          /\ changes \in Nat
          /\ set \in [Version -> Password]
          /\ won \in SUBSET [sent : Cookie, guess : Password]

\* An idle request, its fields at rest.
Rest == [ pc |-> "idle", op |-> "view", browser |-> CHOOSE b \in Browser : TRUE,
          sent |-> NoCookie, guess |-> CHOOSE p \in Password : TRUE,
          new |-> CHOOSE p \in Password : TRUE,
          seen |-> CHOOSE row \in Row : TRUE, reply |-> Keep ]

\* A registered account, session version 0, signed in here and there.
Init == /\ user \in {row \in Row : row.version = 0}
        /\ lock = Nobody
        /\ request = [r \in Request |-> Rest]
        /\ jar \in [Browser -> {0, NoCookie}]
        /\ changes = 0
        /\ set = [v \in Version |-> user.password]
        /\ won = {}
-----------------------------------------------------------------------------
Is(r, pc) == request[r].pc = pc

\* The request's transaction is over, its response is on the way.
Reply(r, cookie) == request' = [request EXCEPT ![r].pc = "replying", ![r].reply = cookie]

\* clear_session: a cookie the browser sent is deleted.
Cleared(r) == IF request[r].sent = NoCookie THEN Keep ELSE NoCookie

\* The response to a declined request.  The session middleware serializes a session the
\* handler left alone on every response, so the browser is sent its own cookie again.
Declined(r) == IF request[r].op = "change" THEN request[r].sent ELSE Cleared(r)

NoWrite == UNCHANGED <<user, changes, set, won>>

\* A change that may still commit.
Pending(r) == request[r].op = "change" /\ ~Is(r, "replying")

Send(r) ==
  /\ Is(r, "idle")
  /\ \E b \in Browser, op \in {"view", "login", "change", "logout"}, p, q \in Password :
       /\ op \in {"view", "logout"} => p = Rest.guess
       /\ op # "change" => q = Rest.new
       /\ op = "change" =>
            changes + Cardinality({s \in Request : Pending(s)}) < MaxChanges
       /\ request' = [request EXCEPT ![r] =
            [Rest EXCEPT !.pc = "sent", !.op = op, !.browser = b, !.sent = jar[b],
                         !.guess = p, !.new = q]]
  /\ UNCHANGED <<lock, jar>> /\ NoWrite

\* revalidate_session, a plain read of the row.
SignedIn(r) == request[r].sent = user.version

Revalidate(r) ==
  /\ Is(r, "sent")
  /\ \/ /\ SignedIn(r) /\ request[r].op \in {"view", "login"}
        /\ Reply(r, request[r].sent)
     \/ /\ ~SignedIn(r) /\ request[r].op \in {"view", "change"}
        /\ Reply(r, Cleared(r))
     \/ /\ request[r].op = "logout"
        /\ Reply(r, Cleared(r))
     \/ /\ request[r].op = IF SignedIn(r) THEN "change" ELSE "login"
        /\ request' = [request EXCEPT ![r].pc = "waiting"]
  /\ UNCHANGED <<lock, jar>> /\ NoWrite

\* Mutation: a plain SELECT.
LockUserNot(r) == /\ Is(r, "waiting")
                  /\ request' = [request EXCEPT ![r].pc = "locked", ![r].seen = user]
                  /\ UNCHANGED <<lock, jar>> /\ NoWrite

\* SELECT ... FOR UPDATE with populate_existing: the row as it is once the lock is ours.
LockUser(r) == /\ Is(r, "waiting")
               /\ lock = Nobody
               /\ lock' = r
               /\ request' = [request EXCEPT ![r].pc = "locked", ![r].seen = user]
               /\ UNCHANGED jar /\ NoWrite

\* Mutation: a hash of an obsolete scheme is upgraded without being compared.
VerifiedIfCurrent(r) ==
  request[r].guess = request[r].seen.password \/ request[r].seen.obsolete

Verified(r) == request[r].guess = request[r].seen.password

\* update_credentials with a rehashed password: the hash alone changes.
UpgradeHash(r) ==
  user' = IF request[r].seen.obsolete
          THEN [user EXCEPT !.password = request[r].seen.password, !.obsolete = FALSE]
          ELSE user

\* Mutations: the version is not advanced; it is advanced twice.
SetPasswordOnly(r) ==
  user' = [password |-> request[r].new, obsolete |-> FALSE, version |-> request[r].seen.version]
SetPasswordTwice(r) ==
  user' = [password |-> request[r].new, obsolete |-> FALSE,
           version |-> request[r].seen.version + 2]

\* update_credentials with a new password: the hash and the next version.
SetPassword(r) ==
  user' = [password |-> request[r].new, obsolete |-> FALSE,
           version |-> request[r].seen.version + 1]

\* What the operation of r writes when its password is right.
Login(r)  == /\ request[r].op = "login" /\ Verified(r)
             /\ UpgradeHash(r)
             /\ UNCHANGED <<changes, set, won>>

Change(r) == /\ request[r].op = "change" /\ Verified(r)
             /\ SetPassword(r)
             /\ changes' = changes + 1
             /\ set' = [set EXCEPT ![user'.version] = request[r].new]
             /\ won' = won \cup {[sent |-> request[r].sent, guess |-> request[r].guess]}

\* Mutation: a transaction that ends keeps its lock.
ReleaseNever(r) == lock' = lock

Release(r) == lock' = IF lock = r THEN Nobody ELSE lock

\* authenticate and issue_session: the cookie names the version read under the lock.
Authenticate(r) ==
  /\ Is(r, "locked")
  /\ \/ Login(r) /\ Reply(r, request[r].seen.version)
     \/ /\ request[r].op = "login" /\ ~Verified(r)
        /\ Reply(r, Declined(r)) /\ NoWrite
  /\ Release(r) /\ UNCHANGED jar

\* change_password; the new password may be refused although the current one is right.
ChangePassword(r) ==
  /\ Is(r, "locked")
  /\ \/ Change(r) /\ Reply(r, user'.version)
     \/ request[r].op = "change" /\ Reply(r, Declined(r)) /\ NoWrite
  /\ Release(r) /\ UNCHANGED jar

\* Mutation: the new cookie is sent although the transaction rolled back.
FailAnnounced(r) == /\ Is(r, "locked")
                    /\ Login(r) \/ Change(r) \/ NoWrite
                    /\ Reply(r, request[r].seen.version + 1)
                    /\ Release(r) /\ UNCHANGED jar

\* The transaction raises; a commit that timed out may have landed.
Fail(r) == /\ Is(r, "locked")
           /\ Login(r) \/ Change(r) \/ NoWrite
           /\ \E cookie \in {Declined(r), Keep} : Reply(r, cookie)
           /\ Release(r) /\ UNCHANGED jar

\* The request is cancelled, its process dies or its response is lost.
Lose(r) == /\ ~Is(r, "idle")
           /\ \/ NoWrite
              \/ Is(r, "locked") /\ (Login(r) \/ Change(r))
           /\ request' = [request EXCEPT ![r] = Rest]
           /\ Release(r) /\ UNCHANGED jar

\* The response reaches its browser.
Arrive(r) == /\ Is(r, "replying")
             /\ jar' = IF request[r].reply = Keep THEN jar
                       ELSE [jar EXCEPT ![request[r].browser] = request[r].reply]
             /\ request' = [request EXCEPT ![r] = Rest]
             /\ UNCHANGED lock /\ NoWrite

Next == \E r \in Request : \/ Send(r) \/ Revalidate(r) \/ LockUser(r) \/ Authenticate(r)
                           \/ ChangePassword(r) \/ Fail(r) \/ Lose(r) \/ Arrive(r)

Spec == Init /\ [][Next]_vars

(***************************************************************************)
(* Fairness: a transaction that holds the lock ends, and PostgreSQL grants *)
(* the lock to every request that keeps waiting for it.                    *)
(***************************************************************************)
Ends(r) == Authenticate(r) \/ ChangePassword(r) \/ Fail(r)

FairSpec == Spec /\ \A r \in Request : WF_vars(Ends(r)) /\ SF_vars(LockUser(r))
-----------------------------------------------------------------------------
(***************************************************************************)
(* Properties.                                                             *)
(***************************************************************************)

\* No password change is lost: the version counts the committed changes, so two changes
\* never start from the same credential state nor yield the same version.
VersionCountsChanges == user.version = changes

\* The stored password is the one the last change set: a login's hash upgrade, however
\* long ago it verified its password, never brings back an older one.
PasswordIsLatest == user.password = set[user.version]

\* The cookie a login or a change is about to deliver names a version whose password the
\* request proved or set itself, whatever was committed since.
CookieWasEarned ==
  \A r \in Request :
    Is(r, "replying") /\ request[r].reply \in Version /\ request[r].reply # request[r].sent =>
      set[request[r].reply] = IF request[r].op = "login" THEN request[r].guess
                              ELSE request[r].new

\* No cookie, in a browser or under way, names a version that was not committed: a change
\* that rolled back announces nothing which a later change could make current.
CookiesAreNeverAhead ==
  /\ \A b \in Browser : jar[b] # NoCookie => jar[b] <= user.version
  /\ \A r \in Request : request[r].reply \in Version => request[r].reply <= user.version

\* Every commit that changes the password advances the version by one, so that it revokes
\* all earlier cookies, and no commit brings an earlier version back.
RevokedStaysRevoked ==
  [][/\ user'.version \in {user.version, user.version + 1}
     /\ user'.password # user.password => user'.version = user.version + 1]_vars

\* "the first committed change succeeds.  The second request then observes the new hash
\* under the lock, fails current-password verification": of the changes sent with one
\* cookie and one current password, one commits.
SameStartOneWins ==
  [][\A r \in Request :
       changes' # changes /\ Is(r, "locked") =>
         [sent |-> request[r].sent, guess |-> request[r].guess] \notin won]_vars

\* Changing the password issues "a replacement to the current browser": a browser whose
\* cookie is current keeps a current one until the password changes again or it logs out.
ReplacementIsKept ==
  [][\A b \in Browser :
       jar[b] = user.version /\ user.version > 0 /\ user' = user /\ jar'[b] # user.version =>
         \E r \in Request : request[r].op = "logout" /\ request[r].browser = b]_vars

\* No request waits for the row for ever.
LockIsGranted == \A r \in Request : Is(r, "waiting") ~> ~Is(r, "waiting")
=============================================================================
