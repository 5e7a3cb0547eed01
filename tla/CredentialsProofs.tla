------------------------- MODULE CredentialsProofs -------------------------
(***************************************************************************)
(* Proofs of the safety properties of Credentials, for any passwords,      *)
(* browsers and requests in flight, and any bound on the changes.          *)
(***************************************************************************)
EXTENDS Credentials, FiniteSetTheorems, TLAPS

PendingSet == {s \in Request : Pending(s)}

\* The bound on changes counts those under way.
Budget == changes + Cardinality(PendingSet) <= MaxChanges

\* The lock protects what was read under it.
Locking == \A r \in Request : Is(r, "locked") => lock = r /\ request[r].seen = user

\* What may come back to a browser is not ahead of the row either.
SentNotAhead == \A r \in Request : request[r].sent \in Version => request[r].sent <= user.version

IInv == /\ TypeOK /\ Budget /\ Locking /\ SentNotAhead
        /\ VersionCountsChanges /\ PasswordIsLatest /\ CookieWasEarned /\ CookiesAreNeverAhead
-----------------------------------------------------------------------------
\* The flight at rest is a flight that asks for nothing.
LEMMA RestIsIdle == /\ Rest \in Flight /\ Rest.pc = "idle" /\ Rest.op = "view"
                    /\ Rest.sent = NoCookie /\ Rest.reply = Keep
  <1>1. (CHOOSE b \in Browser : TRUE) \in Browser /\ (CHOOSE p \in Password : TRUE) \in Password
        BY SetAssumption
  <1>2. PICK p \in Password : TRUE BY SetAssumption
  <1>3. [password |-> p, obsolete |-> FALSE, version |-> 0] \in Row
        BY BoundAssumption DEF Row, Version
  <1>4. (CHOOSE row \in Row : TRUE) \in Row BY <1>3
  <1> QED BY <1>1, <1>4 DEF Rest, Flight, Cookie

\* Fewer requests in flight are pending, or one more.
LEMMA PendingCount ==
  /\ IsFiniteSet(PendingSet) /\ Cardinality(PendingSet) \in Nat
  /\ \A S : S \subseteq PendingSet => Cardinality(S) \in Nat /\ Cardinality(S) <= Cardinality(PendingSet)
  /\ \A r \in PendingSet : /\ Cardinality(PendingSet \ {r}) = Cardinality(PendingSet) - 1
                           /\ Cardinality(PendingSet) > 0
  /\ \A r : Cardinality(PendingSet \cup {r}) \in Nat
            /\ Cardinality(PendingSet \cup {r}) <= Cardinality(PendingSet) + 1
  <1>1. IsFiniteSet(PendingSet) BY SetAssumption, FS_Subset DEF PendingSet
  <1>2. Cardinality(PendingSet) \in Nat BY <1>1, FS_CardinalityType
  <1>3. ASSUME NEW S, S \subseteq PendingSet
        PROVE  Cardinality(S) \in Nat /\ Cardinality(S) <= Cardinality(PendingSet)
        BY <1>1, <1>3, FS_Subset, FS_CardinalityType
  <1>4. ASSUME NEW r \in PendingSet
        PROVE  /\ Cardinality(PendingSet \ {r}) = Cardinality(PendingSet) - 1
               /\ Cardinality(PendingSet) > 0
    <2>1. Cardinality(PendingSet \ {r}) = Cardinality(PendingSet) - 1
          BY <1>1, FS_RemoveElement
    <2>2. Cardinality(PendingSet \ {r}) \in Nat BY <1>3
    <2> QED BY <1>2, <2>1, <2>2
  <1>5. ASSUME NEW r
        PROVE  /\ Cardinality(PendingSet \cup {r}) \in Nat
               /\ Cardinality(PendingSet \cup {r}) <= Cardinality(PendingSet) + 1
    <2>1. Cardinality(PendingSet \cup {r}) = IF r \in PendingSet THEN Cardinality(PendingSet)
                                             ELSE Cardinality(PendingSet) + 1
          BY <1>1, FS_AddElement
    <2> QED BY <1>2, <2>1
  <1> QED BY <1>1, <1>2, <1>3, <1>4, <1>5

\* Initially nothing is in flight.
LEMMA InitIInv == Init => IInv
  <1> SUFFICES ASSUME Init PROVE IInv OBVIOUS
  <1>1. user \in Row /\ user.version = 0 BY DEF Init
  <1>2. \A r \in Request : request[r] = Rest BY DEF Init
  <1>3. TypeOK
    <2>1. set \in [Version -> Password] BY <1>1 DEF Init, Row
    <2>2. request \in [Request -> Flight] BY RestIsIdle DEF Init
    <2>3. jar \in [Browser -> Cookie] BY BoundAssumption DEF Init, Cookie, Version
    <2> QED BY <1>1, <2>1, <2>2, <2>3 DEF Init, TypeOK
  <1>4. Budget
    <2>1. PendingSet = {} BY <1>2, RestIsIdle DEF PendingSet, Pending, Is
    <2>2. Cardinality(PendingSet) = 0 BY <2>1, FS_EmptySet
    <2>3. changes = 0 BY DEF Init
    <2> QED BY <2>2, <2>3, BoundAssumption DEF Budget
  <1>5. Locking BY <1>2, RestIsIdle DEF Locking, Is
  <1>6. SentNotAhead BY <1>2, RestIsIdle, CookieAssumption DEF SentNotAhead, Version
  <1>7. VersionCountsChanges BY <1>1 DEF Init, VersionCountsChanges
  <1>8. PasswordIsLatest BY <1>1, BoundAssumption DEF Init, PasswordIsLatest, Version
  <1>9. CookieWasEarned BY <1>2, RestIsIdle DEF CookieWasEarned, Is
  <1>10. CookiesAreNeverAhead
    <2>1. \A b \in Browser : jar[b] # NoCookie => jar[b] = 0 BY DEF Init
    <2>2. \A r \in Request : request[r].reply \notin Version
          BY <1>2, RestIsIdle, CookieAssumption DEF Version
    <2> QED BY <1>1, <2>1, <2>2 DEF CookiesAreNeverAhead
  <1> QED BY <1>3, <1>4, <1>5, <1>6, <1>7, <1>8, <1>9, <1>10 DEF IInv
-----------------------------------------------------------------------------
\* The flight f of a request says nothing untrue of the row and its versions.
Fair(f, row, passwords) ==
  /\ f.sent \in Version => f.sent <= row.version
  /\ f.reply \in Version => f.reply <= row.version
  /\ f.pc = "replying" /\ f.reply \in Version /\ f.reply # f.sent =>
       passwords[f.reply] = IF f.op = "login" THEN f.guess ELSE f.new

\* A request goes on without writing the row.
LEMMA QuietKeeps ==
  ASSUME IInv, NEW r \in Request, NEW f \in Flight, NoWrite,
         request' = [request EXCEPT ![r] = f],
         Fair(f, user, set),
         f.pc = "locked" => lock' = r /\ f.seen = user,
         \A s \in Request \ {r} : lock = s => lock' = s,
         lock' \in Request \cup {Nobody},
         f.op = "change" /\ f.pc # "replying"
           => r \in PendingSet \/ changes + Cardinality(PendingSet) < MaxChanges,
         jar' \in [Browser -> Cookie],
         \A b \in Browser : jar'[b] # NoCookie => jar'[b] <= user.version
  PROVE  IInv'
  <1> USE DEF IInv
  <1>1. user' = user /\ changes' = changes /\ set' = set /\ won' = won BY DEF NoWrite
  <1>2. request'[r] = f /\ \A s \in Request \ {r} : request'[s] = request[s] BY DEF TypeOK
  <1>3. TypeOK' BY <1>1 DEF TypeOK
  <1>4. Budget'
    <2> DEFINE S == PendingSet'
    <2>1. \A s \in Request \ {r} : s \in S <=> s \in PendingSet
          BY <1>2 DEF PendingSet, Pending, Is
    <2>2. r \in S <=> f.op = "change" /\ f.pc # "replying" BY <1>2 DEF PendingSet, Pending, Is
    <2>3. S \subseteq Request /\ PendingSet \subseteq Request BY DEF PendingSet
    <2>4. changes \in Nat /\ MaxChanges \in Nat /\ Cardinality(PendingSet) \in Nat
          BY PendingCount, BoundAssumption DEF TypeOK
    <2> HIDE DEF S
    <2>5. CASE r \notin S \/ r \in PendingSet
      <3>1. S \subseteq PendingSet BY <2>1, <2>3, <2>5
      <3>2. Cardinality(S) \in Nat /\ Cardinality(S) <= Cardinality(PendingSet)
            BY <3>1, PendingCount
      <3>3. changes + Cardinality(S) <= MaxChanges BY <2>4, <3>2 DEF Budget
      <3> QED BY <3>3, <1>1 DEF Budget, S
    <2>6. CASE r \in S /\ r \notin PendingSet
      <3>1. S = PendingSet \cup {r} BY <2>1, <2>3, <2>6
      <3>2. Cardinality(S) \in Nat /\ Cardinality(S) <= Cardinality(PendingSet) + 1
            BY <3>1, PendingCount
      <3>3. changes + Cardinality(S) <= MaxChanges BY <2>2, <2>4, <2>6, <3>2
      <3> QED BY <3>3, <1>1 DEF Budget, S
    <2> QED BY <2>5, <2>6
  <1>5. Locking' BY <1>1, <1>2 DEF Locking, Is
  <1>6. SentNotAhead' BY <1>1, <1>2 DEF SentNotAhead, Fair
  <1>7. VersionCountsChanges' /\ PasswordIsLatest'
        BY <1>1 DEF VersionCountsChanges, PasswordIsLatest
  <1>8. CookieWasEarned' BY <1>1, <1>2 DEF CookieWasEarned, Fair, Is
  <1>9. CookiesAreNeverAhead' BY <1>1, <1>2 DEF CookiesAreNeverAhead, Fair
  <1> QED BY <1>3, <1>4, <1>5, <1>6, <1>7, <1>8, <1>9

\* Only the holder of the lock is locked.
LEMMA OneHolder ==
  ASSUME IInv, NEW r \in Request, Is(r, "locked")
  PROVE  /\ \A s \in Request \ {r} : ~Is(s, "locked")
         /\ lock = r /\ request[r].seen = user /\ request[r] \in Flight /\ user \in Row
  BY DEF IInv, Locking, TypeOK

\* A login upgrades the hash of the password it verified.
LEMMA UpgradeKeeps ==
  ASSUME IInv, NEW r \in Request, NEW f \in Flight, Is(r, "locked"),
         request' = [request EXCEPT ![r] = f],
         user' \in Row, user'.password = user.password, user'.version = user.version,
         UNCHANGED <<changes, set, won, jar>>, lock' = Nobody,
         Fair(f, user, set), f.pc # "locked", f.op = "change" => f.pc = "replying"
  PROVE  IInv'
  <1> USE DEF IInv
  <1>2. request'[r] = f /\ \A s \in Request \ {r} : request'[s] = request[s] BY DEF TypeOK
  <1>3. TypeOK' BY DEF TypeOK
  <1>4. Budget'
    <2> DEFINE S == PendingSet'
    <2>1. S \subseteq PendingSet BY <1>2 DEF PendingSet, Pending, Is
    <2> HIDE DEF S
    <2>2. Cardinality(S) \in Nat /\ Cardinality(S) <= Cardinality(PendingSet)
          BY <2>1, PendingCount
    <2>3. changes \in Nat /\ MaxChanges \in Nat /\ Cardinality(PendingSet) \in Nat
          BY PendingCount, BoundAssumption DEF TypeOK
    <2>4. changes + Cardinality(S) <= MaxChanges BY <2>2, <2>3 DEF Budget
    <2> QED BY <2>4 DEF Budget, S
  <1>5. Locking' BY <1>2, OneHolder DEF Locking, Is
  <1>6. SentNotAhead' BY <1>2 DEF SentNotAhead, Fair
  <1>7. VersionCountsChanges' /\ PasswordIsLatest' BY DEF VersionCountsChanges, PasswordIsLatest
  <1>8. CookieWasEarned' BY <1>2 DEF CookieWasEarned, Fair, Is
  <1>9. CookiesAreNeverAhead' BY <1>2 DEF CookiesAreNeverAhead, Fair
  <1> QED BY <1>3, <1>4, <1>5, <1>6, <1>7, <1>8, <1>9

\* A change sets a new password and the next version, which no cookie names.
LEMMA ChangeKeeps ==
  ASSUME IInv, NEW r \in Request, NEW f \in Flight, Is(r, "locked"), Change(r),
         request' = [request EXCEPT ![r] = f],
         UNCHANGED jar, lock' = Nobody,
         Fair(f, user', set'), f.pc # "locked", f.op = "change" => f.pc = "replying"
  PROVE  /\ IInv'
         /\ user'.version = user.version + 1
  <1> USE DEF IInv
  <1>1. /\ r \in PendingSet /\ changes \in Nat /\ MaxChanges \in Nat
        /\ Cardinality(PendingSet) \in Nat /\ Cardinality(PendingSet) > 0
        BY PendingCount, BoundAssumption DEF PendingSet, Pending, Is, Change, TypeOK
  <1>2. request'[r] = f /\ \A s \in Request \ {r} : request'[s] = request[s] BY DEF TypeOK
  <1>3. /\ user' = [password |-> request[r].new, obsolete |-> FALSE, version |-> user.version + 1]
        /\ changes' = changes + 1 /\ set' = [set EXCEPT ![user.version + 1] = request[r].new]
        /\ won' = won \cup {[sent |-> request[r].sent, guess |-> request[r].guess]}
        BY OneHolder DEF Change, SetPassword
  <1>4. user.version + 1 \in Version /\ user.version = changes /\ user.version \in Nat
        BY <1>1 DEF Budget, VersionCountsChanges, Version
  <1>5. /\ request[r].new \in Password
        /\ [sent |-> request[r].sent, guess |-> request[r].guess] \in [sent : Cookie, guess : Password]
        BY DEF TypeOK, Flight
  <1>6. TypeOK'
    <2>1. user' \in Row BY <1>3, <1>4, <1>5 DEF Row
    <2>2. set' \in [Version -> Password] BY <1>3, <1>5 DEF TypeOK
    <2>3. won' \in SUBSET [sent : Cookie, guess : Password] BY <1>3, <1>5 DEF TypeOK
    <2>4. request' \in [Request -> Flight] BY DEF TypeOK
    <2>5. changes' \in Nat BY <1>1, <1>3
    <2> QED BY <2>1, <2>2, <2>3, <2>4, <2>5 DEF TypeOK
  <1>7. Budget'
    <2> DEFINE S == PendingSet'
    <2>1. S \subseteq PendingSet \ {r} BY <1>2 DEF PendingSet, Pending, Is
    <2> HIDE DEF S
    <2>2. S = (PendingSet \ {r}) \cap S /\ IsFiniteSet(PendingSet \ {r})
          BY <2>1, PendingCount, FS_RemoveElement
    <2>3. Cardinality(S) \in Nat /\ Cardinality(S) <= Cardinality(PendingSet) - 1
          BY <2>1, <2>2, <1>1, PendingCount, FS_Subset, FS_CardinalityType
    <2>4. changes + 1 + Cardinality(S) <= MaxChanges BY <2>3, <1>1 DEF Budget
    <2> QED BY <2>4, <1>3 DEF Budget, S
  <1>8. Locking' BY <1>2, OneHolder DEF Locking, Is
  <1>9. user'.version = user.version + 1 /\ user'.password = request[r].new BY <1>3
  <1>10. \A v \in Version : v <= user.version => set'[v] = set[v] /\ v <= user'.version
    <2> SUFFICES ASSUME NEW v \in Version, v <= user.version
                 PROVE  set'[v] = set[v] /\ v <= user'.version
        OBVIOUS
    <2>1. v \in Nat /\ v # user.version + 1 BY <1>4, BoundAssumption DEF Version
    <2> QED BY <2>1, <1>3, <1>4, <1>9 DEF TypeOK
  <1>11. SentNotAhead' BY <1>2, <1>10 DEF SentNotAhead, Fair
  <1>12. VersionCountsChanges' BY <1>3, <1>4 DEF VersionCountsChanges
  <1>13. PasswordIsLatest' BY <1>3, <1>4, <1>9 DEF PasswordIsLatest, TypeOK
  <1>14. CookieWasEarned' 
    <2> SUFFICES ASSUME NEW s \in Request, Is(s, "replying")', request'[s].reply \in Version,
                        request'[s].reply # request'[s].sent
                 PROVE  set'[request'[s].reply] = IF request'[s].op = "login"
                                                  THEN request'[s].guess ELSE request'[s].new
        BY DEF CookieWasEarned
    <2>1. CASE s = r BY <2>1, <1>2 DEF Fair, Is
    <2>2. CASE s # r
      <3>1. request'[s] = request[s] /\ request[s].reply <= user.version
            BY <2>2, <1>2 DEF CookiesAreNeverAhead
      <3> QED BY <3>1, <1>10 DEF CookieWasEarned, Is
    <2> QED BY <2>1, <2>2
  <1>15. CookiesAreNeverAhead'
    <2>1. \A b \in Browser : jar[b] # NoCookie => jar[b] \in Version BY DEF TypeOK, Cookie
    <2> QED BY <2>1, <1>2, <1>10 DEF CookiesAreNeverAhead, Fair
  <1> QED BY <1>6, <1>7, <1>8, <1>9, <1>11, <1>12, <1>13, <1>14, <1>15
-----------------------------------------------------------------------------
\* A request is sent with the cookie its browser holds, a change only within the bound.
LEMMA SendKeeps ==
  ASSUME IInv, NEW r \in Request, Send(r)
  PROVE  IInv'
  <1> USE DEF IInv
  <1>1. PICK b \in Browser, op \in {"view", "login", "change", "logout"}, p, q \in Password :
          /\ op \in {"view", "logout"} => p = Rest.guess
          /\ op # "change" => q = Rest.new
          /\ op = "change" =>
               changes + Cardinality({s \in Request : Pending(s)}) < MaxChanges
          /\ request' = [request EXCEPT ![r] =
               [Rest EXCEPT !.pc = "sent", !.op = op, !.browser = b, !.sent = jar[b],
                            !.guess = p, !.new = q]]
        BY Zenon DEF Send
  <1> DEFINE f == [Rest EXCEPT !.pc = "sent", !.op = op, !.browser = b, !.sent = jar[b],
                               !.guess = p, !.new = q]
  <1>2. f \in Flight /\ f.pc = "sent" /\ f.op = op /\ f.sent = jar[b] /\ f.reply = Keep
        BY RestIsIdle DEF Flight, TypeOK
  <1>3. request' = [request EXCEPT ![r] = f] BY <1>1
  <1> HIDE DEF f
  <1>4. Keep \notin Version /\ NoCookie \notin Version BY CookieAssumption DEF Version
  <1>5. Fair(f, user, set) BY <1>2, <1>4 DEF Fair, CookiesAreNeverAhead
  <1>6. NoWrite /\ lock' = lock /\ jar' = jar BY DEF Send
  <1>7. f.op = "change" => changes + Cardinality(PendingSet) < MaxChanges
        BY <1>1, <1>2 DEF PendingSet
  <1>8. \A c \in Browser : jar'[c] # NoCookie => jar'[c] <= user.version
        BY <1>6 DEF CookiesAreNeverAhead
  <1> QED BY <1>2, <1>3, <1>5, <1>6, <1>7, <1>8, QuietKeeps DEF TypeOK

\* A request whose transaction ended without a write answers with what it was sent, or nothing.
LEMMA ReplyKeeps ==
  ASSUME IInv, NEW r \in Request, NEW cookie \in {request[r].sent, NoCookie, Keep},
         Reply(r, cookie), NoWrite, UNCHANGED jar, lock' \in Request \cup {Nobody},
         \A s \in Request \ {r} : lock = s => lock' = s
  PROVE  IInv'
  <1> USE DEF IInv
  <1> DEFINE f == [request[r] EXCEPT !.pc = "replying", !.reply = cookie]
  <1>1. request[r] \in Flight BY DEF TypeOK
  <1>2. /\ f \in Flight /\ f.pc = "replying" /\ f.reply = cookie /\ f.sent = request[r].sent
        BY <1>1 DEF Flight, Cookie
  <1>3. request' = [request EXCEPT ![r] = f] BY <1>1 DEF Reply, TypeOK
  <1> HIDE DEF f
  <1>4. Keep \notin Version /\ NoCookie \notin Version BY CookieAssumption DEF Version
  <1>5. Fair(f, user, set) BY <1>2, <1>4 DEF Fair, SentNotAhead
  <1>6. \A c \in Browser : jar'[c] # NoCookie => jar'[c] <= user.version
        BY DEF CookiesAreNeverAhead
  <1> QED BY <1>2, <1>3, <1>5, <1>6, QuietKeeps DEF TypeOK

\* The row is read without its lock.
LEMMA RevalidateKeeps ==
  ASSUME IInv, NEW r \in Request, Revalidate(r)
  PROVE  IInv'
  <1>1. TypeOK /\ request[r] \in Flight BY DEF IInv, TypeOK
  <1>2. NoWrite /\ UNCHANGED <<lock, jar>> BY DEF Revalidate
  <1>3. CASE \E cookie \in {request[r].sent, NoCookie, Keep} : Reply(r, cookie)
        BY <1>1, <1>2, <1>3, ReplyKeeps DEF TypeOK
  <1>4. CASE /\ request[r].op \in {"change", "login"}
             /\ request' = [request EXCEPT ![r].pc = "waiting"]
    <2> DEFINE f == [request[r] EXCEPT !.pc = "waiting"]
    <2>1. f \in Flight /\ f.pc = "waiting" /\ f.op = request[r].op /\ f.sent = request[r].sent
          /\ f.reply = request[r].reply
          BY <1>1 DEF Flight
    <2>2. request' = [request EXCEPT ![r] = f] BY <1>1, <1>4 DEF TypeOK
    <2> HIDE DEF f
    <2>3. Fair(f, user, set) BY <2>1 DEF Fair, IInv, SentNotAhead, CookiesAreNeverAhead
    <2>4. f.op = "change" => r \in PendingSet
          BY <2>1 DEF Revalidate, PendingSet, Pending, Is
    <2>5. \A c \in Browser : jar'[c] # NoCookie => jar'[c] <= user.version
          BY <1>2 DEF IInv, CookiesAreNeverAhead
    <2> QED BY <1>1, <1>2, <2>1, <2>2, <2>3, <2>4, <2>5, QuietKeeps DEF TypeOK
  <1> QED BY <1>3, <1>4 DEF Revalidate, Cleared

\* The row is read with its lock.
LEMMA LockUserKeeps ==
  ASSUME IInv, NEW r \in Request, LockUser(r)
  PROVE  IInv'
  <1>1. TypeOK /\ request[r] \in Flight /\ user \in Row BY DEF IInv, TypeOK
  <1> DEFINE f == [request[r] EXCEPT !.pc = "locked", !.seen = user]
  <1>2. /\ f \in Flight /\ f.pc = "locked" /\ f.op = request[r].op /\ f.sent = request[r].sent
        /\ f.reply = request[r].reply /\ f.seen = user
        BY <1>1 DEF Flight
  <1>3. request' = [request EXCEPT ![r] = f] BY <1>1 DEF LockUser, TypeOK
  <1> HIDE DEF f
  <1>4. Fair(f, user, set) BY <1>2 DEF Fair, IInv, SentNotAhead, CookiesAreNeverAhead
  <1>5. f.op = "change" => r \in PendingSet BY <1>2 DEF LockUser, PendingSet, Pending, Is
  <1>6. NoWrite /\ lock' = r /\ jar' = jar /\ lock = Nobody BY DEF LockUser
  <1>7. \A c \in Browser : jar'[c] # NoCookie => jar'[c] <= user.version
        BY <1>6 DEF IInv, CookiesAreNeverAhead
  <1>8. \A s \in Request : lock # s BY <1>6, LockAssumption
  <1> QED BY <1>1, <1>2, <1>3, <1>4, <1>5, <1>6, <1>7, <1>8, QuietKeeps DEF TypeOK

\* A change that is under way fits the bound.
LEMMA ChangeFits ==
  ASSUME IInv, NEW r \in Request, Is(r, "locked"), request[r].op = "change"
  PROVE  user.version \in Nat /\ user.version + 1 \in Version
  <1>1. /\ r \in PendingSet /\ changes \in Nat /\ MaxChanges \in Nat
        /\ Cardinality(PendingSet) \in Nat /\ Cardinality(PendingSet) > 0
        BY PendingCount, BoundAssumption DEF IInv, PendingSet, Pending, Is, TypeOK
  <1> QED BY <1>1 DEF IInv, Budget, VersionCountsChanges, Version

\* A login that found the password right, with whatever it leaves behind.
LEMMA LoginKeeps ==
  ASSUME IInv, NEW r \in Request, NEW f \in Flight, Is(r, "locked"), Login(r), Release(r),
         request' = [request EXCEPT ![r] = f], UNCHANGED jar,
         Fair(f, user, set), f.pc # "locked", f.op = "change" => f.pc = "replying"
  PROVE  IInv'
  <1>1. /\ lock = r /\ request[r].seen = user /\ user \in Row BY OneHolder
  <1>2. /\ user' = IF user.obsolete THEN [user EXCEPT !.password = user.password, !.obsolete = FALSE]
                   ELSE user
        BY <1>1 DEF Login, UpgradeHash
  <1>3. user' \in Row /\ user'.password = user.password /\ user'.version = user.version
    <2>1. CASE user.obsolete BY <2>1, <1>1, <1>2 DEF Row
    <2>2. CASE ~user.obsolete BY <2>2, <1>1, <1>2
    <2> QED BY <2>1, <2>2
  <1>4. lock' = Nobody /\ UNCHANGED <<changes, set, won, jar>> BY <1>1 DEF Release, Login
  <1> QED BY <1>3, <1>4, UpgradeKeeps

\* What the answer of r, set to cookie, is as a flight.
LEMMA Replying ==
  ASSUME TypeOK, NEW r \in Request, NEW cookie \in Cookie \cup {Keep}, Reply(r, cookie)
  PROVE  \E f \in Flight :
           /\ request' = [request EXCEPT ![r] = f]
           /\ f.pc = "replying" /\ f.reply = cookie /\ f.op = request[r].op
           /\ f.sent = request[r].sent /\ f.guess = request[r].guess /\ f.new = request[r].new
  <1> DEFINE f == [request[r] EXCEPT !.pc = "replying", !.reply = cookie]
  <1>1. request[r] \in Flight BY DEF TypeOK
  <1>2. /\ f \in Flight /\ f.pc = "replying" /\ f.reply = cookie /\ f.op = request[r].op
        /\ f.sent = request[r].sent /\ f.guess = request[r].guess /\ f.new = request[r].new
        BY <1>1 DEF Flight
  <1>3. request' = [request EXCEPT ![r] = f] BY <1>1 DEF Reply, TypeOK
  <1> QED BY <1>2, <1>3

\* A cookie the request came with, or none, is no claim about the row.
LEMMA OldCookies ==
  ASSUME IInv, NEW r \in Request, NEW f \in Flight, NEW cookie \in {request[r].sent, NoCookie, Keep},
         f.reply = cookie, f.sent = request[r].sent
  PROVE  /\ cookie \in Cookie \cup {Keep}
         /\ Fair(f, user, set)
         /\ \A row, passwords : row.version = user.version + 1 => Fair(f, row, passwords)
  <1>1. Keep \notin Version /\ NoCookie \notin Version BY CookieAssumption DEF Version
  <1>2. request[r].sent \in Cookie /\ user.version \in Nat
        BY BoundAssumption DEF IInv, TypeOK, Flight, Row, Version
  <1>3. \A v \in Version : v \in Nat BY BoundAssumption DEF Version
  <1>4. request[r].sent \in Version => request[r].sent <= user.version BY DEF IInv, SentNotAhead
  <1> QED BY <1>1, <1>2, <1>3, <1>4 DEF Fair, Cookie

\* Rest says nothing at all.
LEMMA RestIsFair == \A row, passwords : Fair(Rest, row, passwords)
  <1>1. Keep \notin Version /\ NoCookie \notin Version BY CookieAssumption DEF Version
  <1> QED BY <1>1, RestIsIdle DEF Fair

\* Declined answers with the request's own cookie or with none.
LEMMA DeclinedCookie == \A r \in Request : Declined(r) \in {request[r].sent, NoCookie, Keep}
  BY DEF Declined, Cleared

\* The end of a login.
LEMMA AuthenticateKeeps ==
  ASSUME IInv, NEW r \in Request, Authenticate(r)
  PROVE  IInv'
  <1>1. /\ lock = r /\ request[r].seen = user /\ request[r] \in Flight /\ user \in Row
        BY OneHolder DEF Authenticate
  <1>2. TypeOK BY DEF IInv
  <1>3. Is(r, "locked") /\ Release(r) /\ jar' = jar BY DEF Authenticate
  <1>4. CASE Login(r) /\ Reply(r, request[r].seen.version)
    <2>1. user.version \in Version /\ user.version \in Nat BY <1>1, BoundAssumption DEF Row, Version
    <2>2. PICK f \in Flight :
           /\ request' = [request EXCEPT ![r] = f]
           /\ f.pc = "replying" /\ f.reply = user.version /\ f.op = request[r].op
           /\ f.sent = request[r].sent /\ f.guess = request[r].guess /\ f.new = request[r].new
          BY <1>1, <1>2, <1>4, <2>1, Replying DEF Cookie
    <2>3. set[user.version] = f.guess /\ f.op = "login"
          BY <1>1, <1>4, <2>2 DEF IInv, PasswordIsLatest, Login, Verified
    <2>4. Fair(f, user, set) BY <2>1, <2>2, <2>3 DEF Fair, IInv, SentNotAhead
    <2> QED BY <1>3, <1>4, <2>2, <2>4, LoginKeeps
  <1>5. CASE Reply(r, Declined(r)) /\ NoWrite
    <2>1. lock' = Nobody BY <1>1, <1>3 DEF Release
    <2> QED BY <1>1, <1>3, <1>5, <2>1, DeclinedCookie, ReplyKeeps
  <1> QED BY <1>4, <1>5 DEF Authenticate

\* The end of a change.
LEMMA ChangePasswordKeeps ==
  ASSUME IInv, NEW r \in Request, ChangePassword(r)
  PROVE  IInv'
  <1>1. /\ lock = r /\ request[r].seen = user /\ request[r] \in Flight /\ user \in Row
        BY OneHolder DEF ChangePassword
  <1>2. TypeOK BY DEF IInv
  <1>3. /\ Is(r, "locked") /\ Release(r) /\ jar' = jar /\ lock' = Nobody
        BY <1>1 DEF ChangePassword, Release
  <1>4. CASE Change(r) /\ Reply(r, user'.version)
    <2>1. user'.version = user.version + 1 /\ set' = [set EXCEPT ![user'.version] = request[r].new]
          BY <1>1, <1>4 DEF Change, SetPassword
    <2>2. user'.version \in Version /\ user.version \in Nat BY <1>1, <1>3, <1>4, <2>1, ChangeFits DEF Change
    <2>3. PICK f \in Flight :
           /\ request' = [request EXCEPT ![r] = f]
           /\ f.pc = "replying" /\ f.reply = user'.version /\ f.op = request[r].op
           /\ f.sent = request[r].sent /\ f.guess = request[r].guess /\ f.new = request[r].new
          BY <1>2, <1>4, <2>2, Replying DEF Cookie
    <2>4. set'[user'.version] = f.new /\ f.op = "change"
          BY <1>2, <1>4, <2>1, <2>2, <2>3 DEF Change, TypeOK
    <2>5. f.sent \in Version => f.sent \in Nat /\ f.sent <= user.version
          BY <2>3, BoundAssumption DEF IInv, SentNotAhead, Version
    <2>6. Fair(f, user', set') BY <2>1, <2>2, <2>3, <2>4, <2>5 DEF Fair
    <2> QED BY <1>3, <1>4, <2>3, <2>6, ChangeKeeps
  <1>5. CASE Reply(r, Declined(r)) /\ NoWrite
        BY <1>3, <1>1, <1>5, DeclinedCookie, ReplyKeeps
  <1> QED BY <1>4, <1>5 DEF ChangePassword

\* A transaction that raises: its commit was refused, or it landed unannounced.
LEMMA FailKeeps ==
  ASSUME IInv, NEW r \in Request, Fail(r)
  PROVE  IInv'
  <1>1. /\ lock = r /\ request[r].seen = user /\ request[r] \in Flight /\ user \in Row
        BY OneHolder DEF Fail
  <1>2. TypeOK BY DEF IInv
  <1>3. /\ Is(r, "locked") /\ Release(r) /\ jar' = jar /\ lock' = Nobody
        BY <1>1 DEF Fail, Release
  <1>4. PICK cookie \in {request[r].sent, NoCookie, Keep} : Reply(r, cookie)
        BY DeclinedCookie DEF Fail
  <1>5. cookie \in Cookie \cup {Keep} BY <1>1 DEF Flight, Cookie
  <1>6. PICK f \in Flight :
         /\ request' = [request EXCEPT ![r] = f]
         /\ f.pc = "replying" /\ f.reply = cookie /\ f.op = request[r].op
         /\ f.sent = request[r].sent /\ f.guess = request[r].guess /\ f.new = request[r].new
        BY <1>2, <1>4, <1>5, Replying
  <1>7. CASE Login(r) BY <1>3, <1>6, <1>7, OldCookies, LoginKeeps
  <1>8. CASE Change(r)
    <2>1. user'.version = user.version + 1 BY <1>1, <1>8 DEF Change, SetPassword
    <2>2. Fair(f, user', set') BY <1>6, <2>1, OldCookies
    <2> QED BY <1>3, <1>6, <1>8, <2>2, ChangeKeeps
  <1>9. CASE NoWrite BY <1>1, <1>3, <1>4, <1>9, ReplyKeeps
  <1> QED BY <1>7, <1>8, <1>9 DEF Fail

\* A request that disappears, whatever became of its transaction.
LEMMA LoseKeeps ==
  ASSUME IInv, NEW r \in Request, Lose(r)
  PROVE  IInv'
  <1>2. TypeOK BY DEF IInv
  <1>3. /\ request' = [request EXCEPT ![r] = Rest] /\ Release(r) /\ jar' = jar
        BY DEF Lose
  <1>4. CASE NoWrite
    <2>1. /\ lock' \in Request \cup {Nobody}
          /\ \A s \in Request \ {r} : lock = s => lock' = s
          BY <1>2, <1>3 DEF Release, TypeOK
    <2>2. \A c \in Browser : jar'[c] # NoCookie => jar'[c] <= user.version
          BY <1>3 DEF IInv, CookiesAreNeverAhead
    <2> QED BY <1>2, <1>3, <1>4, <2>1, <2>2, RestIsIdle, RestIsFair, QuietKeeps DEF TypeOK
  <1>5. CASE Is(r, "locked") /\ Login(r)
        BY <1>3, <1>5, RestIsIdle, RestIsFair, LoginKeeps
  <1>6. CASE Is(r, "locked") /\ Change(r)
    <2>1. lock' = Nobody BY <1>3, <1>6, OneHolder DEF Release
    <2> QED BY <1>3, <1>6, <2>1, RestIsIdle, RestIsFair, ChangeKeeps
  <1> QED BY <1>4, <1>5, <1>6 DEF Lose

\* A response that arrives late brings no cookie the row has not reached.
LEMMA ArriveKeeps ==
  ASSUME IInv, NEW r \in Request, Arrive(r)
  PROVE  IInv'
  <1>1. TypeOK /\ request[r] \in Flight BY DEF IInv, TypeOK
  <1>2. /\ request' = [request EXCEPT ![r] = Rest] /\ lock' = lock /\ NoWrite
        /\ jar' = IF request[r].reply = Keep THEN jar
                  ELSE [jar EXCEPT ![request[r].browser] = request[r].reply]
        BY DEF Arrive
  <1>3. CASE request[r].reply = Keep
    <2>1. \A c \in Browser : jar'[c] # NoCookie => jar'[c] <= user.version
          BY <1>2, <1>3 DEF IInv, CookiesAreNeverAhead
    <2> QED BY <1>1, <1>2, <1>3, <2>1, RestIsIdle, RestIsFair, QuietKeeps DEF TypeOK
  <1>4. CASE request[r].reply # Keep
    <2>1. request[r].reply \in Cookie BY <1>1, <1>4 DEF Flight
    <2>2. jar' \in [Browser -> Cookie] BY <1>1, <1>2, <1>4, <2>1 DEF TypeOK
    <2>3. \A c \in Browser : jar'[c] # NoCookie => jar'[c] <= user.version
          BY <1>1, <1>2, <1>4, <2>1 DEF IInv, CookiesAreNeverAhead, TypeOK, Cookie
    <2> QED BY <1>1, <1>2, <2>2, <2>3, RestIsIdle, RestIsFair, QuietKeeps DEF TypeOK
  <1> QED BY <1>3, <1>4

\* The invariant is inductive.
LEMMA NextKeeps == IInv /\ [Next]_vars => IInv'
  <1> SUFFICES ASSUME IInv, [Next]_vars PROVE IInv' OBVIOUS
  <1>1. CASE UNCHANGED vars
        BY <1>1 DEF vars, IInv, TypeOK, Budget, PendingSet, Pending, Is, Locking, SentNotAhead,
                    VersionCountsChanges, PasswordIsLatest, CookieWasEarned, CookiesAreNeverAhead
  <1>2. ASSUME NEW r \in Request,
               \/ Send(r) \/ Revalidate(r) \/ LockUser(r) \/ Authenticate(r)
               \/ ChangePassword(r) \/ Fail(r) \/ Lose(r) \/ Arrive(r)
        PROVE  IInv'
        BY <1>2, SendKeeps, RevalidateKeeps, LockUserKeeps, AuthenticateKeeps,
           ChangePasswordKeeps, FailKeeps, LoseKeeps, ArriveKeeps
  <1> QED BY <1>1, <1>2 DEF Next

LEMMA Inductive == Spec => []IInv
  BY InitIInv, NextKeeps, PTL DEF Spec
-----------------------------------------------------------------------------
\* Every reachable state is well typed, and the bound on changes suffices for the versions.
THEOREM TypeCorrect == Spec => []TypeOK
  <1>1. IInv => TypeOK BY DEF IInv
  <1> QED BY <1>1, Inductive, PTL

\* However many changes run at once, each advances the version: none is lost.
THEOREM NoChangeIsLost == Spec => []VersionCountsChanges
  <1>1. IInv => VersionCountsChanges BY DEF IInv
  <1> QED BY <1>1, Inductive, PTL

\* The password is the one the last change set, whatever logins upgraded its hash.
THEOREM LatestPasswordStays == Spec => []PasswordIsLatest
  <1>1. IInv => PasswordIsLatest BY DEF IInv
  <1> QED BY <1>1, Inductive, PTL

\* Login and change give a cookie only to who proved, or set, that version's password.
THEOREM CookiesAreEarned == Spec => []CookieWasEarned
  <1>1. IInv => CookieWasEarned BY DEF IInv
  <1> QED BY <1>1, Inductive, PTL

\* No cookie names a version that was not committed.
THEOREM NoCookieIsAhead == Spec => []CookiesAreNeverAhead
  <1>1. IInv => CookiesAreNeverAhead BY DEF IInv
  <1> QED BY <1>1, Inductive, PTL

\* A commit that sets a password advances the version by one, and nothing else moves it, so a
\* cookie once revoked is not current again.
THEOREM RevocationIsFinal == Spec => RevokedStaysRevoked
  <1> DEFINE Revokes == /\ user'.version \in {user.version, user.version + 1}
                        /\ user'.password # user.password => user'.version = user.version + 1
  <1>1. ASSUME IInv, [Next]_vars PROVE Revokes
    <2>1. CASE user' = user BY <2>1
    <2>2. ASSUME NEW r \in Request, Is(r, "locked"), Login(r) PROVE Revokes
      <3>1. request[r].seen = user /\ user \in Row BY <1>1, <2>2, OneHolder
      <3> QED BY <2>2, <3>1 DEF Login, UpgradeHash, Row
    <2>3. ASSUME NEW r \in Request, Is(r, "locked"), Change(r) PROVE Revokes
      <3>1. request[r].seen = user BY <1>1, <2>3, OneHolder
      <3> QED BY <2>3, <3>1 DEF Change, SetPassword
    <2>4. CASE \E r \in Request : Is(r, "locked") /\ (Login(r) \/ Change(r))
          BY <2>2, <2>3, <2>4
    <2>5. user' = user \/ \E r \in Request : Is(r, "locked") /\ (Login(r) \/ Change(r))
          BY <1>1 DEF Next, vars, Send, Revalidate, LockUser, Authenticate, ChangePassword, Fail,
                      Lose, Arrive, NoWrite
    <2> QED BY <2>1, <2>4, <2>5
  <1>2. IInv /\ [Next]_vars => [Revokes]_vars BY <1>1
  <1> QED BY <1>2, Inductive, PTL DEF Spec, RevokedStaysRevoked
=============================================================================
