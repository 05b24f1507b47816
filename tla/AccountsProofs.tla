--------------------------- MODULE AccountsProofs ---------------------------
(***************************************************************************)
(* Proofs about Accounts, for any accounts, requests, mixtures of           *)
(* operations and times: an ended session stays ended, an administrator      *)
(* remains, the password last chosen stands, and a code completes one login. *)
(*                                                                         *)
(* The order is: what each statement writes; what a row and a request keep  *)
(* whoever writes; one lemma for steps that only read and one for steps that *)
(* write; then the requests one by one.  The second part, about codes, has  *)
(* an invariant of its own (CodeInv) and the same order.                     *)
(***************************************************************************)
EXTENDS Accounts, SequenceTheorems, TLAPS

Factor  == {"secret", "counter", "recovery"}
Columns == {"state", "enabled", "role", "password", "revoked", "token",
            "secret", "counter", "recovery"}
Fields  == {"op", "at", "by", "on", "todo", "read", "arg", "id", "outdated"}

RowInv ==
  /\ now \in Nat
  /\ users = [u \in User |-> users[u]]
  /\ \A u \in User : /\ Columns \subseteq DOMAIN users[u]
                     /\ users[u].state \in {"none", "live", "deleted"}
                     /\ users[u].revoked \in 0 .. now
                     /\ users[u].state = "none" => users[u].token = 0

\* Whoever holds a token has an account, deleted or not.
There(u) == u \in User /\ users[u].state # "none"

KnownInv ==
  /\ sessions \subseteq [user : User, iat : Nat]
  /\ \A s \in sessions : There(s.user)
  /\ \A u \in pending : There(u)

\* Inductive form of EndedStaysEnded: nothing takes a time of revocation back.
EndedInv ==
  \A s \in ended : /\ There(s.user) /\ s.iat \in Nat
                   /\ users[s.user].state = "live" => s.iat < users[s.user].revoked

Good(u) == Live(u) /\ users[u].enabled /\ users[u].role = "admin"

\* The operations that may take a power away.
Power == {"delete", "disable", "update"}

Person(c) == Fields \subseteq DOMAIN c /\ There(c.by)

\* Who asks for such an operation is an administrator still, unless somebody
\* has written their row since.
Asker(c) == c.op \in Power /\ c.by \notin c.outdated => Good(c.by)

\* The accounts that a batch has looked at.
Checked(c) == IF c.at = "check" THEN c.on \ c.todo ELSE c.on

Batch(c) ==
  c.op \in {"delete", "disable"} =>
    /\ c.by \notin Checked(c)
    /\ named => Root \notin Checked(c)

Edit(c) ==
  c.op = "update" =>
    /\ c.at \in {"read", "count", "write"}
    /\ (\E t : c.on = {t}) /\ c.arg.role \in {"keep", "admin", "user"}
    /\ c.at # "read" =>
         /\ c.by \notin c.on
         /\ named /\ Root \in c.on => NextRole(c) = "admin"
         /\ \A t \in c.on \cap User : Live(t) /\ t \notin c.outdated => users[t].password = c.read.password

Proper(c) == c # Idle => Person(c) /\ Asker(c) /\ Batch(c) /\ Edit(c)

ReqInv == /\ req = [p \in Proc |-> req[p]]
          /\ \A p \in Proc : Proper(req[p])

PowerInv == /\ named => Good(Root)
            /\ ~crossed => \E u \in User : Good(u)

Inv == RowInv /\ KnownInv /\ EndedInv /\ ReqInv /\ PowerInv /\ LastChoiceHolds

-----------------------------------------------------------------------------
(* What a statement writes: the columns F of the rows S that are live.      *)

Writes(S, F) ==
  /\ users' = [u \in User |-> users'[u]]
  /\ \A u \in User : /\ u \notin S \/ ~Live(u) => users'[u] = users[u]
                     /\ DOMAIN users'[u] = DOMAIN users[u]
                     /\ \A f \in Columns \ F : users'[u][f] = users[u][f]

\* How a row may change: an account goes through its states in order, and its
\* time of revocation is kept or is now.
Later ==
  /\ users' = [u \in User |-> users'[u]]
  /\ \A u \in User :
      /\ Columns \subseteq DOMAIN users'[u]
      /\ users'[u].state \in {"none", "live", "deleted"}
      /\ users'[u].revoked \in 0 .. now
      /\ users'[u].state = "none" => users'[u] = users[u]
      /\ users[u].state = "deleted" => users'[u].state = "deleted"
      /\ users[u].state = "live" => /\ users'[u].state # "none"
                                    /\ users'[u].revoked \in {users[u].revoked, now}

\* Statements that write other columns only.
LEMMA WritesKeepRows ==
  ASSUME RowInv, NEW S, NEW F, Writes(S, F),
         \A u \in S \cap User : Live(u) => /\ users'[u].state \in {"live", "deleted"}
                                           /\ users'[u].revoked \in {users[u].revoked, now}
  PROVE  Later
<1> SUFFICES ASSUME NEW u \in User
             PROVE  /\ Columns \subseteq DOMAIN users'[u]
                    /\ users'[u].state \in {"none", "live", "deleted"}
                    /\ users'[u].revoked \in 0 .. now
                    /\ users'[u].state = "none" => users'[u] = users[u]
                    /\ users[u].state = "deleted" => users'[u].state = "deleted"
                    /\ users[u].state = "live" => /\ users'[u].state # "none"
                                                  /\ users'[u].revoked \in {users[u].revoked, now}
  BY DEF Later, Writes
<1>1. CASE u \in S /\ Live(u)
  BY <1>1 DEF RowInv, Writes, Live
<1>2. CASE ~(u \in S /\ Live(u))
  <2>1. users'[u] = users[u]
    BY <1>2 DEF Writes
  <2> QED BY <2>1 DEF RowInv
<1> QED BY <1>1, <1>2

LEMMA DeleteDoes ==
  ASSUME RowInv, NEW S, Delete(S)
  PROVE  /\ Writes(S, {"state"}) /\ Later
         /\ \A u \in S \cap User : Live(u) => users'[u].state = "deleted"
<1>1. /\ users' = [u \in User |-> users'[u]]
      /\ \A u \in User : users'[u] = IF u \in S /\ Live(u)
                                     THEN [users[u] EXCEPT !.state = "deleted"] ELSE users[u]
  BY DEF Delete, Change
<1>2. /\ Writes(S, {"state"})
      /\ \A u \in S \cap User : Live(u) => /\ users'[u].state = "deleted"
                                           /\ users'[u].revoked = users[u].revoked
  BY <1>1 DEF Writes, RowInv, Columns
<1> QED BY <1>2, WritesKeepRows

LEMMA SetEnabledDoes ==
  ASSUME RowInv, NEW S, NEW on, SetEnabled(S, on)
  PROVE  /\ Writes(S, {"enabled"}) /\ Later
         /\ \A u \in S \cap User : Live(u) => users'[u].enabled = on
<1>1. /\ users' = [u \in User |-> users'[u]]
      /\ \A u \in User : users'[u] = IF u \in S /\ Live(u)
                                     THEN [users[u] EXCEPT !.enabled = on] ELSE users[u]
  BY DEF SetEnabled, Change
<1>2. /\ Writes(S, {"enabled"})
      /\ \A u \in S \cap User : Live(u) => /\ users'[u].enabled = on
                                           /\ users'[u].state = users[u].state
                                           /\ users'[u].revoked = users[u].revoked
  BY <1>1 DEF Writes, RowInv, Columns
<1> QED BY <1>2, WritesKeepRows DEF Live

LEMMA UpdatePasswordDoes ==
  ASSUME RowInv, NEW t, NEW pw, UpdatePassword(t, pw)
  PROVE  /\ Writes({t}, {"password", "revoked"}) /\ Later
         /\ t \in User /\ Live(t) => users'[t].password = pw /\ users'[t].revoked = now
<1>1. /\ users' = [u \in User |-> users'[u]]
      /\ \A u \in User : users'[u] = IF u \in {t} /\ Live(u)
                                     THEN [users[u] EXCEPT !.password = pw, !.revoked = now] ELSE users[u]
  BY DEF UpdatePassword, Change
<1>2. /\ Writes({t}, {"password", "revoked"})
      /\ t \in User /\ Live(t) => /\ users'[t].password = pw /\ users'[t].revoked = now
                                  /\ users'[t].state = users[t].state
  BY <1>1 DEF Writes, RowInv, Columns
<1> QED BY <1>2, WritesKeepRows DEF Live

LEMMA RevokeDoes ==
  ASSUME RowInv, NEW t, RevokeAllSessions(t)
  PROVE  /\ Writes({t}, {"revoked"}) /\ Later
         /\ t \in User /\ Live(t) => users'[t].revoked = now
<1>1. /\ users' = [u \in User |-> users'[u]]
      /\ \A u \in User : users'[u] = IF u \in {t} /\ Live(u)
                                     THEN [users[u] EXCEPT !.revoked = now] ELSE users[u]
  BY DEF RevokeAllSessions, Change
<1>2. /\ Writes({t}, {"revoked"})
      /\ t \in User /\ Live(t) => users'[t].revoked = now /\ users'[t].state = users[t].state
  BY <1>1 DEF Writes, RowInv, Columns
<1> QED BY <1>2, WritesKeepRows DEF Live

LEMMA SetTokenDoes ==
  ASSUME RowInv, NEW t, NEW id, SetResetToken(t, id)
  PROVE  Writes({t}, {"token"}) /\ Later
<1>1. /\ users' = [u \in User |-> users'[u]]
      /\ \A u \in User : users'[u] = IF u \in {t} /\ Live(u)
           THEN [users[u] EXCEPT !.token = id, !.expires = now + TokenTTL] ELSE users[u]
  BY DEF SetResetToken, Change
<1>2. /\ Writes({t}, {"token"})
      /\ t \in User => users'[t].revoked = users[t].revoked /\ users'[t].state = users[t].state
  BY <1>1 DEF Writes, RowInv, Columns
<1> QED BY <1>2, WritesKeepRows DEF Live

LEMMA ResetByTokenDoes ==
  ASSUME RowInv, NEW t, NEW pw, ResetPasswordByToken(t, pw)
  PROVE  /\ Writes({t}, {"password", "revoked", "token"}) /\ Later
         /\ t \in User /\ Live(t) => users'[t].password = pw /\ users'[t].revoked = now
<1>1. /\ users' = [u \in User |-> users'[u]]
      /\ \A u \in User : users'[u] = IF u \in {t} /\ Live(u)
           THEN [users[u] EXCEPT !.password = pw, !.token = 0, !.expires = 0, !.revoked = now]
           ELSE users[u]
  BY DEF ResetPasswordByToken, Change
<1>2. /\ Writes({t}, {"password", "revoked", "token"})
      /\ t \in User /\ Live(t) => /\ users'[t].password = pw /\ users'[t].revoked = now
                                  /\ users'[t].state = users[t].state
  BY <1>1 DEF Writes, RowInv, Columns
<1> QED BY <1>2, WritesKeepRows DEF Live

\* The statements of two-factor authentication write their own columns only.
LEMMA FactorWrites ==
  ASSUME RowInv, NEW t,
         \/ \E key : SetTOTP(t, key)
         \/ EnableTOTP(t) \/ DisableTOTP(t)
         \/ \E n : SetTOTPLastCounter(t, n)
         \/ \E codes : SetTOTPRecoveryCodes(t, codes)
  PROVE  Writes({t}, Factor)
<1>1. CASE \E key : SetTOTP(t, key)
  <2>1. PICK key : SetTOTP(t, key)
    BY <1>1
  <2>2. /\ users' = [u \in User |-> users'[u]]
        /\ \A u \in User : users'[u] = IF u \in {t} /\ Live(u)
             THEN [users[u] EXCEPT !.secret = key, !.recovery = [i \in 1 .. Codes |-> i],
                                   !.totp = FALSE, !.counter = 0] ELSE users[u]
    BY <2>1 DEF SetTOTP, Change
  <2> QED BY <2>2 DEF Writes, RowInv, Columns, Factor
<1>2. CASE EnableTOTP(t)
  <2>1. /\ users' = [u \in User |-> users'[u]]
        /\ \A u \in User : users'[u] = IF u \in {t} /\ Live(u)
                                       THEN [users[u] EXCEPT !.totp = TRUE] ELSE users[u]
    BY <1>2 DEF EnableTOTP, Change
  <2> QED BY <2>1 DEF Writes, RowInv, Columns, Factor
<1>3. CASE DisableTOTP(t)
  <2>1. /\ users' = [u \in User |-> users'[u]]
        /\ \A u \in User : users'[u] = IF u \in {t} /\ Live(u)
             THEN [users[u] EXCEPT !.totp = FALSE, !.secret = 0, !.recovery = <<>>, !.counter = 0]
             ELSE users[u]
    BY <1>3 DEF DisableTOTP, Change
  <2> QED BY <2>1 DEF Writes, RowInv, Columns, Factor
<1>4. CASE \E n : SetTOTPLastCounter(t, n)
  <2>1. PICK n : SetTOTPLastCounter(t, n)
    BY <1>4
  <2>2. /\ users' = [u \in User |-> users'[u]]
        /\ \A u \in User : users'[u] = IF u \in {t} /\ Live(u)
                                       THEN [users[u] EXCEPT !.counter = n] ELSE users[u]
    BY <2>1 DEF SetTOTPLastCounter, Change
  <2> QED BY <2>2 DEF Writes, RowInv, Columns, Factor
<1>5. CASE \E codes : SetTOTPRecoveryCodes(t, codes)
  <2>1. PICK codes : SetTOTPRecoveryCodes(t, codes)
    BY <1>5
  <2>2. /\ users' = [u \in User |-> users'[u]]
        /\ \A u \in User : users'[u] = IF u \in {t} /\ Live(u)
                                       THEN [users[u] EXCEPT !.recovery = codes] ELSE users[u]
    BY <2>1 DEF SetTOTPRecoveryCodes, Change
  <2> QED BY <2>2 DEF Writes, RowInv, Columns, Factor
<1> QED BY <1>1, <1>2, <1>3, <1>4, <1>5

LEMMA FactorDoes ==
  ASSUME RowInv, NEW t,
         \/ \E key : SetTOTP(t, key)
         \/ EnableTOTP(t) \/ DisableTOTP(t)
         \/ \E n : SetTOTPLastCounter(t, n)
         \/ \E codes : SetTOTPRecoveryCodes(t, codes)
  PROVE  Writes({t}, Factor) /\ Later
<1>1. Writes({t}, Factor)
  BY FactorWrites
<1>2. t \in User => users'[t].revoked = users[t].revoked /\ users'[t].state = users[t].state
  BY <1>1 DEF Writes, Columns, Factor
<1> QED BY <1>1, <1>2, WritesKeepRows DEF Live

LEMMA UpdateDoes ==
  ASSUME RowInv, NEW t, NEW read, NEW role, NEW pw, Update(t, read, role, pw)
  PROVE  /\ Writes({t}, {"role", "password", "revoked"}) /\ Later
         /\ t \in User /\ Live(t) => users'[t].password = pw /\ users'[t].role = role
<1>1. /\ users' = [u \in User |-> users'[u]]
      /\ \A u \in User : users'[u] = IF u \in {t} /\ Live(u)
                                     THEN UpdateRow(users[u], read, role, pw) ELSE users[u]
  BY DEF Update, Change
<1>2. /\ Writes({t}, {"role", "password", "revoked"})
      /\ t \in User /\ Live(t) => /\ users'[t].password = pw /\ users'[t].role = role
                                  /\ users'[t].revoked \in {users[t].revoked, now}
                                  /\ users'[t].state = users[t].state
  BY <1>1 DEF Writes, RowInv, Columns, UpdateRow
<1> QED BY <1>2, WritesKeepRows DEF Live

-----------------------------------------------------------------------------
(* What a step does to the other requests, to the sessions and to history.  *)

\* The others only learn that the rows S were written.
Others(p, S) ==
  /\ req' = [q \in Proc |-> req'[q]]
  /\ \A q \in Proc \ {p} :
       IF req[q] = Idle THEN req'[q] = Idle
       ELSE /\ DOMAIN req'[q] = DOMAIN req[q]
            /\ \A f \in Fields \ {"outdated"} : req'[q][f] = req[q][f]
            /\ req'[q].outdated = req[q].outdated \cup S

LEMMA ContinueDoes ==
  ASSUME ReqInv, NEW p \in Proc, NEW c, Continue(p, c)
  PROVE  /\ Others(p, {}) /\ req'[p] = c
         /\ users' = users /\ stale' = stale /\ crossed' = crossed
<1>1. /\ req' = [req EXCEPT ![p] = c]
      /\ users' = users /\ stale' = stale /\ crossed' = crossed
  BY DEF Continue
<1>2. req' = [q \in Proc |-> req'[q]] /\ req'[p] = c /\ \A q \in Proc \ {p} : req'[q] = req[q]
  BY <1>1 DEF ReqInv
<1>3. ASSUME NEW q \in Proc \ {p}, req[q] # Idle
      PROVE  req'[q].outdated = req[q].outdated \cup {}
  BY <1>2
<1> QED BY <1>1, <1>2, <1>3 DEF Others

LEMMA WroteDoes ==
  ASSUME ReqInv, NEW p \in Proc, NEW S, NEW c, Wrote(p, S, c)
  PROVE  /\ Others(p, S) /\ req'[p] = c
         /\ stale' = stale \cup (S \cap req[p].outdated)
         /\ crossed' = (crossed \/ req[p].outdated # {})
<1>1. /\ req' = [q \in Proc |-> IF q = p THEN c
                                ELSE IF req[q] = Idle THEN Idle
                                ELSE [req[q] EXCEPT !.outdated = @ \cup S]]
      /\ stale' = stale \cup (S \cap req[p].outdated)
      /\ crossed' = (crossed \/ req[p].outdated # {})
  BY DEF Wrote
<1>2. req' = [q \in Proc |-> req'[q]] /\ req'[p] = c
  BY <1>1
<1>3. ASSUME NEW q \in Proc \ {p}
      PROVE  IF req[q] = Idle THEN req'[q] = Idle
             ELSE /\ DOMAIN req'[q] = DOMAIN req[q]
                  /\ \A f \in Fields \ {"outdated"} : req'[q][f] = req[q][f]
                  /\ req'[q].outdated = req[q].outdated \cup S
  <2>1. CASE req[q] = Idle
    BY <1>1, <2>1
  <2>2. CASE req[q] # Idle
    <3>1. req'[q] = [req[q] EXCEPT !.outdated = @ \cup S]
      BY <1>1, <2>2
    <3>2. Fields \subseteq DOMAIN req[q]
      BY <2>2 DEF ReqInv, Proper, Person
    <3> QED BY <2>2, <3>1, <3>2 DEF Fields
  <2> QED BY <2>1, <2>2
<1> QED BY <1>1, <1>2, <1>3 DEF Others

\* The rows that a step leaves alone, and the clocks.
Outside(S) ==
  /\ Later /\ now' = now /\ named' = named /\ stale \subseteq stale'
  /\ \A u \in User \ S : users'[u] = users[u]

Admits ==
  /\ sessions' \subseteq sessions \cup {s \in [user : User, iat : {now}] : There(s.user)}
  /\ \A u \in pending' : u \in pending \/ There(u)

\* What is ended now is revoked now, or cannot sign in.
Ends ==
  \A s \in ended' : \/ s \in ended
                    \/ /\ s \in sessions /\ s.iat < now
                       /\ users'[s.user].state = "live" => users'[s.user].revoked = now

\* A password is kept, or written together with the choice.
Agrees ==
  \A u \in User : users'[u].state = "live" /\ u \notin stale' =>
    \/ users'[u].password = chosen'[u]
    \/ /\ Live(u) /\ users'[u].password = users[u].password
       /\ chosen'[u] = chosen[u]

LEMMA OthersKeep ==
  ASSUME ReqInv, NEW S, Outside(S), NEW p \in Proc, Others(p, S), NEW q \in Proc \ {p}
  PROVE  Proper(req[q])'
<1> DEFINE c == req[q]
<1> SUFFICES ASSUME c # Idle, c' # Idle
             PROVE  Person(c)' /\ Asker(c)' /\ Batch(c)' /\ Edit(c)'
  BY DEF Others, Proper
<1>1. /\ DOMAIN c' = DOMAIN c /\ c'.outdated = c.outdated \cup S
      /\ c'.op = c.op /\ c'.at = c.at /\ c'.by = c.by /\ c'.on = c.on /\ c'.todo = c.todo
      /\ c'.arg = c.arg /\ c'.read = c.read
  BY DEF Others, Fields
<1>2. Person(c) /\ Asker(c) /\ Batch(c) /\ Edit(c)
  BY DEF ReqInv, Proper
<1>3. \A u : There(u) => There(u)'
  BY DEF There, Outside, Later
<1> HIDE DEF c
<1>4. Person(c)'
  BY <1>1, <1>2, <1>3 DEF Person, There
<1>5. Asker(c)'
  <2> SUFFICES ASSUME c'.op \in Power, c'.by \notin c'.outdated
               PROVE  Good(c.by)'
    BY DEF Asker
  <2>1. c.by \notin S /\ Good(c.by) /\ c.by \in User
    BY <1>1, <1>2 DEF Asker, Person, There
  <2>2. users'[c.by] = users[c.by]
    BY <2>1 DEF Outside
  <2> QED BY <1>1, <2>1, <2>2 DEF Good, Live
<1>6. Batch(c)'
  BY <1>1, <1>2 DEF Batch, Checked, Outside
<1>7. Edit(c)'
  <2> SUFFICES ASSUME c'.op = "update" PROVE Edit(c)'
    BY DEF Edit
  <2>1. /\ c'.at \in {"read", "count", "write"}
        /\ (\E t : c'.on = {t}) /\ c'.arg.role \in {"keep", "admin", "user"}
    BY <1>1, <1>2 DEF Edit
  <2> SUFFICES ASSUME c'.at # "read"
               PROVE  /\ c'.by \notin c'.on
                      /\ named' /\ Root \in c'.on => NextRole(c)' = "admin"
                      /\ \A t \in c'.on \cap User :
                           Live(t)' /\ t \notin c'.outdated => users'[t].password = c'.read.password
    BY <2>1 DEF Edit
  <2>2. c'.by \notin c'.on /\ (named' /\ Root \in c'.on => NextRole(c)' = "admin")
    BY <1>1, <1>2 DEF Edit, Outside, NextRole
  <2>3. ASSUME NEW t \in c'.on \cap User, Live(t)', t \notin c'.outdated
        PROVE  users'[t].password = c'.read.password
    <3>1. t \in c.on /\ t \in User /\ t \notin c.outdated /\ t \notin S
      BY <1>1, <2>3
    <3>2. users'[t] = users[t]
      BY <3>1 DEF Outside
    <3> QED BY <1>1, <1>2, <2>3, <3>1, <3>2 DEF Edit, Live
  <2> QED BY <2>2, <2>3
<1> QED BY <1>4, <1>5, <1>6, <1>7

\* Every step of a request is shown to be one of these.
LEMMA StepKeeps ==
  ASSUME Inv, NEW p \in Proc, NEW S, Outside(S), Others(p, S), Proper(req[p])',
         Admits, Ends, Agrees, PowerInv'
  PROVE  Inv'
<1>1. RowInv'
  BY DEF Inv, RowInv, Outside, Later
<1>2. \A u : There(u) => There(u)'
  BY DEF There, Outside, Later
<1>3. KnownInv'
  <2>1. \A s \in sessions' : s \in [user : User, iat : Nat] /\ (There(s.user) \/ There(s.user)')
    BY DEF Inv, RowInv, KnownInv, Admits
  <2> QED BY <1>2, <2>1 DEF Inv, KnownInv, Admits
<1>4. EndedInv'
  <2> SUFFICES ASSUME NEW s \in ended'
               PROVE  /\ There(s.user)' /\ s.iat \in Nat
                      /\ users'[s.user].state = "live" => s.iat < users'[s.user].revoked
    BY DEF EndedInv
  <2>1. CASE s \in ended
    <3>1. /\ There(s.user) /\ s.iat \in Nat /\ s.user \in User
          /\ users[s.user].state = "live" => s.iat < users[s.user].revoked
      BY <2>1 DEF Inv, EndedInv, There
    <3>2. There(s.user)'
      BY <1>2, <3>1
    <3>3. ASSUME users'[s.user].state = "live" PROVE s.iat < users'[s.user].revoked
      <4>1. users[s.user].state = "live"
        BY <3>1, <3>3 DEF There, Inv, RowInv, Outside, Later
      <4>2. /\ users'[s.user].revoked \in {users[s.user].revoked, now}
            /\ users[s.user].revoked \in 0 .. now
        BY <3>1, <4>1 DEF Inv, RowInv, Outside, Later
      <4> QED BY <3>1, <4>1, <4>2 DEF Inv, RowInv
    <3> QED BY <3>1, <3>2, <3>3
  <2>2. CASE s \notin ended
    <3>1. s \in sessions /\ s.iat < now
          /\ (users'[s.user].state = "live" => users'[s.user].revoked = now)
      BY <2>2 DEF Ends
    <3>2. There(s.user) /\ s.iat \in Nat
      BY <3>1 DEF Inv, KnownInv
    <3> QED BY <1>2, <3>1, <3>2
  <2> QED BY <2>1, <2>2
<1>5. ReqInv'
  <2>1. \A q \in Proc \ {p} : Proper(req[q])'
    BY OthersKeep DEF Inv
  <2> QED BY <2>1 DEF ReqInv, Others
<1>6. LastChoiceHolds'
  <2> SUFFICES ASSUME NEW u \in User, users'[u].state = "live", u \notin stale'
               PROVE  users'[u].password = chosen'[u]
    BY DEF LastChoiceHolds, Live
  <2>1. u \notin stale
    BY DEF Outside
  <2> QED BY <2>1 DEF Agrees, Inv, LastChoiceHolds
<1> QED BY <1>1, <1>3, <1>4, <1>5, <1>6 DEF Inv

\* A step that lets the good be good.
LEMMA Harmless ==
  ASSUME PowerInv, named' = named, crossed => crossed', \A u \in User : Good(u) => Good(u)'
  PROVE  PowerInv'
BY TableAssumption DEF PowerInv

\* A step that writes no row.
LEMMA ReadKeeps ==
  ASSUME Inv, NEW p \in Proc, UNCHANGED <<now, named, users, chosen, ended, stale, crossed>>,
         Others(p, {}), Proper(req[p])', Admits
  PROVE  Inv'
<1>1. Outside({})
  BY DEF Outside, Later, Inv, RowInv
<1>2. Ends /\ Agrees
  BY DEF Ends, Agrees, Inv, LastChoiceHolds, Live
<1>3. PowerInv'
  BY DEF Inv, PowerInv, Good, Live
<1> QED BY <1>1, <1>2, <1>3, StepKeeps

\* A step of an operation that takes no power away: the request goes on.
GoesOn(p) ==
  req'[p] # Idle => /\ DOMAIN req'[p] = DOMAIN req[p]
                    /\ req'[p].op = req[p].op /\ req'[p].by = req[p].by

LEMMA OrdinaryGoesOn ==
  ASSUME Inv, NEW p \in Proc, NEW S, Outside(S), req[p] # Idle, req[p].op \notin Power, GoesOn(p)
  PROVE  Proper(req[p])'
<1> SUFFICES ASSUME req'[p] # Idle
             PROVE  Person(req[p])' /\ Asker(req[p])' /\ Batch(req[p])' /\ Edit(req[p])'
  BY DEF Proper
<1>1. Person(req[p])'
  <2>1. \A u : There(u) => There(u)'
    BY DEF There, Outside, Later
  <2> QED BY <2>1 DEF GoesOn, Inv, ReqInv, Proper, Person
<1>2. Asker(req[p])' /\ Batch(req[p])' /\ Edit(req[p])'
  BY DEF GoesOn, Asker, Batch, Edit, Power
<1> QED BY <1>1, <1>2

-----------------------------------------------------------------------------
(* Requests begin.                                                          *)

LEMMA BeginKeeps ==
  ASSUME Inv, NEW p \in Proc, NEW op, NEW place, NEW by, NEW on, NEW arg,
         Begin(p, op, place, by, on, arg),
         UNCHANGED <<now, named, users, sessions, pending, chosen, ended, stale, crossed>>,
         There(by), op \in Power => Good(by),
         op \in {"delete", "disable"} => place = "check",
         op = "update" => /\ place = "read" /\ \E t : on = {t}
                          /\ arg.role \in {"keep", "admin", "user"}
  PROVE  Inv'
<1> DEFINE c == [op |-> op, at |-> place, by |-> by, on |-> on, todo |-> on,
                 read |-> NoUser, arg |-> arg, id |-> Fresh + 1, outdated |-> {}]
<1>1. req' = [req EXCEPT ![p] = c]
  BY DEF Begin
<1>2. req' = [q \in Proc |-> req'[q]] /\ req'[p] = c /\ \A q \in Proc \ {p} : req'[q] = req[q]
  BY <1>1 DEF Inv, ReqInv
<1>3. ASSUME NEW q \in Proc \ {p}, req[q] # Idle
      PROVE  req'[q].outdated = req[q].outdated \cup {}
  BY <1>2
<1>4. Others(p, {})
  BY <1>2, <1>3 DEF Others
<1>5. /\ DOMAIN req'[p] = Fields
      /\ req'[p].op = op /\ req'[p].at = place /\ req'[p].by = by
      /\ req'[p].on = on /\ req'[p].todo = on /\ req'[p].outdated = {} /\ req'[p].arg = arg
  BY <1>2 DEF Fields
<1>6. Proper(req[p])'
  <2>1. Person(req[p])' /\ Asker(req[p])' /\ Batch(req[p])' /\ Edit(req[p])'
    BY <1>5 DEF Person, There, Asker, Good, Live, Batch, Checked, Edit, Power
  <2> QED BY <2>1 DEF Proper
<1>7. Admits
  BY DEF Admits
<1> QED BY <1>4, <1>6, <1>7, ReadKeeps

LEMMA AdminBeginsKeeps ==
  ASSUME Inv, NEW p \in Proc, NEW op, NEW place, NEW on, NEW arg,
         AdminBegins(p, op, place, on, arg),
         op \in {"delete", "disable"} => place = "check",
         op = "update" => /\ place = "read" /\ \E t : on = {t}
                          /\ arg.role \in {"keep", "admin", "user"}
  PROVE  Inv'
<1>1. PICK by \in User : /\ SignedIn(by) /\ users[by].role = "admin"
                         /\ Begin(p, op, place, by, on, arg)
  BY DEF AdminBegins
<1>2. Good(by)
  BY <1>1 DEF SignedIn, Accepted, Good
<1>3. There(by)
  BY <1>2 DEF Good, Live, There
<1> QED BY <1>1, <1>2, <1>3, BeginKeeps DEF AdminBegins, clockVars, signVars, histVars

LEMMA AdminRequestKeeps ==
  ASSUME Inv, NEW p \in Proc, AdminRequest(p)
  PROVE  Inv'
<1>1. CASE CreateRequest(p)
  BY <1>1, AdminBeginsKeeps DEF CreateRequest, Open
<1>2. CASE UpdateRequest(p)
  BY <1>2, AdminBeginsKeeps DEF UpdateRequest, Open
<1>3. CASE DeleteRequest(p)
  BY <1>3, AdminBeginsKeeps DEF DeleteRequest, Open
<1>4. CASE ToggleRequest(p)
  BY <1>4, AdminBeginsKeeps DEF ToggleRequest, Open
<1>5. CASE BatchToggleRequest(p)
  BY <1>5, AdminBeginsKeeps DEF BatchToggleRequest, Open
<1>6. CASE BatchResetPasswordRequest(p)
  BY <1>6, AdminBeginsKeeps DEF BatchResetPasswordRequest, Open
<1>7. CASE ResetTokenRequest(p)
  BY <1>7, AdminBeginsKeeps DEF ResetTokenRequest, Open
<1>8. CASE ForceRequest(p)
  BY <1>8, AdminBeginsKeeps DEF ForceRequest, Open
<1>9. CASE BatchForceRequest(p)
  BY <1>9, AdminBeginsKeeps DEF BatchForceRequest, Open
<1> QED BY <1>1, <1>2, <1>3, <1>4, <1>5, <1>6, <1>7, <1>8, <1>9 DEF AdminRequest

LEMMA AsksKeeps ==
  ASSUME Inv, NEW p \in Proc, NEW op, op \notin Power, NEW place, NEW u \in User, NEW arg,
         Asks(p, op, place, u, arg), There(u)
  PROVE  Inv'
<1>1. op \notin {"delete", "disable", "update"}
  BY DEF Power
<1> QED BY <1>1, BeginKeeps DEF Asks, clockVars, signVars, histVars

LEMMA UserRequestKeeps ==
  ASSUME Inv, NEW p \in Proc, PublicRequest(p) \/ OwnRequest(p)
  PROVE  Inv'
<1>1. \A u \in User : Live(u) => There(u)
  BY DEF Live, There
<1>2. \A u \in User : SignedIn(u) => There(u)
  BY <1>1 DEF SignedIn, Accepted
<1>3. \A u \in User : users[u].token # 0 => There(u)
  BY DEF Inv, RowInv, There
<1>4. \A u \in pending : u \in User /\ There(u)
  BY DEF Inv, KnownInv, There
<1>5. CASE LoginRequest(p)
  BY <1>1, <1>5, AsksKeeps DEF LoginRequest, Open, Power
<1>6. CASE VerifyRequest(p)
  BY <1>4, <1>6, AsksKeeps DEF VerifyRequest, Open, Power
<1>7. CASE ForgotRequest(p)
  BY <1>3, <1>7, AsksKeeps DEF ForgotRequest, Open, Power
<1>8. CASE CommandRequest(p)
  BY <1>1, <1>8, AsksKeeps DEF CommandRequest, Open, Power
<1>9. CASE SetupRequest(p)
  BY <1>2, <1>9, AsksKeeps DEF SetupRequest, Open, Power
<1>10. CASE EnableRequest(p)
  BY <1>2, <1>10, AsksKeeps DEF EnableRequest, Open, Power
<1>11. CASE DisableRequest(p)
  BY <1>2, <1>11, AsksKeeps DEF DisableRequest, Open, Power
<1>12. CASE LogoutRequest(p)
  BY <1>2, <1>12, AsksKeeps DEF LogoutRequest, Open, Power
<1>13. CASE ChangePasswordRequest(p)
  BY <1>2, <1>13, AsksKeeps DEF ChangePasswordRequest, Open, Power
<1> QED BY <1>5, <1>6, <1>7, <1>8, <1>9, <1>10, <1>11, <1>12, <1>13 DEF PublicRequest, OwnRequest

-----------------------------------------------------------------------------
(* Requests go on without writing.                                          *)

\* Either the request is answered, or it goes on as the one it is.
SameRequest(c, d) ==
  d # Idle => DOMAIN d = DOMAIN c /\ d.op = c.op /\ d.by = c.by

LEMMA ContinueKeeps ==
  ASSUME Inv, NEW p \in Proc, NEW d, Continue(p, d), req[p] # Idle,
         d = Idle \/ (req[p].op \notin Power /\ SameRequest(req[p], d)),
         UNCHANGED <<now, named, chosen, ended>>, Admits
  PROVE  Inv'
<1>1. /\ Others(p, {}) /\ req'[p] = d
      /\ users' = users /\ stale' = stale /\ crossed' = crossed
  BY ContinueDoes DEF Inv
<1>2. Outside({})
  BY <1>1 DEF Outside, Later, Inv, RowInv
<1>3. Proper(req[p])'
  <2>1. CASE d = Idle
    BY <1>1, <2>1 DEF Proper
  <2>2. CASE req[p].op \notin Power /\ SameRequest(req[p], d)
    BY <1>1, <1>2, <2>2, OrdinaryGoesOn DEF GoesOn, SameRequest
  <2> QED BY <2>1, <2>2
<1> QED BY <1>1, <1>3, ReadKeeps

\* Every request that runs has its fields, whatever has been written.
LEMMA RequestHas ==
  ASSUME Inv, NEW p \in Proc, req[p] # Idle
  PROVE  /\ Person(req[p]) /\ Asker(req[p]) /\ Batch(req[p]) /\ Edit(req[p])
         /\ Fields \subseteq DOMAIN req[p] /\ There(req[p].by) /\ req[p].by \in User
BY DEF Inv, ReqInv, Proper, Person, There

LEMMA NothingAdmitted ==
  ASSUME sessions' = sessions, pending' = pending
  PROVE  Admits
BY DEF Admits

LEMMA EndsEarlyKeeps ==
  ASSUME Inv, NEW p \in Proc, EndsEarly(p)
  PROVE  Inv'
BY ContinueKeeps, NothingAdmitted DEF EndsEarly, clockVars, signVars, histVars

LEMMA CheckTargetKeeps ==
  ASSUME Inv, NEW p \in Proc, CheckTarget(p)
  PROVE  Inv'
<1> DEFINE c == req[p]
<1>1. /\ c # Idle /\ c.at = "check"
      /\ UNCHANGED <<now, named, sessions, pending, chosen, ended>>
  BY DEF CheckTarget, Idle, clockVars, signVars, histVars
<1>2. PICK t \in c.todo :
        IF ~MayTarget(c, t) THEN Continue(p, Idle)
        ELSE IF c.todo \ {t} = {} THEN Continue(p, Seen([c EXCEPT !.at = "write", !.todo = c.on], t))
        ELSE Continue(p, Seen([c EXCEPT !.todo = c.todo \ {t}], t))
  BY DEF CheckTarget
<1>3. Admits
  BY <1>1, NothingAdmitted
<1>4. Person(c) /\ Asker(c) /\ Batch(c) /\ Edit(c) /\ Fields \subseteq DOMAIN c
  BY <1>1, RequestHas
<1>5. CASE ~MayTarget(c, t)
  BY <1>1, <1>2, <1>3, <1>5, ContinueKeeps
<1>6. CASE MayTarget(c, t)
  <2> DEFINE d == IF c.todo \ {t} = {} THEN Seen([c EXCEPT !.at = "write", !.todo = c.on], t)
                                       ELSE Seen([c EXCEPT !.todo = c.todo \ {t}], t)
  <2>1. Continue(p, d)
    BY <1>2, <1>6
  <2>2. /\ DOMAIN d = DOMAIN c /\ d.op = c.op /\ d.by = c.by /\ d.on = c.on
        /\ d.outdated = c.outdated \ {t}
        /\ IF c.todo \ {t} = {} THEN d.at = "write" ELSE d.at = "check" /\ d.todo = c.todo \ {t}
    BY <1>1, <1>4 DEF Fields, Seen
  <2> HIDE DEF d
  <2>3. CASE c.op \notin Power
    BY <1>1, <1>3, <2>1, <2>2, <2>3, ContinueKeeps DEF SameRequest
  <2>4. CASE c.op \in Power
    <3>1. c.op \in {"delete", "disable"}
      BY <1>1, <1>4, <2>4 DEF Edit, Power
    <3>2. t # c.by /\ ~IsDefaultAdmin(t)
      BY <1>6, <3>1 DEF MayTarget, MayOperate
    <3>3. /\ Others(p, {}) /\ req'[p] = d
          /\ users' = users /\ stale' = stale /\ crossed' = crossed
      BY <2>1, ContinueDoes DEF Inv
    <3>4. Proper(req[p])'
      <4>1. Person(req[p])' /\ Asker(req[p])' /\ Edit(req[p])'
        BY <1>1, <1>4, <2>2, <3>1, <3>2, <3>3 DEF Person, There, Asker, Good, Live, Edit
      <4>2. Batch(req[p])'
        <5>1. Checked(d) \subseteq Checked(c) \cup {t}
          BY <1>1, <2>2 DEF Checked
        <5>2. t # Root \/ ~named
          BY <3>2 DEF IsDefaultAdmin
        <5> QED BY <1>1, <1>4, <2>2, <3>1, <3>2, <3>3, <5>1, <5>2 DEF Batch, Checked
      <4> QED BY <4>1, <4>2 DEF Proper
    <3> QED BY <1>1, <1>3, <3>3, <3>4, ReadKeeps
  <2> QED BY <2>3, <2>4
<1> QED BY <1>5, <1>6

LEMMA UpdateReadKeeps ==
  ASSUME Inv, NEW p \in Proc, UpdateRead(p)
  PROVE  Inv'
<1> DEFINE c == req[p]
<1>1. /\ c # Idle /\ c.op = "update" /\ c.at = "read"
      /\ UNCHANGED <<now, named, sessions, pending, chosen, ended>>
  BY DEF UpdateRead, At, Idle, clockVars, signVars, histVars
<1>2. PICK t \in c.on :
        Continue(p, IF MayUpdate(c, t)
                    THEN Seen([c EXCEPT !.read = users[t],
                                        !.at = IF Demotes(c, t) THEN "count" ELSE "write"], t)
                    ELSE Idle)
  BY DEF UpdateRead
<1>3. Admits
  BY <1>1, NothingAdmitted
<1>4. Person(c) /\ Asker(c) /\ Edit(c) /\ Fields \subseteq DOMAIN c
  BY <1>1, RequestHas
<1>5. CASE ~MayUpdate(c, t)
  BY <1>1, <1>2, <1>3, <1>5, ContinueKeeps
<1>6. CASE MayUpdate(c, t)
  <2> DEFINE d == Seen([c EXCEPT !.read = users[t],
                                 !.at = IF Demotes(c, t) THEN "count" ELSE "write"], t)
  <2>1. Continue(p, d)
    BY <1>2, <1>6
  <2>2. /\ DOMAIN d = DOMAIN c /\ d.op = c.op /\ d.by = c.by /\ d.on = c.on /\ d.arg = c.arg
        /\ d.outdated = c.outdated \ {t} /\ d.read = users[t] /\ d.at \in {"count", "write"}
    BY <1>1, <1>4 DEF Fields, Seen
  <2> HIDE DEF d
  <2>3. /\ Others(p, {}) /\ req'[p] = d
        /\ users' = users /\ stale' = stale /\ crossed' = crossed
    BY <2>1, ContinueDoes DEF Inv
  <2>4. t # c.by /\ (named /\ t = Root => c.arg.role # "user")
    BY <1>6 DEF MayUpdate, IsDefaultAdmin
  <2>5. c.on = {t}
    BY <1>1, <1>4 DEF Edit
  <2>6. Proper(req[p])'
    <3>1. Person(req[p])' /\ Asker(req[p])' /\ Batch(req[p])'
      BY <1>1, <1>4, <2>2, <2>3, <2>4 DEF Person, There, Asker, Good, Live, Batch
    <3>2. named /\ t = Root => NextRole(d) = "admin"
      BY <1>1, <1>4, <2>2, <2>4 DEF NextRole, Inv, PowerInv, Good, Edit
    <3>3. Edit(req[p])'
      BY <1>1, <1>4, <2>2, <2>3, <2>4, <2>5, <3>2 DEF Edit, NextRole
    <3> QED BY <3>1, <3>3 DEF Proper
  <2> QED BY <1>1, <1>3, <2>3, <2>6, ReadKeeps
<1> QED BY <1>5, <1>6

LEMMA UpdateCountKeeps ==
  ASSUME Inv, NEW p \in Proc, UpdateCount(p)
  PROVE  Inv'
<1> DEFINE c == req[p]
<1>1. /\ c # Idle /\ c.op = "update" /\ c.at = "count"
      /\ UNCHANGED <<now, named, sessions, pending, chosen, ended>>
      /\ Continue(p, Idle) \/ Continue(p, [c EXCEPT !.at = "write"])
  BY DEF UpdateCount, At, Idle, clockVars, signVars, histVars
<1>2. Admits
  BY <1>1, NothingAdmitted
<1>3. CASE Continue(p, Idle)
  BY <1>1, <1>2, <1>3, ContinueKeeps
<1>4. CASE Continue(p, [c EXCEPT !.at = "write"])
  <2> DEFINE d == [c EXCEPT !.at = "write"]
  <2>1. Person(c) /\ Asker(c) /\ Edit(c) /\ Fields \subseteq DOMAIN c
    BY <1>1, RequestHas
  <2>2. /\ DOMAIN d = DOMAIN c /\ d.op = c.op /\ d.by = c.by /\ d.on = c.on /\ d.arg = c.arg
        /\ d.outdated = c.outdated /\ d.read = c.read /\ d.at = "write"
    BY <2>1 DEF Fields
  <2>3. /\ Others(p, {}) /\ req'[p] = d
        /\ users' = users /\ stale' = stale /\ crossed' = crossed
    BY <1>4, ContinueDoes DEF Inv
  <2> HIDE DEF d
  <2>4. Person(req[p])' /\ Asker(req[p])' /\ Batch(req[p])'
    BY <1>1, <2>1, <2>2, <2>3 DEF Person, There, Asker, Good, Live, Batch
  <2>5. Edit(req[p])'
    BY <1>1, <2>1, <2>2, <2>3 DEF Edit, NextRole, Live
  <2>6. Proper(req[p])'
    BY <2>4, <2>5 DEF Proper
  <2> QED BY <1>1, <1>2, <2>3, <2>6, ReadKeeps
<1> QED BY <1>1, <1>3, <1>4

\* Steps that read, of the requests that take no power away.
LEMMA ForceReadKeeps ==
  ASSUME Inv, NEW p \in Proc, ForceRead(p)
  PROVE  Inv'
<1> DEFINE c == req[p]
<1>1. /\ c # Idle /\ c.op \in {"force2fa", "unforce2fa"}
      /\ UNCHANGED <<now, named, sessions, pending, chosen, ended>>
  BY DEF ForceRead, Idle, clockVars, signVars, histVars
<1>2. PICK t \in c.todo :
        Continue(p, IF Live(t)
                    THEN Seen([c EXCEPT !.arg = t, !.at = IF c.op = "force2fa" THEN "set" ELSE "off"], t)
                    ELSE Idle)
  BY DEF ForceRead
<1>3. SameRequest(c, Seen([c EXCEPT !.arg = t, !.at = IF c.op = "force2fa" THEN "set" ELSE "off"], t))
  BY <1>1, RequestHas DEF SameRequest, Seen, Fields
<1> QED BY <1>1, <1>2, <1>3, ContinueKeeps, NothingAdmitted DEF Power

LEMMA LoginKeeps ==
  ASSUME Inv, NEW p \in Proc, LoginRead(p) \/ LoginIssue(p)
  PROVE  Inv'
<1> DEFINE c == req[p]
<1>1. /\ c # Idle /\ c.op = "login"
      /\ UNCHANGED <<now, named, chosen, ended>>
  BY DEF LoginRead, LoginIssue, At, Idle, clockVars, histVars
<1>2. /\ Fields \subseteq DOMAIN c /\ There(c.by) /\ c.by \in User
  BY <1>1, RequestHas
<1>3. CASE LoginRead(p)
  <2>1. SameRequest(c, [c EXCEPT !.at = "issue"])
    BY <1>2 DEF SameRequest, Fields
  <2>2. Admits
    BY <1>2, <1>3 DEF LoginRead, Admits
  <2>3. Continue(p, Idle) \/ Continue(p, [c EXCEPT !.at = "issue"])
    BY <1>3 DEF LoginRead
  <2> QED BY <1>1, <2>1, <2>2, <2>3, ContinueKeeps DEF Power
<1>4. CASE LoginIssue(p)
  <2>1. Admits
    BY <1>2, <1>4 DEF LoginIssue, Issue, Admits
  <2> QED BY <1>1, <1>4, <2>1, ContinueKeeps DEF LoginIssue
<1> QED BY <1>3, <1>4

LEMMA VerifyReads ==
  ASSUME Inv, NEW p \in Proc, VerifyRead(p) \/ Consume(p) \/ VerifyIssue(p)
  PROVE  Inv'
<1> DEFINE c == req[p]
<1>1. /\ c # Idle /\ c.op = "verify"
      /\ UNCHANGED <<now, named, chosen, ended>>
  BY DEF VerifyRead, Consume, VerifyIssue, Quiet, At, Idle, clockVars, histVars
<1>2. /\ Fields \subseteq DOMAIN c /\ There(c.by) /\ c.by \in User
  BY <1>1, RequestHas
<1>3. CASE VerifyRead(p)
  <2>1. /\ SameRequest(c, Seen([c EXCEPT !.at = "advance"], c.by))
        /\ SameRequest(c, Seen([c EXCEPT !.at = "consume", !.read = users[c.by]], c.by))
    BY <1>2 DEF SameRequest, Seen, Fields
  <2>2. \/ Continue(p, Idle)
        \/ Continue(p, Seen([c EXCEPT !.at = "advance"], c.by))
        \/ Continue(p, Seen([c EXCEPT !.at = "consume", !.read = users[c.by]], c.by))
    BY <1>3 DEF VerifyRead
  <2> QED BY <1>1, <1>3, <2>1, <2>2, ContinueKeeps, NothingAdmitted DEF VerifyRead, Quiet, signVars, Power
<1>4. CASE Consume(p)
  <2> DEFINE d == [c EXCEPT !.at = "remove",
                            !.read.recovery = RemoveAt(users[c.by].recovery, IndexOf(c.read, c.arg))]
  <2>1. SameRequest(c, d)
    BY <1>2 DEF SameRequest, Fields
  <2>2. Continue(p, Idle) \/ Continue(p, d)
    BY <1>4 DEF Consume
  <2> QED BY <1>1, <1>4, <2>1, <2>2, ContinueKeeps, NothingAdmitted DEF Consume, Quiet, signVars, Power
<1>5. CASE VerifyIssue(p)
  <2>1. Admits
    BY <1>2, <1>5 DEF VerifyIssue, Issue, Admits
  <2> QED BY <1>1, <1>5, <2>1, ContinueKeeps DEF VerifyIssue
<1> QED BY <1>3, <1>4, <1>5

LEMMA ReadFactorKeeps ==
  ASSUME Inv, NEW p \in Proc, ReadFactor(p)
  PROVE  Inv'
<1> DEFINE c == req[p]
<1>1. /\ c # Idle /\ c.op \in {"setup", "enable2fa", "disable2fa"}
      /\ UNCHANGED <<now, named, sessions, pending, chosen, ended>>
  BY DEF ReadFactor, Quiet, Idle, clockVars, signVars, histVars
<1>2. \A place : SameRequest(c, Seen([c EXCEPT !.at = place], c.by))
  BY <1>1, RequestHas DEF SameRequest, Seen, Fields
<1>3. Continue(p, Idle) \/ \E place : Continue(p, Seen([c EXCEPT !.at = place], c.by))
  BY DEF ReadFactor
<1> QED BY <1>1, <1>2, <1>3, ContinueKeeps, NothingAdmitted DEF Power

LEMMA ReadPasswordKeeps ==
  ASSUME Inv, NEW p \in Proc, ReadPassword(p)
  PROVE  Inv'
<1> DEFINE c == req[p]
<1>1. /\ c # Idle /\ c.op \in {"cli", "changepw"}
      /\ UNCHANGED <<now, named, sessions, pending, chosen, ended>>
  BY DEF ReadPassword, Quiet, Idle, clockVars, signVars, histVars
<1>2. SameRequest(c, Seen([c EXCEPT !.at = "write"], c.by))
  BY <1>1, RequestHas DEF SameRequest, Seen, Fields
<1>3. Continue(p, Idle) \/ Continue(p, Seen([c EXCEPT !.at = "write"], c.by))
  BY DEF ReadPassword
<1> QED BY <1>1, <1>2, <1>3, ContinueKeeps, NothingAdmitted DEF Power

-----------------------------------------------------------------------------
(* Requests write.                                                          *)

\* A write of a request that takes no power away.
LEMMA WroteKeeps ==
  ASSUME Inv, NEW p \in Proc, NEW S, NEW F, NEW d,
         Writes(S, F), Later, Wrote(p, S, d), req[p] # Idle, req[p].op \notin Power,
         SameRequest(req[p], d), \A u \in User : Good(u) => Good(u)',
         UNCHANGED <<now, named, sessions, pending>>, Ends, Agrees
  PROVE  Inv'
<1>1. /\ Others(p, S) /\ req'[p] = d
      /\ stale' = stale \cup (S \cap req[p].outdated)
      /\ crossed' = (crossed \/ req[p].outdated # {})
  BY WroteDoes DEF Inv
<1>2. Outside(S)
  BY <1>1 DEF Outside, Writes
<1>3. Proper(req[p])'
  BY <1>1, <1>2, OrdinaryGoesOn DEF GoesOn, SameRequest
<1>4. PowerInv'
  BY <1>1, Harmless DEF Inv
<1> QED BY <1>1, <1>2, <1>3, <1>4, StepKeeps, NothingAdmitted

LEMMA GoodStays ==
  ASSUME NEW S, NEW F, Writes(S, F), F \cap {"state", "enabled", "role"} = {}
  PROVE  \A u \in User : Good(u) => Good(u)'
<1>1. \A u \in User : /\ users'[u].state = users[u].state
                      /\ users'[u].enabled = users[u].enabled
                      /\ users'[u].role = users[u].role
  BY DEF Writes, Columns
<1> QED BY <1>1 DEF Good, Live

LEMMA NobodyChooses ==
  ASSUME Inv, NEW S, NEW F, Writes(S, F), Later, "password" \notin F, chosen' = chosen
  PROVE  Agrees
<1> SUFFICES ASSUME NEW u \in User, users'[u].state = "live"
             PROVE  Live(u) /\ users'[u].password = users[u].password
  BY DEF Agrees
<1>1. users'[u].password = users[u].password
  BY DEF Writes, Columns
<1>2. Live(u)
  BY DEF Writes, Live
<1> QED BY <1>1, <1>2

LEMMA OneChooses ==
  ASSUME Inv, NEW t, NEW pw, NEW F, Writes({t}, F),
         t \in User /\ Live(t) => users'[t].password = pw, Choose({t}, pw)
  PROVE  Agrees
<1> SUFFICES ASSUME NEW u \in User, users'[u].state = "live"
             PROVE  \/ users'[u].password = chosen'[u]
                    \/ /\ Live(u) /\ users'[u].password = users[u].password
                       /\ chosen'[u] = chosen[u]
  BY DEF Agrees
<1>1. Live(u)
  BY DEF Writes, Live
<1>2. chosen'[u] = IF u \in {t} THEN pw ELSE chosen[u]
  BY DEF Choose
<1>3. CASE u = t
  BY <1>1, <1>2, <1>3
<1>4. CASE u # t
  BY <1>1, <1>2, <1>4 DEF Writes
<1> QED BY <1>3, <1>4

LEMMA NothingEnds ==
  ASSUME ended' = ended
  PROVE  Ends
BY DEF Ends

LEMMA OlderEnd ==
  ASSUME Inv, NEW t, NEW F, Writes({t}, F), t \in User /\ Live(t) => users'[t].revoked = now,
         ended' = ended \cup Older({t})
  PROVE  Ends
<1> SUFFICES ASSUME NEW s \in Older({t})
             PROVE  /\ s \in sessions /\ s.iat < now
                    /\ users'[s.user].state = "live" => users'[s.user].revoked = now
  BY DEF Ends
<1>1. s \in sessions /\ s.user = t /\ s.iat < now /\ t \in User
  BY DEF Older, Inv, KnownInv, There
<1>2. users'[t].state = "live" => Live(t)
  BY <1>1 DEF Writes, Live
<1> QED BY <1>1, <1>2

\* The statements of two-factor authentication.
LEMMA FactorKeeps ==
  ASSUME Inv, NEW p \in Proc, NEW t, NEW d, Wrote(p, {t}, d),
         \/ \E key : SetTOTP(t, key)
         \/ EnableTOTP(t) \/ DisableTOTP(t)
         \/ \E n : SetTOTPLastCounter(t, n)
         \/ \E codes : SetTOTPRecoveryCodes(t, codes),
         req[p] # Idle, req[p].op \notin Power, SameRequest(req[p], d),
         UNCHANGED <<now, named, sessions, pending, chosen, ended>>
  PROVE  Inv'
<1>1. Writes({t}, Factor) /\ Later
  BY FactorDoes DEF Inv
<1>2. \A u \in User : Good(u) => Good(u)'
  BY <1>1, GoodStays DEF Factor
<1>3. Agrees
  BY <1>1, NobodyChooses DEF Factor
<1>4. Ends
  BY NothingEnds
<1> QED BY <1>1, <1>2, <1>3, <1>4, WroteKeeps

LEMMA ForceWriteKeeps ==
  ASSUME Inv, NEW p \in Proc, ForceWrite(p)
  PROVE  Inv'
<1> DEFINE c == req[p]
           t == req[p].arg
<1>1. /\ c # Idle /\ c.op \in {"force2fa", "unforce2fa"}
      /\ UNCHANGED <<now, named, sessions, pending, chosen, ended>>
  BY DEF ForceWrite, At, Idle, clockVars, signVars, histVars
<1>2. SameRequest(c, [c EXCEPT !.at = "on"]) /\ SameRequest(c, Rest(c, t, "write"))
  BY <1>1, RequestHas DEF SameRequest, Rest, Fields
<1>3. /\ SetTOTP(t, c.id) \/ EnableTOTP(t) \/ DisableTOTP(t)
      /\ Wrote(p, {t}, [c EXCEPT !.at = "on"]) \/ Wrote(p, {t}, Rest(c, t, "write"))
  BY DEF ForceWrite
<1> QED BY <1>1, <1>2, <1>3, FactorKeeps DEF Power

LEMMA UserFactorKeeps ==
  ASSUME Inv, NEW p \in Proc,
         VerifyAdvance(p) \/ ConsumeWrite(p) \/ WriteFactor(p) \/ ClearFactor(p)
  PROVE  Inv'
<1> DEFINE c == req[p]
<1>1. /\ c # Idle /\ c.op \in {"verify", "setup", "enable2fa", "disable2fa", "cli"}
      /\ UNCHANGED <<now, named, sessions, pending, chosen, ended>>
  BY DEF VerifyAdvance, ConsumeWrite, WriteFactor, ClearFactor, Quiet, At, Idle,
         clockVars, signVars, histVars
<1>2. SameRequest(c, [c EXCEPT !.at = "issue"]) /\ SameRequest(c, Idle)
  BY <1>1, RequestHas DEF SameRequest, Fields
<1>3. CASE VerifyAdvance(p)
  BY <1>1, <1>2, <1>3, FactorKeeps DEF VerifyAdvance, Power
<1>4. CASE ConsumeWrite(p)
  BY <1>1, <1>2, <1>4, FactorKeeps DEF ConsumeWrite, Power
<1>5. CASE WriteFactor(p)
  BY <1>1, <1>2, <1>5, FactorKeeps DEF WriteFactor, Power
<1>6. CASE ClearFactor(p)
  BY <1>1, <1>2, <1>6, FactorKeeps DEF ClearFactor, Power
<1> QED BY <1>3, <1>4, <1>5, <1>6

\* A new password, which ends the older sessions.
LEMMA PasswordKeeps ==
  ASSUME Inv, NEW p \in Proc, NEW t, NEW pw, NEW d, Wrote(p, {t}, d),
         UpdatePassword(t, pw) \/ ResetPasswordByToken(t, pw),
         Choose({t}, pw), ended' = ended \cup Older({t}),
         req[p] # Idle, req[p].op \notin Power, SameRequest(req[p], d),
         UNCHANGED <<now, named, sessions, pending>>
  PROVE  Inv'
<1>1. PICK F : /\ Writes({t}, F) /\ Later /\ F \cap {"state", "enabled", "role"} = {}
               /\ t \in User /\ Live(t) => users'[t].password = pw /\ users'[t].revoked = now
  <2>1. CASE UpdatePassword(t, pw)
    BY <2>1, UpdatePasswordDoes DEF Inv
  <2>2. CASE ResetPasswordByToken(t, pw)
    BY <2>2, ResetByTokenDoes DEF Inv
  <2> QED BY <2>1, <2>2
<1>2. \A u \in User : Good(u) => Good(u)'
  BY <1>1, GoodStays
<1>3. Agrees
  BY <1>1, OneChooses
<1>4. Ends
  BY <1>1, OlderEnd
<1> QED BY <1>1, <1>2, <1>3, <1>4, WroteKeeps

LEMMA ResetPasswordKeeps ==
  ASSUME Inv, NEW p \in Proc, ResetPassword(p)
  PROVE  Inv'
<1> DEFINE c == req[p]
<1>1. /\ c # Idle /\ c.op = "resetpw"
      /\ UNCHANGED <<now, named, sessions, pending>>
  BY DEF ResetPassword, At, Idle, clockVars, signVars
<1>2. PICK t \in c.todo : /\ UpdatePassword(t, c.id) /\ Choose({t}, c.id)
                          /\ ended' = ended \cup Older({t})
                          /\ Wrote(p, {t}, Rest(c, t, "write"))
  BY DEF ResetPassword
<1>3. SameRequest(c, Rest(c, t, "write"))
  BY <1>1, RequestHas DEF SameRequest, Rest, Fields
<1> QED BY <1>1, <1>2, <1>3, PasswordKeeps DEF Power

LEMMA WritePasswordKeeps ==
  ASSUME Inv, NEW p \in Proc, WritePassword(p) \/ Forgot(p)
  PROVE  Inv'
<1> DEFINE c == req[p]
<1>1. /\ c # Idle /\ c.op \in {"changepw", "cli", "forgot"}
      /\ UNCHANGED <<now, named, sessions, pending>>
  BY DEF WritePassword, Forgot, At, Idle, clockVars, signVars
<1>2. SameRequest(c, [c EXCEPT !.at = "off"]) /\ SameRequest(c, Idle)
  BY <1>1, RequestHas DEF SameRequest, Fields
<1>3. CASE WritePassword(p)
  BY <1>1, <1>2, <1>3, PasswordKeeps DEF WritePassword, Power
<1>4. CASE Forgot(p) /\ TokenMatches(c.by, c.arg)
  BY <1>1, <1>2, <1>4, PasswordKeeps DEF Forgot, Power
<1>5. CASE Forgot(p) /\ ~TokenMatches(c.by, c.arg)
  BY <1>1, <1>5, ContinueKeeps, NothingAdmitted DEF Forgot
<1> QED BY <1>3, <1>4, <1>5

LEMMA LogoutKeeps ==
  ASSUME Inv, NEW p \in Proc, Logout(p)
  PROVE  Inv'
<1> DEFINE t == req[p].by
<1>1. /\ req[p] # Idle /\ req[p].op \notin Power /\ SameRequest(req[p], Idle)
      /\ UNCHANGED <<now, named, sessions, pending, chosen>>
      /\ Wrote(p, {t}, Idle) /\ ended' = ended \cup Older({t})
  BY DEF Logout, At, Idle, clockVars, signVars, Power, SameRequest
<1>2. /\ Writes({t}, {"revoked"}) /\ Later
      /\ t \in User /\ Live(t) => users'[t].revoked = now
  BY RevokeDoes DEF Logout, Inv
<1>3. \A u \in User : Good(u) => Good(u)'
  BY <1>2, GoodStays
<1>4. Agrees
  BY <1>1, <1>2, NobodyChooses
<1>5. Ends
  BY <1>1, <1>2, OlderEnd
<1> QED BY <1>1, <1>2, <1>3, <1>4, <1>5, WroteKeeps

LEMMA WriteTokenKeeps ==
  ASSUME Inv, NEW p \in Proc, WriteToken(p)
  PROVE  Inv'
<1>1. /\ req[p] # Idle /\ req[p].op \notin Power /\ SameRequest(req[p], Idle)
      /\ UNCHANGED <<now, named, sessions, pending, chosen, ended>>
      /\ Wrote(p, req[p].on, Idle)
  BY DEF WriteToken, At, Idle, clockVars, signVars, histVars, Power, SameRequest
<1>2. PICK t \in req[p].on : SetResetToken(t, req[p].id)
  BY DEF WriteToken
<1>3. Writes({t}, {"token"}) /\ Later
  BY <1>2, SetTokenDoes DEF Inv
<1>4. Writes(req[p].on, {"token"})
  BY <1>2, <1>3 DEF Writes
<1>5. \A u \in User : Good(u) => Good(u)'
  BY <1>3, GoodStays
<1>6. Agrees
  BY <1>1, <1>3, NobodyChooses
<1>7. Ends
  BY <1>1, NothingEnds
<1> QED BY <1>1, <1>3, <1>4, <1>5, <1>6, <1>7, WroteKeeps

\* A new account: the one row that is not there yet.
LEMMA InsertKeeps ==
  ASSUME Inv, NEW p \in Proc, Insert(p)
  PROVE  Inv'
<1> DEFINE c == req[p]
<1>1. /\ c # Idle /\ c.op = "create"
      /\ UNCHANGED <<now, named, sessions, pending, ended>>
  BY DEF Insert, At, Idle, clockVars, signVars
<1>2. PICK u \in c.on :
        IF users[u].state # "none" THEN Continue(p, Idle) /\ UNCHANGED chosen
        ELSE /\ users' = [users EXCEPT ![u] = [NoUser EXCEPT !.state = "live", !.role = c.arg,
                                                             !.password = c.id]]
             /\ Choose({u}, c.id) /\ Wrote(p, {u}, Idle)
  BY DEF Insert
<1>3. CASE users[u].state # "none"
  BY <1>1, <1>2, <1>3, ContinueKeeps, NothingAdmitted
<1>4. CASE users[u].state = "none"
  <2>1. /\ Others(p, {u}) /\ req'[p] = Idle
        /\ stale' = stale \cup ({u} \cap c.outdated)
        /\ crossed' = (crossed \/ c.outdated # {})
    BY <1>2, <1>4, WroteDoes DEF Inv
  <2>2. /\ users' = [t \in User |-> users'[t]]
        /\ \A t \in User \ {u} : users'[t] = users[t]
        /\ u \in User => /\ Columns \subseteq DOMAIN users'[u]
                         /\ users'[u].state = "live" /\ users'[u].revoked = 0
                         /\ users'[u].password = c.id
    <3> DEFINE r == [NoUser EXCEPT !.state = "live", !.role = c.arg, !.password = c.id]
    <3>1. /\ Columns \subseteq DOMAIN r /\ r.state = "live"
          /\ r.revoked = 0 /\ r.password = c.id
      BY DEF NoUser, Columns
    <3>2. users' = [users EXCEPT ![u] = r]
      BY <1>2, <1>4
    <3> HIDE DEF r
    <3> QED BY <3>1, <3>2 DEF Inv, RowInv
  <2>3. Later
    <3> SUFFICES ASSUME NEW t \in User
                 PROVE  /\ Columns \subseteq DOMAIN users'[t]
                        /\ users'[t].state \in {"none", "live", "deleted"}
                        /\ users'[t].revoked \in 0 .. now
                        /\ users'[t].state = "none" => users'[t] = users[t]
                        /\ users[t].state = "deleted" => users'[t].state = "deleted"
                        /\ users[t].state = "live" => /\ users'[t].state # "none"
                                                      /\ users'[t].revoked \in {users[t].revoked, now}
      BY <2>2 DEF Later
    <3>1. CASE t = u
      BY <1>4, <2>2, <3>1 DEF Inv, RowInv
    <3>2. CASE t # u
      BY <2>2, <3>2 DEF Inv, RowInv
    <3> QED BY <3>1, <3>2
  <2>4. Outside({u})
    BY <1>1, <2>1, <2>2, <2>3 DEF Outside
  <2>5. Agrees
    BY <1>2, <1>4, <2>1, <2>2 DEF Agrees, Choose, Live
  <2>6. Ends
    BY <1>1, NothingEnds
  <2>7. \A t \in User : Good(t) => Good(t)'
    BY <1>4, <2>2 DEF Good, Live
  <2>8. PowerInv'
    BY <1>1, <2>1, <2>7, Harmless DEF Inv
  <2>9. Proper(req[p])'
    BY <2>1 DEF Proper
  <2> QED BY <1>1, <2>1, <2>4, <2>5, <2>6, <2>8, <2>9, StepKeeps, NothingAdmitted
<1> QED BY <1>3, <1>4

-----------------------------------------------------------------------------
(* Requests take a power away.                                              *)

LEMMA WriteBatchKeeps ==
  ASSUME Inv, NEW p \in Proc, WriteBatch(p)
  PROVE  Inv'
<1> DEFINE c == req[p]
<1>1. /\ c # Idle /\ c.at = "write" /\ c.op \in {"delete", "disable", "enable"}
      /\ UNCHANGED <<now, named, sessions, pending, chosen, ended>>
      /\ Wrote(p, c.on, Idle)
  <2>1. /\ c.at = "write" /\ c.op \in {"delete", "disable", "enable"}
        /\ Wrote(p, c.on, Idle)
    BY DEF WriteBatch, At
  <2>2. UNCHANGED <<now, named, sessions, pending, chosen, ended>>
    BY DEF WriteBatch, clockVars, signVars, histVars
  <2>3. c # Idle
    BY <2>1 DEF Idle
  <2> QED BY <2>1, <2>2, <2>3
<1>2. PICK F : Writes(c.on, F) /\ Later /\ "password" \notin F
  <2>1. CASE Delete(c.on)
    BY <2>1, DeleteDoes DEF Inv
  <2>2. CASE \E on : SetEnabled(c.on, on)
    BY <2>2, SetEnabledDoes DEF Inv
  <2> QED BY <2>1, <2>2 DEF WriteBatch
<1>3. Agrees
  BY <1>1, <1>2, NobodyChooses
<1>4. Ends
  BY <1>1, NothingEnds
<1>5. CASE c.op = "enable"
  <2>1. SetEnabled(c.on, TRUE)
    BY <1>5 DEF WriteBatch, At
  <2>2. /\ Writes(c.on, {"enabled"})
        /\ \A u \in c.on \cap User : Live(u) => users'[u].enabled = TRUE
    BY <2>1, SetEnabledDoes DEF Inv
  <2>3. ASSUME NEW u \in User, Good(u) PROVE Good(u)'
    <3>1. users'[u].state = "live" /\ users'[u].role = "admin"
      BY <2>2, <2>3 DEF Good, Live, Writes, Columns
    <3>2. users'[u].enabled
      <4>1. CASE u \in c.on
        BY <2>2, <2>3, <4>1 DEF Good
      <4>2. CASE u \notin c.on
        BY <2>2, <2>3, <4>2 DEF Good, Writes
      <4> QED BY <4>1, <4>2
    <3> QED BY <3>1, <3>2 DEF Good, Live
  <2>4. SameRequest(c, Idle)
    BY DEF SameRequest
  <2> QED BY <1>1, <1>2, <1>3, <1>4, <1>5, <2>3, <2>4, WroteKeeps DEF Power
<1>6. CASE c.op \in {"delete", "disable"}
  <2>1. /\ c.by \in User /\ c.by \notin c.on
        /\ named => Root \notin c.on
        /\ c.by \notin c.outdated => Good(c.by)
    BY <1>1, <1>6, RequestHas DEF Batch, Checked, Asker, Power
  <2>2. /\ Others(p, c.on) /\ req'[p] = Idle
        /\ stale' = stale \cup (c.on \cap c.outdated)
        /\ crossed' = (crossed \/ c.outdated # {})
    BY <1>1, WroteDoes DEF Inv
  <2>3. Outside(c.on)
    BY <1>1, <1>2, <2>2 DEF Outside, Writes
  <2>4. \A u \in User \ c.on : Good(u) => Good(u)'
    BY <2>3 DEF Outside, Good, Live
  <2>5. PowerInv'
    BY <1>1, <2>1, <2>2, <2>4, TableAssumption DEF Inv, PowerInv
  <2>6. Proper(req[p])'
    BY <2>2 DEF Proper
  <2> QED BY <1>1, <1>3, <1>4, <2>2, <2>3, <2>5, <2>6, StepKeeps, NothingAdmitted
<1> QED BY <1>1, <1>5, <1>6

LEMMA UpdateWriteKeeps ==
  ASSUME Inv, NEW p \in Proc, UpdateWrite(p)
  PROVE  Inv'
<1> DEFINE c == req[p]
<1>1. /\ c # Idle /\ c.op = "update" /\ c.at = "write"
      /\ UNCHANGED <<now, named, sessions, pending, ended>>
      /\ Wrote(p, c.on, Idle)
      /\ IF SetsPassword(c) THEN Choose(c.on, c.id) ELSE chosen' = chosen
  BY DEF UpdateWrite, At, Idle, clockVars, signVars
<1>2. PICK t \in c.on : Update(t, c.read, NextRole(c), NextHash(c))
  BY DEF UpdateWrite
<1>3. /\ Person(c) /\ Asker(c) /\ Edit(c) /\ c.by \in User
  BY <1>1, RequestHas
<1>4. /\ c.on = {t} /\ c.by # t /\ (named /\ Root = t => NextRole(c) = "admin")
      /\ t \in User /\ Live(t) /\ t \notin c.outdated => users[t].password = c.read.password
  BY <1>1, <1>3 DEF Edit
<1>5. /\ Writes({t}, {"role", "password", "revoked"}) /\ Later
      /\ t \in User /\ Live(t) => users'[t].password = NextHash(c) /\ users'[t].role = NextRole(c)
  BY <1>2, UpdateDoes DEF Inv
<1>6. /\ Others(p, {t}) /\ req'[p] = Idle
      /\ stale' = stale \cup ({t} \cap c.outdated)
      /\ crossed' = (crossed \/ c.outdated # {})
  BY <1>1, <1>4, WroteDoes DEF Inv
<1>7. Outside({t})
  BY <1>1, <1>5, <1>6 DEF Outside, Writes
<1>8. Ends
  BY <1>1, NothingEnds
<1>9. Agrees
  <2>1. CASE SetsPassword(c)
    BY <1>1, <1>4, <1>5, <2>1, OneChooses DEF NextHash
  <2>2. CASE ~SetsPassword(c)
    <3> SUFFICES ASSUME NEW u \in User, users'[u].state = "live", u \notin stale'
                 PROVE  Live(u) /\ users'[u].password = users[u].password /\ chosen'[u] = chosen[u]
      BY DEF Agrees
    <3>1. Live(u) /\ chosen'[u] = chosen[u]
      BY <1>1, <1>5, <2>2 DEF Writes, Live
    <3>2. users'[u].password = users[u].password
      <4>1. CASE u = t
        BY <1>4, <1>5, <1>6, <2>2, <3>1, <4>1 DEF NextHash
      <4>2. CASE u # t
        BY <1>7, <4>2 DEF Outside
      <4> QED BY <4>1, <4>2
    <3> QED BY <3>1, <3>2
  <2> QED BY <2>1, <2>2
<1>10. PowerInv'
  <2>1. \A u \in User \ {t} : Good(u) => Good(u)'
    BY <1>7 DEF Outside, Good, Live
  <2>2. ASSUME named' PROVE Good(Root)'
    <3>1. named /\ Good(Root) /\ Root \in User
      BY <1>1, <2>2, TableAssumption DEF Inv, PowerInv
    <3>2. CASE Root = t
      <4>1. users'[t].role = "admin"
        BY <1>4, <1>5, <3>1, <3>2 DEF Good
      <4>2. users'[t].state = users[t].state /\ users'[t].enabled = users[t].enabled
        BY <1>5, <3>1, <3>2 DEF Writes, Columns
      <4> QED BY <3>1, <3>2, <4>1, <4>2 DEF Good, Live
    <3>3. CASE Root # t
      BY <2>1, <3>1, <3>3
    <3> QED BY <3>2, <3>3
  <2>3. ASSUME ~crossed' PROVE \E u \in User : Good(u)'
    BY <1>3, <1>4, <1>6, <1>1, <2>1, <2>3 DEF Asker, Power
  <2> QED BY <2>2, <2>3 DEF PowerInv
<1>11. Proper(req[p])'
  BY <1>6 DEF Proper
<1> QED BY <1>1, <1>6, <1>7, <1>8, <1>9, <1>10, <1>11, StepKeeps, NothingAdmitted

-----------------------------------------------------------------------------
(* The theorems                                                             *)

LEMMA InvAtInit ==
  ASSUME Init
  PROVE  Inv
<1>1. \A u \in User : /\ Columns \subseteq DOMAIN users[u]
                      /\ users[u].state = (IF u \in Absent THEN "none" ELSE "live")
                      /\ users[u].revoked = 0 /\ users[u].token = 0
                      /\ u \notin Absent => users[u].password = 1
  BY DEF Init, Account, NoUser, Columns
<1>2. \A u \in Admins : Good(u) /\ u \in User
  BY TableAssumption DEF Init, Account, NoUser, Good, Live
<1>3. RowInv
  BY <1>1 DEF Init, RowInv
<1>4. KnownInv
  BY <1>1, TableAssumption DEF Init, KnownInv, There
<1>5. EndedInv
  BY DEF Init, EndedInv
<1>6. ReqInv
  BY DEF Init, ReqInv, Proper
<1>7. PowerInv
  BY <1>2, TableAssumption DEF PowerInv
<1>8. LastChoiceHolds
  BY <1>1 DEF Init, LastChoiceHolds, Live
<1> QED BY <1>3, <1>4, <1>5, <1>6, <1>7, <1>8 DEF Inv

LEMMA TickKeeps ==
  ASSUME Inv, Tick
  PROVE  Inv'
<1>1. /\ now' = now + 1 /\ now \in Nat
      /\ UNCHANGED <<named, users, sessions, pending, req, chosen, ended, stale, crossed>>
  BY DEF Tick, signVars, histVars, Inv, RowInv
<1>2. RowInv'
  BY <1>1 DEF Inv, RowInv
<1>3. KnownInv' /\ EndedInv'
  BY <1>1 DEF Inv, KnownInv, EndedInv, There
<1>4. ReqInv'
  BY <1>1 DEF Inv, ReqInv, Proper, Person, Asker, Batch, Edit, Checked, NextRole, There, Good, Live
<1>5. PowerInv' /\ LastChoiceHolds'
  BY <1>1 DEF Inv, PowerInv, LastChoiceHolds, Good, Live
<1> QED BY <1>2, <1>3, <1>4, <1>5 DEF Inv

LEMMA NextKeeps ==
  ASSUME Inv, [Next]_vars
  PROVE  Inv'
<1>1. CASE Tick
  BY <1>1, TickKeeps
<1>2. ASSUME NEW p \in Proc, AdminRequest(p)
      PROVE  Inv'
  BY <1>2, AdminRequestKeeps
<1>3. ASSUME NEW p \in Proc, AdminStep(p)
      PROVE  Inv'
  BY <1>3, CheckTargetKeeps, WriteBatchKeeps, ResetPasswordKeeps, ForceReadKeeps, ForceWriteKeeps,
     WriteTokenKeeps, InsertKeeps, UpdateReadKeeps, UpdateCountKeeps, UpdateWriteKeeps DEF AdminStep
<1>4. ASSUME NEW p \in Proc, PublicRequest(p) \/ OwnRequest(p)
      PROVE  Inv'
  BY <1>4, UserRequestKeeps
<1>5. ASSUME NEW p \in Proc, SelfStep(p)
      PROVE  Inv'
  BY <1>5, LoginKeeps, VerifyReads, UserFactorKeeps, ReadFactorKeeps, ReadPasswordKeeps,
     WritePasswordKeeps, LogoutKeeps DEF SelfStep
<1>6. ASSUME NEW p \in Proc, EndsEarly(p)
      PROVE  Inv'
  BY <1>6, EndsEarlyKeeps
<1>7. CASE UNCHANGED vars
  <2>1. UNCHANGED <<now, named, users, sessions, pending, req, chosen, ended, stale, crossed>>
    BY <1>7 DEF vars, clockVars, signVars, histVars
  <2>2. RowInv' /\ KnownInv' /\ EndedInv' /\ PowerInv' /\ LastChoiceHolds'
    BY <2>1 DEF Inv, RowInv, KnownInv, EndedInv, There, PowerInv, LastChoiceHolds, Good, Live
  <2>3. ReqInv'
    BY <2>1 DEF Inv, ReqInv, Proper, Person, Asker, Batch, Edit, Checked, NextRole, There, Good, Live
  <2> QED BY <2>2, <2>3 DEF Inv
<1> QED BY <1>1, <1>2, <1>3, <1>4, <1>5, <1>6, <1>7 DEF Next

\* The inductive invariant: what is known of rows, of the holders of tokens and
\* of running requests, with the three properties it is for.
THEOREM InvHolds == Spec => []Inv
<1>1. Init => Inv
  BY InvAtInit
<1>2. Inv /\ [Next]_vars => Inv'
  BY NextKeeps
<1> QED BY <1>1, <1>2, PTL DEF Spec

\* A session that a logout or a change of password has ended is never accepted
\* again, whatever is written from however old a reading: no statement moves
\* the time of revocation back, and no deleted row comes back.
THEOREM EndedSessionsStayEnded == Spec => []EndedStaysEnded
<1>1. Inv => EndedStaysEnded
  <2> SUFFICES ASSUME Inv, NEW s \in ended PROVE ~Accepted(s)
    BY DEF EndedStaysEnded
  <2>1. /\ s.iat \in Nat /\ s.user \in User
        /\ users[s.user].state = "live" => s.iat < users[s.user].revoked
    BY DEF Inv, EndedInv, There
  <2>2. users[s.user].revoked \in Nat
    BY <2>1 DEF Inv, RowInv
  <2> QED BY <2>1, <2>2 DEF Accepted, Live
<1> QED BY <1>1, InvHolds, PTL

\* The built-in administrator is never demoted, disabled or deleted; under
\* another name, an administrator remains as long as no two requests overlap in
\* what they write: who takes a power away is an administrator and keeps theirs.
THEOREM AnAdminRemains == Spec => []AdminRemains
<1>1. Inv => AdminRemains
  BY TableAssumption DEF Inv, PowerInv, AdminRemains, Good
<1> QED BY <1>1, InvHolds, PTL

\* The password last chosen stands, unless the row was written from a reading
\* older than another's write: Update writes back the hash it has read.
THEOREM TheLastChoiceHolds == Spec => []LastChoiceHolds
<1>1. Inv => LastChoiceHolds
  BY DEF Inv
<1> QED BY <1>1, InvHolds, PTL

-----------------------------------------------------------------------------
(* One code, one login.  CodeInv: a code that was used is gone from the row *)
(* (UsedInv), what a second step has read is so still unless the row was    *)
(* written since (LoginInv), and no secret is ever set twice (FreshInv).     *)

Verifying(c) == c # Idle /\ c.op = "verify"
Issuing(c)   == Verifying(c) /\ c.at = "issue"

Code(c) == <<c.by, c.arg.kind, c.arg.key, c.arg.n>>

\* A code that has completed a login, or with which one is about to be.
Used(u, kind, key, n) ==
  \/ <<u, kind, key, n>> \in spent
  \/ \E p \in Proc : Issuing(req[p]) /\ Code(req[p]) = <<u, kind, key, n>>

\* The row of the user will not match this code again.
Gone(u, kind, key, n) ==
  key = users[u].secret =>
    IF kind = "totp" THEN n <= users[u].counter
    ELSE \A i \in DOMAIN users[u].recovery : users[u].recovery[i] # n

\* A code that was used is gone from the row, and no login that is about to be
\* completed has another's code - unless an old reading was written back.
UsedInv ==
  /\ \A u \in User : \A kind, key, n :
       Used(u, kind, key, n) => key # 0 /\ n \in Nat /\ (u \notin stale => Gone(u, kind, key, n))
  /\ \A p \in Proc : Issuing(req[p]) /\ req[p].by \notin stale =>
       /\ Code(req[p]) \notin spent
       /\ \A q \in Proc \ {p} : Issuing(req[q]) => Code(req[q]) # Code(req[p])

\* What a second step of a login has read is so still, unless the row was
\* written since: the code is good, and will be taken from the row.
Matching(c) ==
  LET r == users[c.by] IN
  /\ Live(c.by) /\ c.arg.key = r.secret
  /\ c.at = "advance" => c.arg.kind = "totp" /\ r.counter < c.arg.n
  /\ c.at = "consume" => /\ c.arg.kind = "recovery"
                         /\ IndexOf(c.read, c.arg) \in DOMAIN r.recovery
                         /\ r.recovery[IndexOf(c.read, c.arg)] = c.arg.n
  /\ c.at = "remove" => /\ c.arg.kind = "recovery"
                        /\ \E i \in DOMAIN r.recovery :
                             r.recovery[i] = c.arg.n /\ c.read.recovery = RemoveAt(r.recovery, i)

List(s) == s \in Seq(Nat) /\ IsInjective(s)

Login(c) ==
  /\ c.at \in {"read", "advance", "consume", "remove", "issue"}
  /\ c.arg.kind \in {"totp", "recovery"} /\ c.arg.key # 0 /\ c.arg.n \in Nat \ {0}
  /\ c.at = "consume" => IndexOf(c.read, c.arg) \in Nat \ {0} /\ "recovery" \in DOMAIN c.read
  /\ c.at = "remove" => List(c.read.recovery)
  /\ c.at \in {"advance", "consume", "remove"} /\ c.by \notin c.outdated => Matching(c)

LoginInv == \A p \in Proc : Verifying(req[p]) => Login(req[p])

FactorInv == \A u \in User : users[u].counter \in Nat /\ List(users[u].recovery)

\* The accounts for which a request may still set a new secret.
Setting(c, u) ==
  /\ c # Idle
  /\ \/ c.op = "setup" /\ c.at \in {"read", "set"} /\ u = c.by
     \/ c.op = "force2fa" /\ IF c.at = "check" THEN u \in c.on
                             ELSE u \in c.todo /\ ~(c.at = "on" /\ u = c.arg)

\* The secrets that codes of the user may belong to.
HasKey(u, key) ==
  \/ users[u].secret = key
  \/ \E kind, n : <<u, kind, key, n>> \in spent
  \/ \E p \in Proc : Verifying(req[p]) /\ req[p].by = u /\ req[p].arg.key = key

\* A new secret differs from all before it.
FreshInv ==
  /\ made \in 0 .. MaxRequests /\ menu \in Menus
  /\ \A p \in Proc : req[p] # Idle => req[p].id \in 1 .. made
  /\ \A p \in Proc, q \in Proc : p # q /\ req[p] # Idle /\ req[q] # Idle => req[p].id # req[q].id
  /\ \A u \in User : \A key : HasKey(u, key) => key \in 0 .. made \/ key = FirstKey
  /\ \A p \in Proc : \A u \in User : Setting(req[p], u) => ~HasKey(u, req[p].id)
  /\ \A p \in Proc : req[p] # Idle /\ req[p].op = "force2fa" /\ req[p].at = "set"
                       => req[p].arg \in req[p].todo

CodeInv == FactorInv /\ UsedInv /\ LoginInv /\ FreshInv /\ OneLoginPerCode /\ now \in Nat \ {0, 1}

-----------------------------------------------------------------------------

LEMMA RemoveAtDoes ==
  ASSUME NEW s, List(s), NEW i \in DOMAIN s
  PROVE  /\ List(RemoveAt(s, i))
         /\ \A j \in DOMAIN RemoveAt(s, i) : \E k \in DOMAIN s : k # i /\ RemoveAt(s, i)[j] = s[k]
<1> DEFINE t == RemoveAt(s, i)
           at(j) == IF j < i THEN j ELSE j + 1
<1>1. s \in Seq(Nat) /\ Len(s) \in Nat /\ DOMAIN s = 1 .. Len(s) /\ i \in 1 .. Len(s)
  BY DEF List
<1>2. /\ t \in Seq(Nat) /\ Len(t) = Len(s) - 1
      /\ \A j \in 1 .. Len(s) - 1 : t[j] = s[at(j)]
  <2> DEFINE a == SubSeq(s, 1, i - 1)
             b == SubSeq(s, i + 1, Len(s))
  <2>1. /\ a \in Seq(Nat) /\ Len(a) = i - 1
        /\ \A j \in 1 .. i - 1 : a[j] = s[j]
    <3>1. \A j \in 1 .. i - 1 : s[j] \in Nat
      BY <1>1, ElementOfSeq
    <3>2. /\ a \in Seq(Nat) /\ Len(a) = IF 1 <= i - 1 THEN i - 1 - 1 + 1 ELSE 0
          /\ \A j \in 1 .. i - 1 - 1 + 1 : a[j] = s[1 + j - 1]
      BY <1>1, <3>1, SubSeqProperties
    <3> QED BY <1>1, <3>2
  <2>2. /\ b \in Seq(Nat) /\ Len(b) = Len(s) - i
        /\ \A j \in 1 .. Len(s) - i : b[j] = s[j + i]
    <3> DEFINE m == i + 1
               n == Len(s)
    <3>1. m \in Int /\ n \in Int /\ \A j \in m .. n : s[j] \in Nat
      BY <1>1, ElementOfSeq
    <3> HIDE DEF m, n
    <3>2. /\ SubSeq(s, m, n) \in Seq(Nat)
          /\ Len(SubSeq(s, m, n)) = IF m <= n THEN n - m + 1 ELSE 0
          /\ \A j \in 1 .. n - m + 1 : SubSeq(s, m, n)[j] = s[m + j - 1]
      BY <3>1, SubSeqProperties
    <3> USE DEF m, n
    <3>3. n - m + 1 = Len(s) - i /\ \A j \in 1 .. Len(s) - i : m + j - 1 = j + i
      BY <1>1
    <3> QED BY <1>1, <3>2, <3>3
  <2>3. t = a \o b
    BY DEF RemoveAt
  <2> HIDE DEF a, b, t
  <2>4. /\ t \in Seq(Nat) /\ Len(t) = Len(a) + Len(b)
        /\ \A j \in 1 .. Len(a) + Len(b) : t[j] = IF j <= Len(a) THEN a[j] ELSE b[j - Len(a)]
    BY <2>1, <2>2, <2>3, ConcatProperties
  <2>5. ASSUME NEW j \in 1 .. Len(s) - 1 PROVE t[j] = s[at(j)]
    <3>1. CASE j < i
      <4>1. j \in 1 .. i - 1 /\ j <= i - 1 /\ j \in 1 .. (i - 1) + (Len(s) - i) /\ at(j) = j
        BY <1>1, <3>1
      <4>2. t[j] = a[j]
        BY <2>1, <2>2, <2>4, <4>1
      <4> QED BY <2>1, <4>1, <4>2
    <3>2. CASE j >= i
      <4> DEFINE k == j - (i - 1)
      <4>1. k \in 1 .. Len(s) - i /\ k + i = j + 1 /\ ~(j <= i - 1)
            /\ j \in 1 .. (i - 1) + (Len(s) - i)
        BY <1>1, <3>2
      <4>2. t[j] = b[k]
        BY <2>1, <2>2, <2>4, <4>1
      <4>3. b[k] = s[k + i]
        BY <2>2, <4>1
      <4>4. at(j) = j + 1
        BY <3>2
      <4> QED BY <4>1, <4>2, <4>3, <4>4
    <3> QED BY <1>1, <3>1, <3>2
  <2> QED BY <1>1, <2>1, <2>2, <2>4, <2>5
<1>3. DOMAIN t = 1 .. Len(s) - 1
  BY <1>1, <1>2
<1>4. \A j \in DOMAIN t : at(j) \in DOMAIN s /\ at(j) # i
  BY <1>1, <1>3
<1>5. \A j, k \in DOMAIN t : at(j) = at(k) => j = k
  BY <1>1, <1>3
<1>6. IsInjective(t)
  BY <1>1, <1>2, <1>3, <1>4, <1>5 DEF IsInjective, List
<1> QED BY <1>2, <1>3, <1>4, <1>6 DEF List

\* The other requests are where they were.
LEMMA OthersStay ==
  ASSUME Inv, NEW p \in Proc, NEW S, Others(p, S), NEW q \in Proc \ {p}
  PROVE  /\ req'[q] = Idle <=> req[q] = Idle
         /\ req[q] # Idle => /\ \A f \in Fields \ {"outdated"} : req'[q][f] = req[q][f]
                             /\ req'[q].outdated = req[q].outdated \cup S
                             /\ req[q].by \in User
         /\ Verifying(req[q])' <=> Verifying(req[q])
         /\ Issuing(req[q])' <=> Issuing(req[q])
         /\ Verifying(req[q]) => Code(req[q])' = Code(req[q])
<1>1. CASE req[q] = Idle
  BY <1>1 DEF Others, Verifying, Issuing
<1>2. CASE req[q] # Idle
  <2>1. /\ Fields \subseteq DOMAIN req[q] /\ DOMAIN req'[q] = DOMAIN req[q]
        /\ \A f \in Fields \ {"outdated"} : req'[q][f] = req[q][f]
        /\ req'[q].outdated = req[q].outdated \cup S /\ req[q].by \in User
    BY <1>2, RequestHas DEF Others
  <2>2. req'[q] # Idle
    BY <2>1 DEF Fields, Idle
  <2> QED BY <1>2, <2>1, <2>2 DEF Verifying, Issuing, Code, Fields
<1> QED BY <1>1, <1>2

\* The logins of others: what they have read stands unless the row is written.
LEMMA OtherLogins ==
  ASSUME Inv, LoginInv, NEW p \in Proc, NEW S, Others(p, S), NEW q \in Proc \ {p},
         \A u \in User \ S : users'[u] = users[u], Verifying(req[q])'
  PROVE  Login(req[q])'
<1> DEFINE c == req[q]
<1>1. /\ Verifying(c) /\ c # Idle
      /\ \A f \in Fields \ {"outdated"} : c'[f] = c[f]
      /\ c'.outdated = c.outdated \cup S /\ c.by \in User
  BY OthersStay DEF Verifying
<1>2. c'.at = c.at /\ c'.arg = c.arg /\ c'.by = c.by /\ c'.read = c.read
  BY <1>1 DEF Fields
<1>3. Login(c)
  BY <1>1 DEF LoginInv
<1>4. ASSUME c'.at \in {"advance", "consume", "remove"}, c'.by \notin c'.outdated PROVE Matching(c)'
  <2>1. Matching(c) /\ users'[c.by] = users[c.by]
    BY <1>1, <1>2, <1>3, <1>4 DEF Login
  <2>2. IndexOf(c', c'.arg) = IndexOf(c', c.arg) /\ IndexOf(c'.read, c'.arg) = IndexOf(c.read, c.arg)
    BY <1>2
  <2> QED BY <1>2, <2>1, <2>2 DEF Matching, Live
<1> QED BY <1>2, <1>3, <1>4 DEF Login

\* A step that goes on with the request p, or ends it: it sets a secret only
\* to its own number, and only once.
LEMMA FreshStep ==
  ASSUME Inv, FreshInv, NEW p \in Proc, NEW S, Others(p, S), req[p] # Idle,
         made' = made, menu' = menu,
         req'[p] # Idle => /\ req'[p].id = req[p].id
                           /\ req'[p].op = "force2fa" /\ req'[p].at = "set" => req'[p].arg \in req'[p].todo,
         Verifying(req[p])' => Verifying(req[p]) /\ req'[p].by = req[p].by /\ req'[p].arg = req[p].arg,
         \A u \in User : Setting(req[p], u)' => Setting(req[p], u),
         \A u \in User : \/ users'[u].secret = users[u].secret \/ users'[u].secret = 0
                         \/ users'[u].secret = req[p].id /\ Setting(req[p], u) /\ ~Setting(req[p], u)',
         \A u, kind, key, n : <<u, kind, key, n>> \in spent' =>
           \/ <<u, kind, key, n>> \in spent
           \/ Verifying(req[p]) /\ req[p].by = u /\ req[p].arg.key = key
  PROVE  FreshInv'
<1>1. made \in Nat /\ \A q \in Proc : req[q] # Idle => req[q].id \in 1 .. made
  BY DEF FreshInv
<1>2. ASSUME NEW u \in User, NEW key, HasKey(u, key)'
      PROVE  \/ HasKey(u, key) \/ key = 0
             \/ key = req[p].id /\ Setting(req[p], u) /\ ~Setting(req[p], u)'
  <2>1. CASE users'[u].secret = key
    BY <2>1 DEF HasKey
  <2>2. CASE \E kind, n : <<u, kind, key, n>> \in spent'
    BY <2>2 DEF HasKey
  <2>3. ASSUME NEW q \in Proc, Verifying(req[q])', req'[q].by = u, req'[q].arg.key = key
        PROVE  HasKey(u, key)
    <3>1. CASE q = p
      BY <2>3, <3>1 DEF HasKey
    <3>2. CASE q # p
      BY <2>3, <3>2, OthersStay DEF HasKey, Verifying, Fields
    <3> QED BY <3>1, <3>2
  <2> QED BY <1>2, <2>1, <2>2, <2>3 DEF HasKey
<1>3. ASSUME NEW q \in Proc, req'[q] # Idle
      PROVE  req[q] # Idle /\ req'[q].id = req[q].id
  BY <1>3, OthersStay DEF Fields
<1>4. ASSUME NEW q \in Proc, NEW u \in User, Setting(req[q], u)'
      PROVE  Setting(req[q], u)
  BY <1>4, OthersStay DEF Setting, Fields
<1>5. ASSUME NEW q \in Proc, NEW u \in User, Setting(req[q], u)'
      PROVE  ~HasKey(u, req[q].id)'
  <2>1. req'[q] # Idle /\ Setting(req[q], u)
    BY <1>4, <1>5 DEF Setting
  <2>2. req'[q].id = req[q].id /\ req[q].id \in 1 .. made /\ req[q] # Idle
    BY <1>1, <1>3, <2>1
  <2>3. PICK id : id = req[q].id
    OBVIOUS
  <2>4. ~HasKey(u, id) /\ id # 0
    BY <1>1, <2>1, <2>2, <2>3 DEF FreshInv
  <2>5. q # p => id # req[p].id
    BY <2>2, <2>3 DEF FreshInv
  <2>6. ~HasKey(u, id)'
    BY <1>2, <1>5, <2>4, <2>5
  <2> QED BY <2>2, <2>3, <2>6 DEF HasKey
<1>6. ASSUME NEW u \in User, NEW key, HasKey(u, key)'
      PROVE  key \in 0 .. made' \/ key = FirstKey
  <2>1. req[p].id \in 0 .. made /\ 0 \in 0 .. made
    BY <1>1
  <2> QED BY <1>2, <1>6, <2>1 DEF FreshInv
<1>7. ASSUME NEW q \in Proc, req'[q] # Idle, req'[q].op = "force2fa", req'[q].at = "set"
      PROVE  req'[q].arg \in req'[q].todo
  BY <1>7, OthersStay DEF FreshInv, Fields
<1>8. \A q, r \in Proc : q # r /\ req'[q] # Idle /\ req'[r] # Idle => req'[q].id # req'[r].id
  BY <1>3 DEF FreshInv
<1>9. \A q \in Proc : req'[q] # Idle => req'[q].id \in 1 .. made
  BY <1>1, <1>3
<1> QED BY <1>5, <1>6, <1>7, <1>8, <1>9 DEF FreshInv, FirstKey

\* No code that was used becomes good again.
StaysGone ==
  \A u \in User : u \notin stale' =>
    \A kind, key, n : Used(u, kind, key, n) /\ Gone(u, kind, key, n) => Gone(u, kind, key, n)'

\* A step that does not use a code.
LEMMA UsedKept ==
  ASSUME Inv, UsedInv, NEW p \in Proc, NEW S, Others(p, S), stale \subseteq stale', StaysGone,
         spent' = spent, ~Issuing(req[p])'
  PROVE  UsedInv'
<1>1. ASSUME NEW u \in User, NEW kind, NEW key, NEW n, Used(u, kind, key, n)'
      PROVE  Used(u, kind, key, n)
  BY <1>1, OthersStay DEF Used, Issuing
<1>2. \A q \in Proc : Issuing(req[q])' =>
        q # p /\ Issuing(req[q]) /\ Code(req[q])' = Code(req[q]) /\ req'[q].by = req[q].by
  BY OthersStay DEF Issuing, Verifying, Fields
<1> QED BY <1>1, <1>2 DEF UsedInv, StaysGone

\* A step after which the login of p is about to be completed.
LEMMA UsedEnters ==
  ASSUME Inv, UsedInv, NEW p \in Proc, NEW S, Others(p, S), stale \subseteq stale', StaysGone,
         spent' = spent, Verifying(req[p]), Code(req[p])' = Code(req[p]), req'[p].by = req[p].by,
         req[p].arg.key # 0, req[p].arg.n \in Nat,
         \A u, kind, key, n : Code(req[p]) = <<u, kind, key, n>> /\ u \notin stale' =>
           ~Used(u, kind, key, n) /\ Gone(u, kind, key, n)'
  PROVE  UsedInv'
<1> DEFINE c == req[p]
<1>1. ASSUME NEW u \in User, NEW kind, NEW key, NEW n, Used(u, kind, key, n)'
      PROVE  \/ Used(u, kind, key, n)
             \/ u = c.by /\ kind = c.arg.kind /\ key = c.arg.key /\ n = c.arg.n
  <2>1. CASE <<u, kind, key, n>> \in spent'
    BY <2>1 DEF Used
  <2>2. ASSUME NEW q \in Proc, Issuing(req[q])', Code(req[q])' = <<u, kind, key, n>>
        PROVE  \/ Used(u, kind, key, n)
               \/ u = c.by /\ kind = c.arg.kind /\ key = c.arg.key /\ n = c.arg.n
    <3>1. CASE q = p
      BY <2>2, <3>1 DEF Code
    <3>2. CASE q # p
      BY <2>2, <3>2, OthersStay DEF Used, Issuing
    <3> QED BY <3>1, <3>2
  <2> QED BY <1>1, <2>1, <2>2 DEF Used
<1>2. \A q \in Proc \ {p} : Issuing(req[q])' =>
        Issuing(req[q]) /\ Code(req[q])' = Code(req[q]) /\ req'[q].by = req[q].by
  BY OthersStay DEF Issuing, Verifying, Fields
<1>3. ASSUME NEW u \in User, NEW kind, NEW key, NEW n, Used(u, kind, key, n)'
      PROVE  key # 0 /\ n \in Nat /\ (u \notin stale' => Gone(u, kind, key, n)')
  <2>1. CASE Used(u, kind, key, n)
    BY <2>1 DEF UsedInv, StaysGone
  <2>2. CASE u = c.by /\ kind = c.arg.kind /\ key = c.arg.key /\ n = c.arg.n
    BY <2>2 DEF Code
  <2> QED BY <1>1, <1>3, <2>1, <2>2
<1>4. c.by \notin stale' => /\ Code(c) \notin spent'
                            /\ \A q \in Proc : Issuing(req[q]) => Code(req[q]) # Code(c)
  BY DEF Used, Code
<1>5. \A q \in Proc : Issuing(req[q]) /\ Code(req[q]) = Code(c) => req[q].by = c.by
  BY DEF Code
<1>6. ASSUME NEW q \in Proc, Issuing(req[q])', req'[q].by \notin stale'
      PROVE  /\ Code(req[q])' \notin spent'
             /\ \A r \in Proc \ {q} : Issuing(req[r])' => Code(req[r])' # Code(req[q])'
  <2>1. CASE q = p
    BY <1>2, <1>4, <1>6, <2>1
  <2>2. CASE q # p
    <3>1. /\ Code(req[q]) \notin spent
          /\ \A r \in Proc \ {q} : Issuing(req[r]) => Code(req[r]) # Code(req[q])
          /\ Issuing(req[q]) /\ Code(req[q])' = Code(req[q]) /\ req[q].by \notin stale'
      BY <1>2, <1>6, <2>2 DEF UsedInv
    <3>2. Code(c) # Code(req[q])
      BY <1>4, <1>5, <3>1
    <3> QED BY <1>2, <3>1, <3>2
  <2> QED BY <2>1, <2>2
<1> QED BY <1>3, <1>6 DEF UsedInv

\* The step that completes the login.
LEMMA UsedIssues ==
  ASSUME Inv, UsedInv, NEW p \in Proc, Others(p, {}), users' = users, stale' = stale,
         spent' = spent \cup {Code(req[p])}, Issuing(req[p]), ~Issuing(req[p])'
  PROVE  UsedInv'
<1>1. ASSUME NEW u \in User, NEW kind, NEW key, NEW n, Used(u, kind, key, n)'
      PROVE  Used(u, kind, key, n)
  BY <1>1, OthersStay DEF Used, Issuing
<1>2. \A q \in Proc : Issuing(req[q])' =>
        q # p /\ Issuing(req[q]) /\ Code(req[q])' = Code(req[q]) /\ req'[q].by = req[q].by
  BY OthersStay DEF Issuing, Verifying, Fields
<1>3. \A q \in Proc : Issuing(req[q])' /\ req'[q].by \notin stale' => Code(req[q])' \notin spent'
  BY <1>2 DEF UsedInv
<1>4. \A u \in User : \A kind, key, n : Gone(u, kind, key, n) => Gone(u, kind, key, n)'
  BY DEF Gone
<1> QED BY <1>1, <1>2, <1>3, <1>4 DEF UsedInv

-----------------------------------------------------------------------------
(* Steps of requests other than the second step of a login.                 *)

\* How such a request goes on: it sets no secret that it has set already.
Onward(c, d) ==
  d # Idle => /\ c.op # "verify" /\ d.op = c.op /\ d.id = c.id
              /\ d.op = "force2fa" /\ d.at = "set" => d.arg \in d.todo
              /\ \A u \in User : Setting(d, u) => Setting(c, u)

\* What it may do to the columns of two-factor authentication.
KeepsFactor(u) == \A f \in Factor : users'[u][f] = users[u][f]

NewFactor(p, u) ==
  /\ users'[u].counter \in Nat /\ List(users'[u].recovery)
  /\ \/ users'[u].secret = 0
     \/ users'[u].secret = req[p].id /\ Setting(req[p], u) /\ ~Setting(req'[p], u)

LEMMA UsedHasKey ==
  ASSUME NEW u, NEW kind, NEW key, NEW n, Used(u, kind, key, n)
  PROVE  HasKey(u, key)
<1>1. CASE <<u, kind, key, n>> \in spent
  BY <1>1 DEF HasKey
<1>2. ASSUME NEW p \in Proc, Issuing(req[p]), Code(req[p]) = <<u, kind, key, n>>
      PROVE  HasKey(u, key)
  BY <1>2 DEF HasKey, Issuing, Code
<1> QED BY <1>1, <1>2 DEF Used

LEMMA PlainCodes ==
  ASSUME Inv, CodeInv, NEW p \in Proc, NEW S, Others(p, S), req[p] # Idle, stale \subseteq stale',
         \A u \in User \ S : users'[u] = users[u],
         \A u \in User : KeepsFactor(u) \/ NewFactor(p, u),
         Onward(req[p], req'[p]),
         UNCHANGED <<now, menu, made, spent, reused>>
  PROVE  CodeInv'
<1>1. ~Verifying(req[p])'
  BY DEF Onward, Verifying
<1>2. FactorInv'
  BY DEF CodeInv, FactorInv, KeepsFactor, NewFactor, Factor
<1>3. FreshInv'
  <2>1. \A u \in User : Setting(req[p], u)' => Setting(req[p], u)
    BY DEF Onward, Setting
  <2>2. \A u \in User : Setting(req'[p], u) <=> Setting(req[p], u)'
    BY DEF Setting
  <2>3. \A u \in User : \/ users'[u].secret = users[u].secret \/ users'[u].secret = 0
                        \/ users'[u].secret = req[p].id /\ Setting(req[p], u) /\ ~Setting(req[p], u)'
    BY <2>2 DEF KeepsFactor, NewFactor, Factor
  <2>4. req'[p] # Idle => /\ req'[p].id = req[p].id
                          /\ req'[p].op = "force2fa" /\ req'[p].at = "set" => req'[p].arg \in req'[p].todo
    BY DEF Onward
  <2> QED BY <1>1, <2>1, <2>3, <2>4, FreshStep DEF CodeInv
<1>4. StaysGone
  <2> SUFFICES ASSUME NEW u \in User, NEW kind, NEW key, NEW n,
                      Used(u, kind, key, n), Gone(u, kind, key, n)
               PROVE  Gone(u, kind, key, n)'
    BY DEF StaysGone
  <2>1. CASE KeepsFactor(u)
    BY <2>1 DEF KeepsFactor, Factor, Gone
  <2>2. CASE NewFactor(p, u)
    <3>1. key # 0
      BY DEF CodeInv, UsedInv
    <3>2. Setting(req[p], u) => key # req[p].id
      BY UsedHasKey DEF CodeInv, FreshInv
    <3> QED BY <2>2, <3>1, <3>2 DEF NewFactor, Gone
  <2> QED BY <2>1, <2>2
<1>5. UsedInv'
  BY <1>1, <1>4, UsedKept DEF CodeInv, Issuing
<1>6. LoginInv'
  <2>1. ASSUME NEW q \in Proc, Verifying(req[q])' PROVE q # p
    BY <1>1, <2>1
  <2> QED BY <2>1, OtherLogins DEF CodeInv, LoginInv
<1> QED BY <1>2, <1>3, <1>5, <1>6 DEF CodeInv, OneLoginPerCode

\* It only reads.
LEMMA ContinueCodes ==
  ASSUME Inv, CodeInv, NEW p \in Proc, NEW d, Continue(p, d), req[p] # Idle, Onward(req[p], d),
         UNCHANGED <<now, menu, made, spent, reused>>
  PROVE  CodeInv'
<1>1. /\ Others(p, {}) /\ req'[p] = d
      /\ users' = users /\ stale' = stale
  BY ContinueDoes DEF Inv
<1>2. \A u \in User : KeepsFactor(u)
  BY <1>1 DEF KeepsFactor
<1> QED BY <1>1, <1>2, PlainCodes

\* It writes rows.
LEMMA WroteCodes ==
  ASSUME Inv, CodeInv, NEW p \in Proc, NEW S, NEW d, Wrote(p, S, d), req[p] # Idle, Onward(req[p], d),
         \A u \in User \ S : users'[u] = users[u],
         \A u \in S \cap User : KeepsFactor(u) \/ NewFactor(p, u),
         UNCHANGED <<now, menu, made, spent, reused>>
  PROVE  CodeInv'
<1>1. Others(p, S) /\ req'[p] = d /\ stale \subseteq stale'
  BY WroteDoes DEF Inv
<1>2. \A u \in User : KeepsFactor(u) \/ NewFactor(p, u)
  BY DEF KeepsFactor
<1> QED BY <1>1, <1>2, PlainCodes

\* Other columns of them.
LEMMA OtherColumns ==
  ASSUME Inv, CodeInv, NEW p \in Proc, NEW S, NEW F, NEW d, Wrote(p, S, d), req[p] # Idle,
         Onward(req[p], d), Writes(S, F), F \cap Factor = {},
         UNCHANGED <<now, menu, made, spent, reused>>
  PROVE  CodeInv'
<1>1. /\ \A u \in User \ S : users'[u] = users[u]
      /\ \A u \in User : KeepsFactor(u)
  BY DEF Writes, KeepsFactor, Factor, Columns
<1> QED BY <1>1, WroteCodes

\* Which columns the statements leave alone.
LEMMA SetTOTPDoes ==
  ASSUME Inv, CodeInv, NEW t, NEW key, SetTOTP(t, key)
  PROVE  /\ \A u \in User \ {t} : users'[u] = users[u]
         /\ t \in User => \/ KeepsFactor(t)
                          \/ /\ users'[t].secret = key /\ users'[t].counter \in Nat
                             /\ List(users'[t].recovery)
<1>1. \A u \in User : users'[u] = IF u \in {t} /\ Live(u)
        THEN [users[u] EXCEPT !.secret = key, !.recovery = [i \in 1 .. Codes |-> i],
                              !.totp = FALSE, !.counter = 0] ELSE users[u]
  BY DEF SetTOTP, Change
<1>2. List([i \in 1 .. Codes |-> i])
  BY TableAssumption DEF List, IsInjective
<1>3. ASSUME t \in User, Live(t)
      PROVE  /\ users'[t].secret = key /\ users'[t].counter = 0
             /\ users'[t].recovery = [i \in 1 .. Codes |-> i]
  BY <1>1, <1>3 DEF Inv, RowInv, Columns
<1>4. t \in User /\ ~Live(t) => KeepsFactor(t)
  BY <1>1 DEF KeepsFactor
<1>5. \A u \in User \ {t} : users'[u] = users[u]
  BY <1>1
<1> QED BY <1>2, <1>3, <1>4, <1>5

LEMMA DisableTOTPDoes ==
  ASSUME Inv, CodeInv, NEW t, DisableTOTP(t)
  PROVE  /\ \A u \in User \ {t} : users'[u] = users[u]
         /\ t \in User => \/ KeepsFactor(t)
                          \/ /\ users'[t].secret = 0 /\ users'[t].counter \in Nat
                             /\ List(users'[t].recovery)
<1>1. \A u \in User : users'[u] = IF u \in {t} /\ Live(u)
        THEN [users[u] EXCEPT !.totp = FALSE, !.secret = 0, !.recovery = <<>>, !.counter = 0]
        ELSE users[u]
  BY DEF DisableTOTP, Change
<1>2. List(<<>>)
  BY DEF List, IsInjective
<1>3. ASSUME t \in User, Live(t)
      PROVE  users'[t].secret = 0 /\ users'[t].counter = 0 /\ users'[t].recovery = <<>>
  BY <1>1, <1>3 DEF Inv, RowInv, Columns
<1>4. t \in User /\ ~Live(t) => KeepsFactor(t)
  BY <1>1 DEF KeepsFactor
<1>5. \A u \in User \ {t} : users'[u] = users[u]
  BY <1>1
<1> QED BY <1>2, <1>3, <1>4, <1>5

LEMMA EnableTOTPDoes ==
  ASSUME Inv, NEW t, EnableTOTP(t)
  PROVE  Writes({t}, {})
<1>1. /\ users' = [u \in User |-> users'[u]]
      /\ \A u \in User : users'[u] = IF u \in {t} /\ Live(u)
                                     THEN [users[u] EXCEPT !.totp = TRUE] ELSE users[u]
  BY DEF EnableTOTP, Change
<1> QED BY <1>1 DEF Inv, Writes, RowInv, Columns

\* A request that is answered.
LEMMA OnwardEnd == \A c : Onward(c, Idle)
BY DEF Onward

\* A request that has no secret to set.
LEMMA OnwardOther ==
  ASSUME NEW c, Fields \subseteq DOMAIN c, c.op \notin {"verify", "setup", "force2fa"}, NEW d,
         \/ \E place : d = [c EXCEPT !.at = place]
         \/ \E place, todo : d = [c EXCEPT !.todo = todo, !.at = place]
         \/ \E place, arg : d = [c EXCEPT !.arg = arg, !.at = place]
         \/ \E place, read : d = [c EXCEPT !.read = read, !.at = place]
         \/ \E todo : d = [c EXCEPT !.todo = todo]
         \/ d = c
  PROVE  Onward(c, d) /\ \A u : Onward(c, Seen(d, u))
<1>1. /\ d.op = c.op /\ d.id = c.id /\ Fields \subseteq DOMAIN d
  BY DEF Fields
<1>2. \A u : Seen(d, u).op = c.op /\ Seen(d, u).id = c.id
  BY <1>1 DEF Seen, Fields
<1> QED BY <1>1, <1>2 DEF Onward, Setting

LEMMA EndsEarlyCodes ==
  ASSUME Inv, CodeInv, NEW p \in Proc, EndsEarly(p)
  PROVE  CodeInv'
BY ContinueCodes, OnwardEnd DEF EndsEarly, clockVars, signVars

LEMMA CheckTargetCodes ==
  ASSUME Inv, CodeInv, NEW p \in Proc, CheckTarget(p)
  PROVE  CodeInv'
<1> DEFINE c == req[p]
<1>1. /\ c # Idle /\ c.at = "check" /\ UNCHANGED <<now, menu, made, spent, reused>>
      /\ Fields \subseteq DOMAIN c
  <2>1. c # Idle /\ c.at = "check" /\ UNCHANGED <<now, menu, made, spent, reused>>
    BY DEF CheckTarget, Idle, clockVars, signVars
  <2> QED BY <2>1, RequestHas
<1>2. PICK t \in c.todo :
        \/ Continue(p, Idle)
        \/ Continue(p, Seen([c EXCEPT !.at = "write", !.todo = c.on], t))
        \/ Continue(p, Seen([c EXCEPT !.todo = c.todo \ {t}], t))
  BY DEF CheckTarget
<1>3. c.op # "verify"
  BY <1>1 DEF CodeInv, LoginInv, Login, Verifying
<1>4. Onward(c, Seen([c EXCEPT !.at = "write", !.todo = c.on], t))
  BY <1>1, <1>3 DEF Onward, Seen, Setting, Fields
<1>5. Onward(c, Seen([c EXCEPT !.todo = c.todo \ {t}], t))
  BY <1>1, <1>3 DEF Onward, Seen, Setting, Fields
<1> QED BY <1>1, <1>2, <1>4, <1>5, OnwardEnd, ContinueCodes

LEMMA ForceReadCodes ==
  ASSUME Inv, CodeInv, NEW p \in Proc, ForceRead(p)
  PROVE  CodeInv'
<1> DEFINE c == req[p]
           d(t) == Seen([c EXCEPT !.arg = t, !.at = IF c.op = "force2fa" THEN "set" ELSE "off"], t)
<1>1. /\ c # Idle /\ c.at = "write" /\ c.op \in {"force2fa", "unforce2fa"}
      /\ UNCHANGED <<now, menu, made, spent, reused>>
  BY DEF ForceRead, Idle, clockVars, signVars
<1>2. Fields \subseteq DOMAIN c
  BY <1>1, RequestHas
<1>3. PICK t \in c.todo : Continue(p, Idle) \/ Continue(p, d(t))
  BY DEF ForceRead
<1>4. Onward(c, d(t))
  BY <1>1, <1>2 DEF Onward, Seen, Setting, Fields
<1> QED BY <1>1, <1>3, <1>4, OnwardEnd, ContinueCodes

LEMMA UpdateReadsCodes ==
  ASSUME Inv, CodeInv, NEW p \in Proc, UpdateRead(p) \/ UpdateCount(p)
  PROVE  CodeInv'
<1> DEFINE c == req[p]
<1>1. /\ c # Idle /\ c.op = "update" /\ UNCHANGED <<now, menu, made, spent, reused>>
  <2>1. c.op = "update" /\ c.at \in {"read", "count"}
    BY DEF UpdateRead, UpdateCount, At
  <2>2. UNCHANGED <<now, menu, made, spent, reused>>
    BY DEF UpdateRead, UpdateCount, clockVars, signVars
  <2> QED BY <2>1, <2>2 DEF Idle
<1>2. Fields \subseteq DOMAIN c
  BY <1>1, RequestHas
<1>3. CASE UpdateRead(p)
  <2>1. PICK t \in c.on : \/ Continue(p, Idle)
                          \/ Continue(p, Seen([c EXCEPT !.read = users[t],
                                 !.at = IF Demotes(c, t) THEN "count" ELSE "write"], t))
    BY <1>3 DEF UpdateRead
  <2>2. Onward(c, Seen([c EXCEPT !.read = users[t], !.at = IF Demotes(c, t) THEN "count" ELSE "write"], t))
    BY <1>1, <1>2, OnwardOther
  <2> QED BY <1>1, <2>1, <2>2, OnwardEnd, ContinueCodes
<1>4. CASE UpdateCount(p)
  <2>1. Continue(p, Idle) \/ Continue(p, [c EXCEPT !.at = "write"])
    BY <1>4 DEF UpdateCount
  <2>2. Onward(c, [c EXCEPT !.at = "write"])
    BY <1>1, <1>2, OnwardOther
  <2> QED BY <1>1, <2>1, <2>2, OnwardEnd, ContinueCodes
<1> QED BY <1>3, <1>4

LEMMA LoginCodes ==
  ASSUME Inv, CodeInv, NEW p \in Proc, LoginRead(p) \/ LoginIssue(p)
  PROVE  CodeInv'
<1> DEFINE c == req[p]
<1>1. /\ c # Idle /\ c.op = "login" /\ UNCHANGED <<now, menu, made, spent, reused>>
  BY DEF LoginRead, LoginIssue, At, Idle, clockVars
<1>2. Fields \subseteq DOMAIN c
  BY <1>1, RequestHas
<1>3. Continue(p, Idle) \/ Continue(p, [c EXCEPT !.at = "issue"])
  BY DEF LoginRead, LoginIssue
<1>4. Onward(c, [c EXCEPT !.at = "issue"])
  BY <1>1, <1>2, OnwardOther
<1> QED BY <1>1, <1>3, <1>4, OnwardEnd, ContinueCodes

LEMMA ReadFactorCodes ==
  ASSUME Inv, CodeInv, NEW p \in Proc, ReadFactor(p)
  PROVE  CodeInv'
<1> DEFINE c == req[p]
           d(place) == Seen([c EXCEPT !.at = place], c.by)
<1>1. /\ c # Idle /\ c.op \in {"setup", "enable2fa", "disable2fa"} /\ c.at = "read"
      /\ UNCHANGED <<now, menu, made, spent, reused>>
  BY DEF ReadFactor, Quiet, Idle, clockVars, signVars
<1>2. Fields \subseteq DOMAIN c
  BY <1>1, RequestHas
<1>3. Continue(p, Idle) \/ \E place : Continue(p, d(place))
  BY DEF ReadFactor
<1>4. \A place : Onward(c, d(place))
  BY <1>1, <1>2 DEF Onward, Seen, Setting, Fields
<1> QED BY <1>1, <1>3, <1>4, OnwardEnd, ContinueCodes

LEMMA ReadPasswordCodes ==
  ASSUME Inv, CodeInv, NEW p \in Proc, ReadPassword(p)
  PROVE  CodeInv'
<1> DEFINE c == req[p]
<1>1. /\ c # Idle /\ c.op \in {"cli", "changepw"} /\ UNCHANGED <<now, menu, made, spent, reused>>
  BY DEF ReadPassword, Quiet, Idle, clockVars, signVars
<1>2. Fields \subseteq DOMAIN c
  BY <1>1, RequestHas
<1>3. Continue(p, Idle) \/ Continue(p, Seen([c EXCEPT !.at = "write"], c.by))
  BY DEF ReadPassword
<1>4. Onward(c, Seen([c EXCEPT !.at = "write"], c.by))
  BY <1>1, <1>2, OnwardOther
<1> QED BY <1>1, <1>3, <1>4, OnwardEnd, ContinueCodes

\* The statements that write other columns.
LEMMA WriteBatchCodes ==
  ASSUME Inv, CodeInv, NEW p \in Proc, WriteBatch(p)
  PROVE  CodeInv'
<1>1. /\ req[p] # Idle /\ Wrote(p, req[p].on, Idle) /\ UNCHANGED <<now, menu, made, spent, reused>>
  <2>1. req[p].at = "write" /\ Wrote(p, req[p].on, Idle)
    BY DEF WriteBatch, At
  <2>2. UNCHANGED <<now, menu, made, spent, reused>>
    BY DEF WriteBatch, clockVars, signVars
  <2> QED BY <2>1, <2>2 DEF Idle
<1>2. PICK F : Writes(req[p].on, F) /\ F \cap Factor = {}
  <2>1. CASE Delete(req[p].on)
    BY <2>1, DeleteDoes DEF Inv, Factor
  <2>2. CASE \E on : SetEnabled(req[p].on, on)
    BY <2>2, SetEnabledDoes DEF Inv, Factor
  <2> QED BY <2>1, <2>2 DEF WriteBatch
<1> QED BY <1>1, <1>2, OnwardEnd, OtherColumns

LEMMA ResetPasswordCodes ==
  ASSUME Inv, CodeInv, NEW p \in Proc, ResetPassword(p)
  PROVE  CodeInv'
<1> DEFINE c == req[p]
<1>1. /\ c # Idle /\ c.op = "resetpw" /\ UNCHANGED <<now, menu, made, spent, reused>>
  BY DEF ResetPassword, At, Idle, clockVars, signVars
<1>2. PICK t \in c.todo : UpdatePassword(t, c.id) /\ Wrote(p, {t}, Rest(c, t, "write"))
  BY DEF ResetPassword
<1>3. Writes({t}, {"password", "revoked"}) /\ {"password", "revoked"} \cap Factor = {}
  BY <1>2, UpdatePasswordDoes DEF Inv, Factor
<1>4. Fields \subseteq DOMAIN c
  BY <1>1, RequestHas
<1>5. Onward(c, Rest(c, t, "write"))
  <2>1. Onward(c, [c EXCEPT !.todo = @ \ {t}, !.at = "write"])
    BY <1>1, <1>4, OnwardOther
  <2> QED BY <2>1, OnwardEnd DEF Rest
<1> QED BY <1>1, <1>2, <1>3, <1>5, OtherColumns

LEMMA WritePasswordCodes ==
  ASSUME Inv, CodeInv, NEW p \in Proc, WritePassword(p)
  PROVE  CodeInv'
<1> DEFINE c == req[p]
<1>1. /\ c # Idle /\ c.op \in {"changepw", "cli"} /\ UNCHANGED <<now, menu, made, spent, reused>>
      /\ UpdatePassword(c.by, c.id)
      /\ Wrote(p, {c.by}, [c EXCEPT !.at = "off"]) \/ Wrote(p, {c.by}, Idle)
  BY DEF WritePassword, Idle, clockVars, signVars
<1>2. Writes({c.by}, {"password", "revoked"}) /\ {"password", "revoked"} \cap Factor = {}
  BY <1>1, UpdatePasswordDoes DEF Inv, Factor
<1>3. Fields \subseteq DOMAIN c
  BY <1>1, RequestHas
<1>4. Onward(c, [c EXCEPT !.at = "off"]) /\ Onward(c, Idle)
  BY <1>1, <1>3, OnwardOther, OnwardEnd
<1> QED BY <1>1, <1>2, <1>4, OtherColumns

LEMMA ForgotCodes ==
  ASSUME Inv, CodeInv, NEW p \in Proc, Forgot(p)
  PROVE  CodeInv'
<1> DEFINE c == req[p]
<1>1. c # Idle /\ UNCHANGED <<now, menu, made, spent, reused>>
  BY DEF Forgot, At, Idle, clockVars, signVars
<1>2. CASE ResetPasswordByToken(c.by, c.id) /\ Wrote(p, {c.by}, Idle)
  <2>1. /\ Writes({c.by}, {"password", "revoked", "token"})
        /\ {"password", "revoked", "token"} \cap Factor = {}
    BY <1>2, ResetByTokenDoes DEF Inv, Factor
  <2> QED BY <1>1, <1>2, <2>1, OnwardEnd, OtherColumns
<1>3. CASE Continue(p, Idle)
  BY <1>1, <1>3, OnwardEnd, ContinueCodes
<1> QED BY <1>2, <1>3 DEF Forgot

LEMMA LogoutCodes ==
  ASSUME Inv, CodeInv, NEW p \in Proc, Logout(p)
  PROVE  CodeInv'
<1>1. /\ req[p] # Idle /\ UNCHANGED <<now, menu, made, spent, reused>>
      /\ RevokeAllSessions(req[p].by) /\ Wrote(p, {req[p].by}, Idle)
  BY DEF Logout, At, Idle, clockVars, signVars
<1>2. Writes({req[p].by}, {"revoked"}) /\ {"revoked"} \cap Factor = {}
  BY <1>1, RevokeDoes DEF Inv, Factor
<1> QED BY <1>1, <1>2, OnwardEnd, OtherColumns

LEMMA UpdateWriteCodes ==
  ASSUME Inv, CodeInv, NEW p \in Proc, UpdateWrite(p)
  PROVE  CodeInv'
<1> DEFINE c == req[p]
<1>1. /\ c # Idle /\ c.op = "update" /\ c.at = "write" /\ UNCHANGED <<now, menu, made, spent, reused>>
      /\ Wrote(p, c.on, Idle)
  BY DEF UpdateWrite, At, Idle, clockVars, signVars
<1>2. PICK t \in c.on : Update(t, c.read, NextRole(c), NextHash(c))
  BY DEF UpdateWrite
<1>3. c.on = {t}
  BY <1>1, RequestHas DEF Edit
<1>4. Writes({t}, {"role", "password", "revoked"}) /\ {"role", "password", "revoked"} \cap Factor = {}
  BY <1>2, UpdateDoes DEF Inv, Factor
<1> QED BY <1>1, <1>3, <1>4, OnwardEnd, OtherColumns

LEMMA WriteTokenCodes ==
  ASSUME Inv, CodeInv, NEW p \in Proc, WriteToken(p)
  PROVE  CodeInv'
<1> DEFINE c == req[p]
<1>1. /\ c # Idle /\ Wrote(p, c.on, Idle) /\ UNCHANGED <<now, menu, made, spent, reused>>
  BY DEF WriteToken, At, Idle, clockVars, signVars
<1>2. PICK t \in c.on : SetResetToken(t, c.id)
  BY DEF WriteToken
<1>3. Writes({t}, {"token"})
  BY <1>2, SetTokenDoes DEF Inv
<1>4. Writes(c.on, {"token"}) /\ {"token"} \cap Factor = {}
  BY <1>2, <1>3 DEF Writes, Factor
<1> QED BY <1>1, <1>4, OnwardEnd, OtherColumns

LEMMA InsertCodes ==
  ASSUME Inv, CodeInv, NEW p \in Proc, Insert(p)
  PROVE  CodeInv'
<1> DEFINE c == req[p]
<1>1. c # Idle /\ UNCHANGED <<now, menu, made, spent, reused>>
  BY DEF Insert, At, Idle, clockVars, signVars
<1>2. CASE Continue(p, Idle)
  BY <1>1, <1>2, OnwardEnd, ContinueCodes
<1>3. ASSUME NEW u,
             users' = [users EXCEPT ![u] = [NoUser EXCEPT !.state = "live", !.role = c.arg, !.password = c.id]],
             Wrote(p, {u}, Idle)
      PROVE  CodeInv'
  <2>1. \A t \in User \ {u} : users'[t] = users[t]
    BY <1>3 DEF Inv, RowInv
  <2>2. ASSUME u \in User PROVE NewFactor(p, u)
    <3>1. users'[u].secret = 0 /\ users'[u].counter = 0 /\ users'[u].recovery = <<>>
      BY <1>3, <2>2 DEF Inv, RowInv, NoUser
    <3> QED BY <3>1 DEF NewFactor, List, IsInjective
  <2> QED BY <1>1, <1>3, <2>1, <2>2, OnwardEnd, WroteCodes
<1> QED BY <1>2, <1>3 DEF Insert

\* The statements of two-factor authentication.
LEMMA ForceWriteCodes ==
  ASSUME Inv, CodeInv, NEW p \in Proc, ForceWrite(p)
  PROVE  CodeInv'
<1> DEFINE c == req[p]
           t == req[p].arg
<1>1. /\ c # Idle /\ c.op \in {"force2fa", "unforce2fa"} /\ UNCHANGED <<now, menu, made, spent, reused>>
  BY DEF ForceWrite, At, Idle, clockVars, signVars
<1>2. Fields \subseteq DOMAIN c
  BY <1>1, RequestHas
<1>3. At(p, "force2fa", "on") \/ At(p, "unforce2fa", "off") => Onward(c, Rest(c, t, "write"))
  BY <1>1, <1>2 DEF At, Rest, Onward, Setting, Fields
<1>4. CASE At(p, "force2fa", "set") /\ SetTOTP(t, c.id) /\ Wrote(p, {t}, [c EXCEPT !.at = "on"])
  <2> DEFINE d == [c EXCEPT !.at = "on"]
  <2>1. c.op = "force2fa" /\ c.at = "set" /\ t \in c.todo
    BY <1>1, <1>4 DEF At, CodeInv, FreshInv
  <2>2. Onward(c, d)
    BY <1>1, <1>2, <2>1 DEF Onward, Setting, Fields
  <2>3. Setting(c, t) /\ ~Setting(d, t)
    BY <1>1, <1>2, <2>1 DEF Setting, Fields
  <2>4. req'[p] = d
    BY <1>4, WroteDoes DEF Inv
  <2>5. t \in User => KeepsFactor(t) \/ NewFactor(p, t)
    BY <1>4, <2>3, <2>4, SetTOTPDoes DEF NewFactor
  <2>6. \A u \in User \ {t} : users'[u] = users[u]
    BY <1>4, SetTOTPDoes
  <2> QED BY <1>1, <1>4, <2>2, <2>5, <2>6, WroteCodes
<1>5. CASE At(p, "force2fa", "on") /\ EnableTOTP(t) /\ Wrote(p, {t}, Rest(c, t, "write"))
  BY <1>1, <1>3, <1>5, EnableTOTPDoes, OtherColumns
<1>6. CASE At(p, "unforce2fa", "off") /\ DisableTOTP(t) /\ Wrote(p, {t}, Rest(c, t, "write"))
  <2>1. /\ t \in User => KeepsFactor(t) \/ NewFactor(p, t)
        /\ \A u \in User \ {t} : users'[u] = users[u]
    BY <1>6, DisableTOTPDoes DEF NewFactor
  <2> QED BY <1>1, <1>3, <1>6, <2>1, WroteCodes
<1> QED BY <1>4, <1>5, <1>6 DEF ForceWrite

LEMMA WriteFactorCodes ==
  ASSUME Inv, CodeInv, NEW p \in Proc, WriteFactor(p) \/ ClearFactor(p)
  PROVE  CodeInv'
<1> DEFINE c == req[p]
           t == req[p].by
<1>1. /\ c # Idle /\ Wrote(p, {t}, Idle) /\ UNCHANGED <<now, menu, made, spent, reused>>
  <2>1. c.at \in {"set", "on", "off"} /\ Wrote(p, {t}, Idle)
    BY DEF WriteFactor, ClearFactor, At
  <2>2. UNCHANGED <<now, menu, made, spent, reused>>
    BY DEF WriteFactor, ClearFactor, Quiet, clockVars, signVars
  <2> QED BY <2>1, <2>2 DEF Idle
<1>2. CASE At(p, "setup", "set") /\ SetTOTP(t, c.id)
  <2>1. Setting(c, t) /\ ~Setting(Idle, t)
    BY <1>1, <1>2 DEF Setting, At
  <2>2. req'[p] = Idle
    BY <1>1, WroteDoes DEF Inv
  <2>3. t \in User => KeepsFactor(t) \/ NewFactor(p, t)
    BY <1>2, <2>1, <2>2, SetTOTPDoes DEF NewFactor
  <2>4. \A u \in User \ {t} : users'[u] = users[u]
    BY <1>2, SetTOTPDoes
  <2> QED BY <1>1, <2>3, <2>4, OnwardEnd, WroteCodes
<1>3. CASE EnableTOTP(t)
  BY <1>1, <1>3, EnableTOTPDoes, OnwardEnd, OtherColumns
<1>4. CASE DisableTOTP(t)
  <2>1. /\ t \in User => KeepsFactor(t) \/ NewFactor(p, t)
        /\ \A u \in User \ {t} : users'[u] = users[u]
    BY <1>4, DisableTOTPDoes DEF NewFactor
  <2> QED BY <1>1, <2>1, OnwardEnd, WroteCodes
<1> QED BY <1>2, <1>3, <1>4 DEF WriteFactor, ClearFactor

-----------------------------------------------------------------------------
(* The second step of a login.                                              *)

\* What every step of one keeps.
Same(c, d) == d.op = "verify" /\ d.id = c.id /\ d.by = c.by /\ d.arg = c.arg

LEMMA SameCode ==
  ASSUME NEW p, NEW d, Same(req[p], d), req'[p] = d, req[p] # Idle, req[p].op = "verify", d.at # "idle"
  PROVE  /\ Verifying(req[p]) /\ Verifying(req[p])' /\ Code(req[p])' = Code(req[p])
         /\ req'[p].by = req[p].by /\ req'[p].arg = req[p].arg /\ req'[p].id = req[p].id
<1>1. d # Idle
  BY DEF Idle
<1> QED BY <1>1 DEF Same, Verifying, Code

\* It only reads, and a code matches what it has read.
LEMMA VerifyContinues ==
  ASSUME Inv, CodeInv, NEW p \in Proc, NEW d, Continue(p, d), Verifying(req[p]),
         d = Idle \/ (Same(req[p], d) /\ d.at # "issue" /\ d.at # "idle" /\ Login(d)),
         UNCHANGED <<now, menu, made, spent, reused>>
  PROVE  CodeInv'
<1> DEFINE c == req[p]
<1>1. /\ Others(p, {}) /\ req'[p] = d
      /\ users' = users /\ stale' = stale
  BY ContinueDoes DEF Inv
<1>2. c # Idle /\ c.op = "verify"
  BY DEF Verifying
<1>3. CASE d = Idle
  <2>1. ~Verifying(req[p])' /\ ~Issuing(req[p])'
    BY <1>1, <1>3 DEF Verifying, Issuing
  <2>2. \A u \in User : ~Setting(req[p], u)'
    BY <1>1, <1>3 DEF Setting
  <2>3. FreshInv'
    BY <1>1, <1>2, <1>3, <2>1, <2>2, FreshStep DEF CodeInv
  <2>4. UsedInv'
    BY <1>1, <2>1, UsedKept DEF CodeInv, StaysGone, Gone
  <2>5. LoginInv'
    <3>1. ASSUME NEW q \in Proc, Verifying(req[q])' PROVE q # p
      BY <2>1, <3>1
    <3> QED BY <1>1, <3>1, OtherLogins DEF CodeInv, LoginInv
  <2> QED BY <1>1, <2>3, <2>4, <2>5 DEF CodeInv, FactorInv, OneLoginPerCode
<1>4. CASE Same(c, d) /\ d.at # "issue" /\ d.at # "idle" /\ Login(d)
  <2>1. /\ Verifying(req[p])' /\ ~Issuing(req[p])'
        /\ req'[p].by = c.by /\ req'[p].arg = c.arg /\ req'[p].id = c.id /\ req'[p].op = "verify"
    BY <1>1, <1>2, <1>4, SameCode DEF Issuing, Verifying
  <2>2. \A u \in User : ~Setting(req[p], u)'
    BY <2>1 DEF Setting
  <2>3. FreshInv'
    <3>1. req'[p] # Idle => /\ req'[p].id = req[p].id
                            /\ req'[p].op = "force2fa" /\ req'[p].at = "set" => req'[p].arg \in req'[p].todo
      BY <2>1
    <3> QED BY <1>1, <1>2, <2>1, <2>2, <3>1, FreshStep DEF CodeInv, Verifying
  <2>4. UsedInv'
    BY <1>1, <2>1, UsedKept DEF CodeInv, StaysGone, Gone
  <2>5. Login(req[p])'
    BY <1>1, <1>4 DEF Login, Matching, Live
  <2>6. LoginInv'
    BY <1>1, <2>5, OtherLogins DEF CodeInv, LoginInv
  <2> QED BY <1>1, <2>3, <2>4, <2>6 DEF CodeInv, FactorInv, OneLoginPerCode
<1> QED BY <1>3, <1>4

LEMMA VerifyReadCodes ==
  ASSUME Inv, CodeInv, NEW p \in Proc, VerifyRead(p)
  PROVE  CodeInv'
<1> DEFINE c == req[p]
           r == users[req[p].by]
           a == Seen([c EXCEPT !.at = "advance"], c.by)
           b == Seen([c EXCEPT !.at = "consume", !.read = r], c.by)
<1>1. /\ c # Idle /\ c.op = "verify" /\ Verifying(c)
      /\ UNCHANGED <<now, menu, made, spent, reused>>
  BY DEF VerifyRead, Quiet, At, Idle, Verifying, clockVars, signVars
<1>2. Fields \subseteq DOMAIN c /\ c.by \in User
  BY <1>1, RequestHas
<1>3. Login(c) /\ r.counter \in Nat /\ List(r.recovery) /\ "recovery" \in DOMAIN r /\ now \in Nat \ {0, 1}
  BY <1>1, <1>2 DEF CodeInv, LoginInv, FactorInv, Inv, RowInv, Columns
<1>4. \/ Continue(p, Idle)
      \/ Continue(p, a) /\ Live(c.by) /\ Matches(r, c.arg) /\ ~Replayed(r, c.arg)
      \/ Continue(p, b) /\ Live(c.by) /\ IndexOf(r, c.arg) # 0
  BY DEF VerifyRead
<1>5. ASSUME Live(c.by), Matches(r, c.arg), ~Replayed(r, c.arg)
      PROVE  Same(c, a) /\ a.at = "advance" /\ Login(a)
  <2>1. a.at = "advance" /\ a.by = c.by /\ a.arg = c.arg /\ Same(c, a)
    BY <1>1, <1>2 DEF Seen, Same, Fields
  <2>2. r.counter < c.arg.n /\ c.arg.key = r.secret /\ c.arg.kind = "totp"
    BY <1>3, <1>5 DEF Login, Matches, Replayed
  <2>3. Login(a)
    BY <1>3, <1>5, <2>1, <2>2 DEF Login, Matching
  <2> QED BY <2>1, <2>3
<1>6. ASSUME Live(c.by), IndexOf(r, c.arg) # 0
      PROVE  Same(c, b) /\ b.at = "consume" /\ Login(b)
  <2>1. b.at = "consume" /\ b.by = c.by /\ b.arg = c.arg /\ b.read = r /\ Same(c, b)
    BY <1>1, <1>2 DEF Seen, Same, Fields
  <2>2. /\ c.arg.kind = "recovery" /\ c.arg.key = r.secret
        /\ IndexOf(r, c.arg) \in DOMAIN r.recovery /\ r.recovery[IndexOf(r, c.arg)] = c.arg.n
    BY <1>6 DEF IndexOf
  <2>3. IndexOf(r, c.arg) \in Nat \ {0}
    BY <1>3, <2>2 DEF List
  <2>4. Login(b)
    BY <1>3, <1>6, <2>1, <2>2, <2>3 DEF Login, Matching
  <2> QED BY <2>1, <2>4
<1> QED BY <1>1, <1>4, <1>5, <1>6, VerifyContinues

LEMMA ConsumeCodes ==
  ASSUME Inv, CodeInv, NEW p \in Proc, Consume(p)
  PROVE  CodeInv'
<1> DEFINE c == req[p]
           i == IndexOf(req[p].read, req[p].arg)
           s == users[req[p].by].recovery
           d == [c EXCEPT !.at = "remove", !.read.recovery = RemoveAt(s, i)]
<1>1. /\ c # Idle /\ c.op = "verify" /\ c.at = "consume" /\ Verifying(c)
      /\ UNCHANGED <<now, menu, made, spent, reused>>
  BY DEF Consume, Quiet, At, Idle, Verifying, clockVars, signVars
<1>2. Fields \subseteq DOMAIN c /\ c.by \in User
  BY <1>1, RequestHas
<1>3. Login(c) /\ List(s)
  BY <1>1, <1>2 DEF CodeInv, LoginInv, FactorInv
<1>4. Continue(p, Idle) \/ (Continue(p, d) /\ Live(c.by) /\ i <= Len(s))
  BY DEF Consume
<1>5. ASSUME Live(c.by), i <= Len(s)
      PROVE  Same(c, d) /\ d.at = "remove" /\ Login(d)
  <2>1. d.at = "remove" /\ d.by = c.by /\ d.arg = c.arg /\ d.outdated = c.outdated /\ Same(c, d)
    BY <1>1, <1>2 DEF Same, Fields
  <2>2. d.read.recovery = RemoveAt(s, i)
    BY <1>1, <1>2, <1>3 DEF Login, Fields
  <2>3. i \in DOMAIN s
    <3>1. i \in Nat \ {0}
      BY <1>1, <1>3 DEF Login
    <3> QED BY <1>3, <1>5, <3>1 DEF List
  <2>4. List(d.read.recovery)
    BY <1>3, <2>2, <2>3, RemoveAtDoes
  <2>5. d.by \notin d.outdated => Matching(c)
    BY <1>1, <1>3, <2>1 DEF Login
  <2>6. Matching(c) => Matching(d)
    BY <1>1, <2>1, <2>2, <2>3 DEF Matching
  <2>7. Login(d)
    BY <1>3, <2>1, <2>4, <2>5, <2>6 DEF Login
  <2> QED BY <2>1, <2>7
<1> QED BY <1>1, <1>4, <1>5, VerifyContinues

\* It writes that the code is spent, in the row that still has it.
LEMMA VerifyWrites ==
  ASSUME Inv, CodeInv, NEW p \in Proc, Verifying(req[p]),
         Wrote(p, {req[p].by}, [req[p] EXCEPT !.at = "issue"]),
         \A u \in User \ {req[p].by} : users'[u] = users[u],
         users'[req[p].by].secret = users[req[p].by].secret, FactorInv',
         req[p].by \notin req[p].outdated =>
           \A u, kind, key, n : u = req[p].by /\ n \in Nat =>
             /\ Gone(u, kind, key, n) => Gone(u, kind, key, n)'
             /\ Code(req[p]) = <<u, kind, key, n>> => ~Gone(u, kind, key, n) /\ Gone(u, kind, key, n)',
         UNCHANGED <<now, menu, made, spent, reused>>
  PROVE  CodeInv'
<1> DEFINE c == req[p]
           d == [req[p] EXCEPT !.at = "issue"]
<1>1. /\ Others(p, {c.by}) /\ req'[p] = d
      /\ stale' = stale \cup ({c.by} \cap c.outdated)
  BY WroteDoes DEF Inv
<1>2. c # Idle /\ c.op = "verify" /\ Fields \subseteq DOMAIN c /\ c.by \in User
  <2>1. c # Idle /\ c.op = "verify"
    BY DEF Verifying
  <2> QED BY <2>1, RequestHas
<1>3. d.at = "issue" /\ d.by = c.by /\ d.arg = c.arg /\ Same(c, d)
  BY <1>2 DEF Same, Fields
<1>4. /\ Verifying(req[p])' /\ Code(req[p])' = Code(c)
      /\ req'[p].by = c.by /\ req'[p].arg = c.arg /\ req'[p].id = c.id /\ req'[p].op = "verify"
  BY <1>1, <1>2, <1>3, SameCode DEF Same
<1>5. Login(c)
  BY DEF CodeInv, LoginInv
<1>6. FreshInv'
  <2>1. \A u \in User : ~Setting(req[p], u)'
    BY <1>4 DEF Setting
  <2>2. req'[p] # Idle => /\ req'[p].id = req[p].id
                          /\ req'[p].op = "force2fa" /\ req'[p].at = "set" => req'[p].arg \in req'[p].todo
    BY <1>4
  <2>3. \A u \in User : users'[u].secret = users[u].secret
    BY <1>2
  <2> QED BY <1>1, <1>2, <1>4, <2>1, <2>2, <2>3, FreshStep DEF CodeInv
<1>7. StaysGone
  <2> SUFFICES ASSUME NEW u \in User, u \notin stale', NEW kind, NEW key, NEW n,
                      Used(u, kind, key, n), Gone(u, kind, key, n)
               PROVE  Gone(u, kind, key, n)'
    BY DEF StaysGone
  <2>1. n \in Nat
    BY DEF CodeInv, UsedInv
  <2>2. CASE u = c.by
    BY <1>1, <2>1, <2>2
  <2>3. CASE u # c.by
    BY <2>3 DEF Gone
  <2> QED BY <2>2, <2>3
<1>8. UsedInv'
  <2>1. ASSUME NEW u, NEW kind, NEW key, NEW n, Code(c) = <<u, kind, key, n>>, u \notin stale'
        PROVE  ~Used(u, kind, key, n) /\ Gone(u, kind, key, n)'
    <3>1. u = c.by /\ n \in Nat /\ u \in User /\ u \notin stale /\ u \notin c.outdated
      BY <1>1, <1>2, <1>5, <2>1 DEF Code, Login
    <3>2. ~Gone(u, kind, key, n) /\ Gone(u, kind, key, n)'
      BY <2>1, <3>1
    <3> QED BY <3>1, <3>2 DEF CodeInv, UsedInv
  <2> QED BY <1>1, <1>2, <1>4, <1>5, <1>7, <2>1, UsedEnters DEF CodeInv, Login
<1>9. LoginInv'
  <2>1. Login(req[p])'
    BY <1>1, <1>3, <1>5 DEF Login
  <2>2. ASSUME NEW q \in Proc \ {p}, Verifying(req[q])' PROVE Login(req[q])'
    BY <1>1, <2>2, OtherLogins DEF CodeInv
  <2> QED BY <2>1, <2>2 DEF LoginInv
<1> QED BY <1>1, <1>6, <1>8, <1>9 DEF CodeInv, OneLoginPerCode

LEMMA VerifyAdvanceCodes ==
  ASSUME Inv, CodeInv, NEW p \in Proc, VerifyAdvance(p)
  PROVE  CodeInv'
<1> DEFINE c == req[p]
<1>1. /\ c # Idle /\ c.at = "advance" /\ Verifying(c)
      /\ UNCHANGED <<now, menu, made, spent, reused>>
      /\ Wrote(p, {c.by}, [c EXCEPT !.at = "issue"])
  BY DEF VerifyAdvance, Quiet, At, Idle, Verifying, clockVars, signVars
<1>2. c.by \in User
  BY <1>1, RequestHas
<1>3. Login(c)
  BY <1>1 DEF CodeInv, LoginInv
<1>4. \A u \in User : users'[u] = IF u \in {c.by} /\ Live(u)
                                  THEN [users[u] EXCEPT !.counter = c.arg.n] ELSE users[u]
  BY DEF VerifyAdvance, SetTOTPLastCounter, Change
<1>5. /\ \A u \in User \ {c.by} : users'[u] = users[u]
      /\ users'[c.by].secret = users[c.by].secret
      /\ users'[c.by].recovery = users[c.by].recovery
      /\ users'[c.by].counter \in {users[c.by].counter, c.arg.n}
      /\ Live(c.by) => users'[c.by].counter = c.arg.n
  BY <1>2, <1>4 DEF Inv, RowInv, Columns
<1>6. FactorInv'
  BY <1>3, <1>5 DEF CodeInv, FactorInv, Login
<1>7. ASSUME NEW u, u = c.by, c.by \notin c.outdated, NEW kind, NEW key, NEW n \in Nat
      PROVE  /\ Gone(u, kind, key, n) => Gone(u, kind, key, n)'
             /\ Code(c) = <<u, kind, key, n>> =>
                  ~Gone(u, kind, key, n) /\ Gone(u, kind, key, n)'
  <2>1. /\ Live(c.by) /\ c.arg.key = users[c.by].secret /\ c.arg.kind = "totp"
        /\ users[c.by].counter < c.arg.n /\ c.arg.n \in Nat
    BY <1>1, <1>3, <1>7 DEF Login, Matching
  <2>2. users[c.by].counter \in Nat /\ users'[c.by].counter = c.arg.n
    BY <1>2, <1>5, <2>1 DEF CodeInv, FactorInv
  <2>3. n <= users[c.by].counter => n <= c.arg.n
    BY <2>1, <2>2
  <2>4. Gone(u, kind, key, n) => Gone(u, kind, key, n)'
    BY <1>5, <1>7, <2>1, <2>2, <2>3 DEF Gone
  <2>5. ASSUME Code(c) = <<u, kind, key, n>>
        PROVE  ~Gone(u, kind, key, n) /\ Gone(u, kind, key, n)'
    <3>1. kind = "totp" /\ key = users[c.by].secret /\ n = c.arg.n
      BY <2>1, <2>5 DEF Code
    <3> QED BY <1>5, <1>7, <2>1, <2>2, <3>1 DEF Gone
  <2> QED BY <2>4, <2>5
<1> QED BY <1>1, <1>5, <1>6, <1>7, VerifyWrites

LEMMA ConsumeWriteCodes ==
  ASSUME Inv, CodeInv, NEW p \in Proc, ConsumeWrite(p)
  PROVE  CodeInv'
<1> DEFINE c == req[p]
           s == users[req[p].by].recovery
           t == req[p].read.recovery
<1>1. /\ c # Idle /\ c.at = "remove" /\ Verifying(c)
      /\ UNCHANGED <<now, menu, made, spent, reused>>
      /\ Wrote(p, {c.by}, [c EXCEPT !.at = "issue"])
  BY DEF ConsumeWrite, Quiet, At, Idle, Verifying, clockVars, signVars
<1>2. c.by \in User
  BY <1>1, RequestHas
<1>3. Login(c)
  BY <1>1 DEF CodeInv, LoginInv
<1>4. \A u \in User : users'[u] = IF u \in {c.by} /\ Live(u)
                                  THEN [users[u] EXCEPT !.recovery = t] ELSE users[u]
  BY DEF ConsumeWrite, SetTOTPRecoveryCodes, Change
<1>5. /\ \A u \in User \ {c.by} : users'[u] = users[u]
      /\ users'[c.by].secret = users[c.by].secret
      /\ users'[c.by].counter = users[c.by].counter
      /\ users'[c.by].recovery = s \/ users'[c.by].recovery = t
      /\ Live(c.by) => users'[c.by].recovery = t
  BY <1>2, <1>4 DEF Inv, RowInv, Columns
<1>6. FactorInv'
  <2>1. List(t) /\ List(s)
    BY <1>1, <1>2, <1>3 DEF Login, CodeInv, FactorInv
  <2> QED BY <1>5, <2>1 DEF CodeInv, FactorInv
<1>7. ASSUME NEW u, u = c.by, c.by \notin c.outdated, NEW kind, NEW key, NEW n \in Nat
      PROVE  /\ Gone(u, kind, key, n) => Gone(u, kind, key, n)'
             /\ Code(c) = <<u, kind, key, n>> =>
                  ~Gone(u, kind, key, n) /\ Gone(u, kind, key, n)'
  <2>1. Matching(c)
    BY <1>1, <1>3, <1>7 DEF Login
  <2>2. PICK i \in DOMAIN s : s[i] = c.arg.n /\ t = RemoveAt(s, i)
    BY <1>1, <2>1 DEF Matching
  <2>3. /\ Live(c.by) /\ c.arg.key = users[c.by].secret /\ c.arg.kind = "recovery"
        /\ users'[c.by].recovery = t
    BY <1>1, <1>5, <2>1 DEF Matching
  <2>4. List(s)
    BY <1>2 DEF CodeInv, FactorInv
  <2>5. \A j \in DOMAIN t : \E k \in DOMAIN s : k # i /\ t[j] = s[k]
    BY <2>2, <2>4, RemoveAtDoes
  <2>6. Gone(u, kind, key, n) => Gone(u, kind, key, n)'
    BY <1>5, <1>7, <2>3, <2>5 DEF Gone
  <2>7. ASSUME Code(c) = <<u, kind, key, n>>
        PROVE  ~Gone(u, kind, key, n) /\ Gone(u, kind, key, n)'
    <3>1. kind = "recovery" /\ key = users[c.by].secret /\ n = c.arg.n
      BY <2>3, <2>7 DEF Code
    <3>2. ~Gone(u, kind, key, n)
      BY <1>7, <2>2, <3>1 DEF Gone
    <3>3. \A j \in DOMAIN t : t[j] # n
      BY <2>2, <2>4, <2>5, <3>1 DEF List, IsInjective
    <3>4. Gone(u, kind, key, n)'
      BY <1>7, <2>3, <3>1, <3>3 DEF Gone
    <3> QED BY <3>2, <3>4
  <2> QED BY <2>6, <2>7
<1> QED BY <1>1, <1>5, <1>6, <1>7, VerifyWrites

\* Here the property is at stake: the code has completed no login before.
LEMMA VerifyIssueCodes ==
  ASSUME Inv, CodeInv, NEW p \in Proc, VerifyIssue(p)
  PROVE  CodeInv'
<1> DEFINE c == req[p]
<1>1. /\ c # Idle /\ c.op = "verify" /\ Verifying(c) /\ Issuing(c)
      /\ Continue(p, Idle) /\ UNCHANGED <<now, menu, made>>
      /\ spent' = spent \cup {Code(c)}
      /\ reused' = IF Code(c) \in spent THEN reused \cup {c.by} ELSE reused
  BY DEF VerifyIssue, At, Idle, Verifying, Issuing, Code, clockVars
<1>2. /\ Others(p, {}) /\ req'[p] = Idle
      /\ users' = users /\ stale' = stale
  BY <1>1, ContinueDoes DEF Inv
<1>3. ~Verifying(req[p])' /\ ~Issuing(req[p])' /\ \A u \in User : ~Setting(req[p], u)'
  BY <1>2 DEF Verifying, Issuing, Setting
<1>4. UsedInv'
  BY <1>1, <1>2, <1>3, UsedIssues DEF CodeInv
<1>5. FreshInv'
  <2>1. \A u, kind, key, n : <<u, kind, key, n>> \in spent' =>
           \/ <<u, kind, key, n>> \in spent
           \/ Verifying(req[p]) /\ req[p].by = u /\ req[p].arg.key = key
    BY <1>1 DEF Code
  <2> QED BY <1>1, <1>2, <1>3, <2>1, FreshStep DEF CodeInv
<1>6. LoginInv'
  <2>1. ASSUME NEW q \in Proc, Verifying(req[q])' PROVE q # p
    BY <1>3, <2>1
  <2> QED BY <1>2, <2>1, OtherLogins DEF CodeInv, LoginInv
<1>7. reused' \subseteq stale'
  BY <1>1, <1>2 DEF CodeInv, UsedInv, OneLoginPerCode
<1> QED BY <1>1, <1>2, <1>4, <1>5, <1>6, <1>7 DEF CodeInv, FactorInv, OneLoginPerCode

-----------------------------------------------------------------------------
(* Requests begin; the clock; the theorem.                                  *)

\* A request begins with a number that no secret has.
LEMMA BeginCodes ==
  ASSUME Inv, CodeInv, NEW p \in Proc, NEW op, NEW place, NEW by, NEW on, NEW arg,
         Begin(p, op, place, by, on, arg), op \in Open(p, {op}),
         UNCHANGED <<now, menu, users, spent, reused, stale>>,
         op = "verify" => place = "read" /\ by \in User /\ arg \in CodesOf(by),
         op = "force2fa" => place # "set" /\ place # "on"
  PROVE  CodeInv'
<1> DEFINE c == [op |-> op, at |-> place, by |-> by, on |-> on, todo |-> on,
                 read |-> NoUser, arg |-> arg, id |-> Fresh + 1, outdated |-> {}]
<1>1. /\ req' = [req EXCEPT ![p] = c] /\ made' = made + 1
      /\ req[p] = Idle /\ made < menu.requests
  BY DEF Begin, Open
<1>2. req' = [q \in Proc |-> req'[q]] /\ req'[p] = c /\ \A q \in Proc \ {p} : req'[q] = req[q]
  BY <1>1 DEF Inv, ReqInv
<1>3. ASSUME NEW q \in Proc \ {p}, req[q] # Idle
      PROVE  req'[q].outdated = req[q].outdated \cup {}
  BY <1>2
<1>4. Others(p, {})
  BY <1>2, <1>3 DEF Others
<1>5. /\ req'[p].op = op /\ req'[p].at = place /\ req'[p].by = by /\ req'[p].id = made + 1
      /\ req'[p].on = on /\ req'[p].todo = on /\ req'[p].arg = arg
  BY <1>2 DEF Fresh
<1>6. /\ made \in Nat /\ made + 1 \in 0 .. MaxRequests /\ MaxRequests \in Nat
      /\ made + 1 \notin 0 .. made /\ made + 1 # FirstKey
  <2>1. menu.requests \in 0 .. MaxRequests /\ MaxRequests \in Nat /\ made \in 0 .. MaxRequests
    BY TableAssumption DEF CodeInv, FreshInv
  <2> QED BY <1>1, <2>1 DEF FirstKey
<1>7. Verifying(req[p])' => /\ place = "read" /\ by \in User
                            /\ arg.kind \in {"totp", "recovery"} /\ arg.key = users[by].secret
                            /\ arg.key # 0 /\ arg.n \in Nat \ {0}
  <2>1. Verifying(req[p])' => op = "verify"
    BY <1>5 DEF Verifying
  <2>2. now \in Nat \ {0, 1} /\ Codes \in Nat
    BY TableAssumption DEF CodeInv
  <2> QED BY <2>1, <2>2 DEF CodesOf
<1>8. ~Issuing(req[p])'
  BY <1>5, <1>7 DEF Issuing
<1>9. UsedInv'
  BY <1>4, <1>8, UsedKept DEF CodeInv, StaysGone, Gone
<1>10. LoginInv'
  <2>1. Verifying(req[p])' => Login(req[p])'
    BY <1>5, <1>7 DEF Login
  <2>2. ASSUME NEW q \in Proc \ {p}, Verifying(req[q])' PROVE Login(req[q])'
    BY <1>4, <2>2, OtherLogins DEF CodeInv
  <2> QED BY <2>1, <2>2 DEF LoginInv
<1>11. ASSUME NEW u \in User, NEW key, HasKey(u, key)'
       PROVE  HasKey(u, key)
  <2>1. CASE users'[u].secret = key
    BY <2>1 DEF HasKey
  <2>2. CASE \E kind, n : <<u, kind, key, n>> \in spent'
    BY <2>2 DEF HasKey
  <2>3. ASSUME NEW q \in Proc, Verifying(req[q])', req'[q].by = u, req'[q].arg.key = key
        PROVE  HasKey(u, key)
    <3>1. CASE q = p
      BY <1>5, <1>7, <2>3, <3>1 DEF HasKey
    <3>2. CASE q # p
      BY <1>2, <2>3, <3>2 DEF HasKey, Verifying
    <3> QED BY <3>1, <3>2
  <2> QED BY <1>11, <2>1, <2>2, <2>3 DEF HasKey
<1>12. ASSUME NEW q \in Proc, NEW u \in User, Setting(req[q], u)'
       PROVE  ~HasKey(u, req[q].id)'
  <2>1. PICK id : id = req'[q].id
    OBVIOUS
  <2>2. ~HasKey(u, id)
    <3>1. CASE q = p
      BY <1>5, <1>6, <2>1, <3>1 DEF CodeInv, FreshInv
    <3>2. CASE q # p
      <4>1. Setting(req[q], u) /\ req[q].id = id
        BY <1>2, <1>12, <2>1, <3>2 DEF Setting
      <4> QED BY <4>1 DEF CodeInv, FreshInv
    <3> QED BY <3>1, <3>2
  <2>3. ~HasKey(u, id)'
    BY <1>11, <2>2
  <2> QED BY <2>1, <2>3 DEF HasKey
<1>13. FreshInv'
  <2>1. \A u \in User : \A key : HasKey(u, key)' => key \in 0 .. made' \/ key = FirstKey'
    <3>1. 0 .. made \subseteq 0 .. made + 1
      BY <1>6
    <3> QED BY <1>1, <1>11, <3>1 DEF CodeInv, FreshInv, FirstKey
  <2>2. \A q \in Proc : req'[q] # Idle => req'[q].id \in 1 .. made'
    <3>1. 1 .. made \subseteq 1 .. made + 1 /\ made + 1 \in 1 .. made + 1
      BY <1>6
    <3>2. \A q \in Proc \ {p} : req[q] # Idle => req[q].id \in 1 .. made
      BY DEF CodeInv, FreshInv
    <3> QED BY <1>1, <1>2, <1>5, <3>1, <3>2
  <2>3. \A q, r \in Proc : q # r /\ req'[q] # Idle /\ req'[r] # Idle => req'[q].id # req'[r].id
    <3>1. \A q \in Proc \ {p} : req[q] # Idle => req[q].id # made + 1
      <4>1. made + 1 \notin 1 .. made
        BY <1>6
      <4> QED BY <4>1 DEF CodeInv, FreshInv
    <3> QED BY <1>2, <1>5, <3>1 DEF CodeInv, FreshInv
  <2>4. \A q \in Proc : req'[q] # Idle /\ req'[q].op = "force2fa" /\ req'[q].at = "set"
                          => req'[q].arg \in req'[q].todo
    BY <1>2, <1>5 DEF CodeInv, FreshInv
  <2>5. made' \in 0 .. MaxRequests /\ menu' \in Menus
    BY <1>1, <1>6 DEF CodeInv, FreshInv
  <2> QED BY <1>12, <2>1, <2>2, <2>3, <2>4, <2>5 DEF FreshInv
<1> QED BY <1>9, <1>10, <1>13 DEF CodeInv, FactorInv, OneLoginPerCode

LEMMA AdminBeginsCodes ==
  ASSUME Inv, CodeInv, NEW p \in Proc, NEW op, NEW place, NEW on, NEW arg,
         AdminBegins(p, op, place, on, arg), op \in Open(p, {op}), op # "verify",
         op = "force2fa" => place # "set" /\ place # "on"
  PROVE  CodeInv'
<1>1. PICK by \in User : Begin(p, op, place, by, on, arg)
  BY DEF AdminBegins
<1> QED BY <1>1, BeginCodes DEF AdminBegins, clockVars, signVars

LEMMA AdminRequestCodes ==
  ASSUME Inv, CodeInv, NEW p \in Proc, AdminRequest(p)
  PROVE  CodeInv'
<1> \A ops : \A op \in Open(p, ops) : op \in ops /\ op \in Open(p, {op})
  BY DEF Open
<1>1. CASE CreateRequest(p)
  BY <1>1, AdminBeginsCodes DEF CreateRequest
<1>2. CASE UpdateRequest(p)
  BY <1>2, AdminBeginsCodes DEF UpdateRequest
<1>3. CASE DeleteRequest(p)
  BY <1>3, AdminBeginsCodes DEF DeleteRequest
<1>4. CASE ToggleRequest(p)
  BY <1>4, AdminBeginsCodes DEF ToggleRequest
<1>5. CASE BatchToggleRequest(p)
  BY <1>5, AdminBeginsCodes DEF BatchToggleRequest
<1>6. CASE BatchResetPasswordRequest(p)
  BY <1>6, AdminBeginsCodes DEF BatchResetPasswordRequest
<1>7. CASE ResetTokenRequest(p)
  BY <1>7, AdminBeginsCodes DEF ResetTokenRequest
<1>8. CASE ForceRequest(p)
  BY <1>8, AdminBeginsCodes DEF ForceRequest
<1>9. CASE BatchForceRequest(p)
  BY <1>9, AdminBeginsCodes DEF BatchForceRequest
<1> QED BY <1>1, <1>2, <1>3, <1>4, <1>5, <1>6, <1>7, <1>8, <1>9 DEF AdminRequest

LEMMA AsksCodes ==
  ASSUME Inv, CodeInv, NEW p \in Proc, NEW op, NEW place, NEW u \in User, NEW arg,
         Asks(p, op, place, u, arg), op \in Open(p, {op}), op # "force2fa",
         op = "verify" => place = "read" /\ arg \in CodesOf(u)
  PROVE  CodeInv'
BY BeginCodes DEF Asks, clockVars, signVars

LEMMA UserRequestCodes ==
  ASSUME Inv, CodeInv, NEW p \in Proc, PublicRequest(p) \/ OwnRequest(p)
  PROVE  CodeInv'
<1> \A ops : \A op \in Open(p, ops) : op \in ops /\ op \in Open(p, {op})
  BY DEF Open
<1> \A u \in pending : u \in User
  BY DEF Inv, KnownInv, There
<1>1. CASE LoginRequest(p)
  BY <1>1, AsksCodes DEF LoginRequest
<1>2. CASE VerifyRequest(p)
  BY <1>2, AsksCodes DEF VerifyRequest
<1>3. CASE ForgotRequest(p)
  BY <1>3, AsksCodes DEF ForgotRequest
<1>4. CASE CommandRequest(p)
  BY <1>4, AsksCodes DEF CommandRequest
<1>5. CASE SetupRequest(p)
  BY <1>5, AsksCodes DEF SetupRequest
<1>6. CASE EnableRequest(p)
  BY <1>6, AsksCodes DEF EnableRequest
<1>7. CASE DisableRequest(p)
  BY <1>7, AsksCodes DEF DisableRequest
<1>8. CASE LogoutRequest(p)
  BY <1>8, AsksCodes DEF LogoutRequest
<1>9. CASE ChangePasswordRequest(p)
  BY <1>9, AsksCodes DEF ChangePasswordRequest
<1> QED BY <1>1, <1>2, <1>3, <1>4, <1>5, <1>6, <1>7, <1>8, <1>9 DEF PublicRequest, OwnRequest

\* No request takes a step: the clock, or a step that stutters.
LEMMA NobodyCodes ==
  ASSUME CodeInv, UNCHANGED <<menu, users, spent, reused, stale, req, made>>, now' = now \/ now' = now + 1
  PROVE  CodeInv'
<1>1. FactorInv' /\ OneLoginPerCode' /\ now' \in Nat \ {0, 1}
  BY DEF CodeInv, FactorInv, OneLoginPerCode
<1>2. UsedInv'
  BY DEF CodeInv, UsedInv, Used, Gone, Issuing, Verifying, Code
<1>3. LoginInv'
  BY DEF CodeInv, LoginInv, Verifying, Login, Matching, Live
<1>4. FreshInv'
  <2>1. \A u \in User : \A key : HasKey(u, key)' <=> HasKey(u, key)
    BY DEF HasKey, Verifying
  <2>2. \A q \in Proc : \A u \in User : Setting(req[q], u)' <=> Setting(req[q], u)
    BY DEF Setting
  <2>3. \A q \in Proc : \A u \in User : HasKey(u, req[q].id)' <=> HasKey(u, req[q].id)
    BY DEF HasKey, Verifying
  <2>4. FirstKey' = FirstKey
    BY DEF FirstKey
  <2> QED BY <2>1, <2>2, <2>3, <2>4 DEF CodeInv, FreshInv
<1> QED BY <1>1, <1>2, <1>3, <1>4 DEF CodeInv

LEMMA CodesAtInit ==
  ASSUME Init
  PROVE  CodeInv
<1>1. ASSUME NEW u \in User
      PROVE  /\ users[u].counter = 0 /\ users[u].secret \in {0, FirstKey}
             /\ users[u].recovery = <<>> \/ users[u].recovery = [i \in 1 .. Codes |-> i]
  BY DEF Init, Account, NoUser
<1>2. List(<<>>) /\ List([i \in 1 .. Codes |-> i])
  BY TableAssumption DEF List, IsInjective
<1>3. FactorInv
  <2>1. ASSUME NEW u \in User PROVE users[u].counter \in Nat /\ List(users[u].recovery)
    BY <1>1, <1>2
  <2> QED BY <2>1 DEF FactorInv
<1>4. spent = {} /\ reused = {} /\ made = 0 /\ now = 2 /\ menu \in Menus /\ \A p \in Proc : req[p] = Idle
  BY DEF Init
<1>5. UsedInv /\ LoginInv
  BY <1>4 DEF UsedInv, LoginInv, Used, Issuing, Verifying
<1>6. FreshInv
  <2>1. 0 \in 0 .. MaxRequests
    BY TableAssumption
  <2>2. ASSUME NEW u \in User, NEW key, HasKey(u, key)
        PROVE  key \in 0 .. made \/ key = FirstKey
    <3>1. users[u].secret = key
      BY <1>4, <2>2 DEF HasKey, Verifying
    <3>2. 0 \in 0 .. made
      BY <1>4
    <3> QED BY <1>1, <3>1, <3>2
  <2>3. \A p \in Proc : \A u \in User : ~Setting(req[p], u)
    BY <1>4 DEF Setting
  <2> QED BY <1>4, <2>1, <2>2, <2>3 DEF FreshInv
<1> QED BY <1>3, <1>4, <1>5, <1>6 DEF CodeInv, OneLoginPerCode

LEMMA NextCodes ==
  ASSUME Inv, CodeInv, [Next]_vars
  PROVE  CodeInv'
<1>1. CASE Tick
  BY <1>1, NobodyCodes DEF Tick, signVars
<1>2. ASSUME NEW p \in Proc, AdminStep(p)
      PROVE  CodeInv'
  BY <1>2, CheckTargetCodes, WriteBatchCodes, ResetPasswordCodes, ForceReadCodes, ForceWriteCodes,
     WriteTokenCodes, InsertCodes, UpdateReadsCodes, UpdateWriteCodes DEF AdminStep
<1>3. ASSUME NEW p \in Proc, SelfStep(p)
      PROVE  CodeInv'
  BY <1>3, LoginCodes, VerifyReadCodes, VerifyAdvanceCodes, ConsumeCodes, ConsumeWriteCodes,
     VerifyIssueCodes, ReadFactorCodes, WriteFactorCodes, ReadPasswordCodes, WritePasswordCodes,
     ForgotCodes, LogoutCodes DEF SelfStep
<1>4. CASE UNCHANGED vars
  BY <1>4, NobodyCodes DEF vars, clockVars, signVars
<1> QED BY <1>1, <1>2, <1>3, <1>4, AdminRequestCodes, UserRequestCodes, EndsEarlyCodes DEF Next

\* A code completes one login, unless the row of its user is written from a
\* reading older than another's write: what a login has taken from the row
\* stays gone, for no secret is ever given out twice, and two logins that hold
\* the same code cannot both find it in a row that nobody wrote in between.
THEOREM OneLoginForACode == Spec => []OneLoginPerCode
<1>1. Init => CodeInv
  BY CodesAtInit
<1>2. Inv /\ CodeInv /\ [Next]_vars => CodeInv'
  BY NextCodes
<1>3. CodeInv => OneLoginPerCode
  BY DEF CodeInv
<1> QED BY <1>1, <1>2, <1>3, InvHolds, PTL DEF Spec
=============================================================================
