------------------------------- MODULE SignIn -------------------------------
(***************************************************************************)
(* What users do with their own account: service/auth_service.go, called by *)
(* handler/auth_handler.go, and the offline command that resets a password *)
(* (cmd/server/reset_password.go).  A code is either the number that the    *)
(* authenticator shows in a time step, or a recovery code; both belong to  *)
(* one secret.  The clock counts time steps (30 s), so the codes accepted  *)
(* are those of now - 1 .. now + 1 (totp.MatchingCounter); a token of the  *)
(* first step, good for ten of them, does not expire within the bounds.    *)
(***************************************************************************)
EXTENDS UserTable, SequencesExt

\* The user's own code: of the secret in use when the request begins.
CodesOf(u) ==
  {k \in [kind : {"totp"}, key : {users[u].secret}, n : {now - 1, now, now + 1}] \cup
         [kind : {"recovery"}, key : {users[u].secret}, n : 1 .. Codes] : k.key # 0}

Asks(p, op, place, u, arg) ==
  /\ Begin(p, op, place, u, {u}, arg)
  /\ UNCHANGED <<clockVars, users, signVars, histVars, stale, crossed>>

\* Requests that anybody makes, with what the user knows.
LoginRequest(p) ==
  \E op \in Open(p, {"login"}), u \in User : Live(u) /\ Asks(p, op, "read", u, users[u].password)

VerifyRequest(p) ==
  \E op \in Open(p, {"verify"}), u \in pending : \E k \in CodesOf(u) : Asks(p, op, "read", u, k)

ForgotRequest(p) ==
  \E op \in Open(p, {"forgot"}), u \in User :
    users[u].token # 0 /\ Asks(p, op, "write", u, users[u].token)

\* The operator, with the binary of the service.
CommandRequest(p) ==
  \E op \in Open(p, {"cli"}), u \in User : Live(u) /\ Asks(p, op, "read", u, 0)

\* Requests behind Auth.
SetupRequest(p) ==
  \E op \in Open(p, {"setup"}), u \in User : SignedIn(u) /\ Asks(p, op, "read", u, 0)

EnableRequest(p) ==
  \E op \in Open(p, {"enable2fa"}), u \in User :
    SignedIn(u) /\ \E k \in CodesOf(u) : Asks(p, op, "read", u, k)

DisableRequest(p) ==
  \E op \in Open(p, {"disable2fa"}), u \in User :
    SignedIn(u) /\ \E k \in CodesOf(u) : Asks(p, op, "read", u, k)

LogoutRequest(p) ==
  \E op \in Open(p, {"logout"}), u \in User : SignedIn(u) /\ Asks(p, op, "write", u, 0)

ChangePasswordRequest(p) ==
  \E op \in Open(p, {"changepw"}), u \in User :
    SignedIn(u) /\ Asks(p, op, "read", u, users[u].password)

PublicRequest(p) == LoginRequest(p) \/ VerifyRequest(p) \/ ForgotRequest(p) \/ CommandRequest(p)

OwnRequest(p) ==
  \/ SetupRequest(p) \/ EnableRequest(p) \/ DisableRequest(p)
  \/ LogoutRequest(p) \/ ChangePasswordRequest(p)

Quiet == UNCHANGED <<clockVars, signVars, made, histVars>>

-----------------------------------------------------------------------------
(* Login, first step                                                       *)

LoginRead(p) ==
  LET c == req[p] r == users[c.by] IN
  /\ At(p, "login", "read")
  /\ IF Live(c.by) /\ r.enabled /\ r.password = c.arg
     THEN IF r.totp THEN pending' = pending \cup {c.by} /\ Continue(p, Idle)
          ELSE Continue(p, [c EXCEPT !.at = "issue"]) /\ UNCHANGED pending
     ELSE Continue(p, Idle) /\ UNCHANGED pending
  /\ UNCHANGED <<clockVars, sessions, spent, reused, made, histVars>>

LoginIssue(p) ==
  /\ At(p, "login", "issue")
  /\ Issue(req[p].by)
  /\ Continue(p, Idle)
  /\ UNCHANGED <<clockVars, pending, spent, reused, made, histVars>>

-----------------------------------------------------------------------------
(* Login, second step                                                      *)

Matches(r, k) == k.kind = "totp" /\ k.key = r.secret /\ k.n \in now - 1 .. now + 1

\* Where the row has the recovery code; 0 if it has not.
IndexOf(r, k) ==
  IF k.kind = "recovery" /\ k.key = r.secret /\ \E i \in DOMAIN r.recovery : r.recovery[i] = k.n
  THEN CHOOSE i \in DOMAIN r.recovery : r.recovery[i] = k.n
  ELSE 0

\* Mutant: the code of the last counter is accepted once more.
Replayed_OffByOne(r, k) == r.counter > 0 /\ k.n < r.counter

Replayed(r, k) == r.counter > 0 /\ k.n <= r.counter

VerifyRead(p) ==
  LET c == req[p] r == users[c.by] IN
  /\ At(p, "verify", "read")
  /\ Continue(p,
       IF ~(Live(c.by) /\ r.totp /\ r.enabled) THEN Idle
       ELSE IF Matches(r, c.arg) /\ ~Replayed(r, c.arg)
            THEN Seen([c EXCEPT !.at = "advance"], c.by)
       ELSE IF IndexOf(r, c.arg) # 0 THEN Seen([c EXCEPT !.at = "consume", !.read = r], c.by)
       ELSE Idle)
  /\ Quiet

VerifyAdvance(p) ==
  LET c == req[p] IN
  /\ At(p, "verify", "advance")
  /\ SetTOTPLastCounter(c.by, c.arg.n)
  /\ Wrote(p, {c.by}, [c EXCEPT !.at = "issue"])
  /\ Quiet

\* consumeRecovery reads the list again, and takes the index from the first
\* reading.
Consume(p) ==
  LET c == req[p] i == IndexOf(c.read, c.arg) IN
  /\ At(p, "verify", "consume")
  /\ Continue(p, IF Live(c.by) /\ i <= Len(users[c.by].recovery)
                 THEN [c EXCEPT !.at = "remove", !.read.recovery = RemoveAt(users[c.by].recovery, i)]
                 ELSE Idle)
  /\ Quiet

ConsumeWrite(p) ==
  LET c == req[p] IN
  /\ At(p, "verify", "remove")
  /\ SetTOTPRecoveryCodes(c.by, c.read.recovery)
  /\ Wrote(p, {c.by}, [c EXCEPT !.at = "issue"])
  /\ Quiet

VerifyIssue(p) ==
  LET c == req[p]
      code == <<c.by, c.arg.kind, c.arg.key, c.arg.n>> IN
  /\ At(p, "verify", "issue")
  /\ Issue(c.by)
  /\ spent' = spent \cup {code}
  /\ reused' = IF code \in spent THEN reused \cup {c.by} ELSE reused
  /\ Continue(p, Idle)
  /\ UNCHANGED <<clockVars, pending, made, histVars>>

-----------------------------------------------------------------------------
(* Two-factor authentication on and off, by the user                       *)

ReadFactor(p) ==
  LET c == req[p] r == users[c.by] IN
  /\ c.at = "read"
  /\ Continue(p,
       CASE c.op = "setup" /\ Live(c.by) -> Seen([c EXCEPT !.at = "set"], c.by)
         [] c.op = "enable2fa" /\ Live(c.by) /\ Matches(r, c.arg) -> Seen([c EXCEPT !.at = "on"], c.by)
         [] c.op = "disable2fa" /\ Live(c.by) /\ r.totp
              /\ (Matches(r, c.arg) \/ IndexOf(r, c.arg) # 0) -> Seen([c EXCEPT !.at = "off"], c.by)
         [] OTHER -> Idle)
  /\ c.op \in {"setup", "enable2fa", "disable2fa"}
  /\ Quiet

WriteFactor(p) ==
  LET c == req[p] IN
  /\ \/ At(p, "setup", "set") /\ SetTOTP(c.by, c.id)
     \/ At(p, "enable2fa", "on") /\ EnableTOTP(c.by)
     \/ At(p, "disable2fa", "off") /\ DisableTOTP(c.by)
  /\ Wrote(p, {c.by}, Idle)
  /\ Quiet

-----------------------------------------------------------------------------
(* Passwords                                                               *)

\* ChangePassword compares the old password; the command has no need to.
ReadPassword(p) ==
  LET c == req[p] IN
  /\ c.at = "read"
  /\ \/ c.op = "cli" /\ Continue(p, IF Live(c.by) THEN Seen([c EXCEPT !.at = "write"], c.by) ELSE Idle)
     \/ c.op = "changepw" /\ Continue(p, IF Live(c.by) /\ users[c.by].password = c.arg
                                         THEN Seen([c EXCEPT !.at = "write"], c.by) ELSE Idle)
  /\ Quiet

WritePassword(p) ==
  LET c == req[p] IN
  /\ c.at = "write" /\ c.op \in {"changepw", "cli"}
  /\ UpdatePassword(c.by, c.id)
  /\ Choose({c.by}, c.id) /\ ended' = ended \cup Older({c.by})
  /\ Wrote(p, {c.by}, IF c.op = "cli" THEN [c EXCEPT !.at = "off"] ELSE Idle)
  /\ UNCHANGED <<clockVars, signVars, made, reset>>

\* The command then turns two-factor authentication off.
ClearFactor(p) ==
  LET c == req[p] IN
  /\ At(p, "cli", "off")
  /\ DisableTOTP(c.by) /\ Wrote(p, {c.by}, Idle)
  /\ Quiet

Forgot(p) ==
  LET c == req[p] IN
  /\ At(p, "forgot", "write")
  /\ IF TokenMatches(c.by, c.arg)
     THEN /\ ResetPasswordByToken(c.by, c.id)
          /\ Choose({c.by}, c.id) /\ ended' = ended \cup Older({c.by})
          /\ Wrote(p, {c.by}, Idle)
     ELSE Continue(p, Idle) /\ UNCHANGED <<chosen, ended>>
  /\ UNCHANGED <<clockVars, signVars, made, reset>>

Logout(p) ==
  LET c == req[p] IN
  /\ At(p, "logout", "write")
  /\ RevokeAllSessions(c.by)
  /\ ended' = ended \cup Older({c.by})
  /\ Wrote(p, {c.by}, Idle)
  /\ UNCHANGED <<clockVars, signVars, made, chosen, reset>>

SelfStep(p) ==
  \/ LoginRead(p) \/ LoginIssue(p)
  \/ VerifyRead(p) \/ VerifyAdvance(p) \/ Consume(p) \/ ConsumeWrite(p) \/ VerifyIssue(p)
  \/ ReadFactor(p) \/ WriteFactor(p)
  \/ ReadPassword(p) \/ WritePassword(p) \/ ClearFactor(p) \/ Forgot(p) \/ Logout(p)
=============================================================================
