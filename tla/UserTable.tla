------------------------------ MODULE UserTable ------------------------------
(***************************************************************************)
(* The table users and the statements of repository/user_repo.go, and the  *)
(* requests that are being served.  A request is a record: the operation,   *)
(* where it is, who asks, the accounts it is about and those still to do,   *)
(* the row it has read and its argument.  A column that takes no part in a *)
(* decision (display name, e-mail, time stamps) is left out.               *)
(***************************************************************************)
EXTENDS Integers, FiniteSets, Sequences

CONSTANTS
  User,        \* the accounts there may be
  Root,        \* the account that BootstrapAdmin makes
  Admins, TwoFactor, Absent,   \* the accounts that are administrators, have
               \* two-factor authentication on, are not there yet at the start
  Proc,        \* requests that are served at one time
  TokenTTL,    \* resetTokenTTL
  Codes,       \* recovery codes of a fresh set-up: 1 .. Codes
  Menus,       \* bound: the operations requested and how many requests, one
               \* record for each mixture
  MaxRequests, Horizon, MaxBatch   \* bounds

ASSUME TableAssumption ==
  /\ Root \in Admins /\ Admins \cup TwoFactor \subseteq User \ Absent
  /\ \A m \in Menus : m.requests \in 0 .. MaxRequests
  /\ {TokenTTL, Codes, MaxRequests, Horizon, MaxBatch} \subseteq Nat

VARIABLES
  now,         \* seconds, for the database and the replicas alike
  named,       \* TRUE: Root has the name "admin", which the code protects
  users,       \* the table
  sessions,    \* the tokens issued: user and iat
  pending,     \* users who hold a token of a login's first step
  req,         \* the requests
  menu, made,  \* the operations requested, and how many of them so far
  chosen,      \* history: the password each user (or for them) last chose
  ended,       \* history: tokens that a logout or a new password has ended
  reset,       \* history: tokens issued before Update has set a new password
  spent,       \* history: codes that have completed a login
  reused,      \* history: users for whom one has done so twice
  stale,       \* history: users whose row was written by a request that
               \* began before another wrote it
  crossed      \* history: a request wrote after another that it overlapped

clockVars == <<now, named, menu>>
signVars  == <<sessions, pending, spent, reused>>
histVars  == <<chosen, ended, reset>>
vars == <<clockVars, users, signVars, req, made, histVars, stale, crossed>>

NoUser == [state |-> "none", enabled |-> TRUE, role |-> "user", password |-> 0,
           revoked |-> 0, token |-> 0, expires |-> 0,
           totp |-> FALSE, secret |-> 0, counter |-> 0, recovery |-> <<>>]

Live(u) == users[u].state = "live"
IsDefaultAdmin(u) == named /\ u = Root

\* A new password, secret or token differs from all before it.
Fresh == made

-----------------------------------------------------------------------------
(* Statements.  Each has the rows it changes as its first argument.         *)

Change(S, Row(_)) == users' = [u \in User |-> IF u \in S /\ Live(u) THEN Row(users[u]) ELSE users[u]]

Delete(S) == Change(S, LAMBDA r : [r EXCEPT !.state = "deleted"])

SetEnabled(S, on) == Change(S, LAMBDA r : [r EXCEPT !.enabled = on])

\* Only UpdatePassword, RevokeAllSessions and Update may write deleted rows;
\* nobody reads those again.
UpdatePassword(u, pw) == Change({u}, LAMBDA r : [r EXCEPT !.password = pw, !.revoked = now])

RevokeAllSessions(u) == Change({u}, LAMBDA r : [r EXCEPT !.revoked = now])

SetResetToken(u, id) == Change({u}, LAMBDA r : [r EXCEPT !.token = id, !.expires = now + TokenTTL])

\* Matches and consumes in one statement.
TokenMatches(u, id) == Live(u) /\ id # 0 /\ users[u].token = id /\ users[u].expires > now

ResetPasswordByToken(u, pw) ==
  Change({u}, LAMBDA r : [r EXCEPT !.password = pw, !.token = 0, !.expires = 0, !.revoked = now])

SetTOTP(u, key) ==
  Change({u}, LAMBDA r : [r EXCEPT !.secret = key, !.recovery = [i \in 1 .. Codes |-> i],
                                   !.totp = FALSE, !.counter = 0])

EnableTOTP(u) == Change({u}, LAMBDA r : [r EXCEPT !.totp = TRUE])

DisableTOTP(u) ==
  Change({u}, LAMBDA r : [r EXCEPT !.totp = FALSE, !.secret = 0, !.recovery = <<>>, !.counter = 0])

SetTOTPLastCounter(u, c) == Change({u}, LAMBDA r : [r EXCEPT !.counter = c])

SetTOTPRecoveryCodes(u, codes) == Change({u}, LAMBDA r : [r EXCEPT !.recovery = codes])

\* Mutant: the time of revocation is written back from the row that was read.
UpdateRow_WritesBack(r, read, role, pw) ==
  [r EXCEPT !.role = role, !.password = pw, !.revoked = read.revoked]

\* MySQL assigns from left to right: when session_revoked_at is computed,
\* password_hash is the new one already and the IF keeps the old time.
UpdateRow(r, read, role, pw) ==
  LET written == [r EXCEPT !.role = role, !.password = pw] IN
  [written EXCEPT !.revoked = IF written.password = pw THEN @ ELSE now]

Update(u, read, role, pw) == Change({u}, LAMBDA r : UpdateRow(r, read, role, pw))

CountAdmins == Cardinality({u \in User : Live(u) /\ users[u].role = "admin"})

-----------------------------------------------------------------------------
(* Requests                                                                *)

Idle == [at |-> "idle"]
At(p, op, place) == req[p].at = place /\ req[p].op = op

\* There is room for one more request, of these operations.
Open(p, ops) ==
  IF req[p] = Idle /\ made < menu.requests THEN ops \cap menu.ops ELSE {}

\* A request begins at a place; it has read no row yet.
Begin(p, op, place, by, on, arg) ==
  /\ made' = made + 1
  /\ req' = [req EXCEPT ![p] = [op |-> op, at |-> place, by |-> by, on |-> on, todo |-> on,
                                read |-> NoUser, arg |-> arg, id |-> Fresh + 1, outdated |-> {}]]

\* It goes on, or answers, without having written.
Continue(p, c) == req' = [req EXCEPT ![p] = c] /\ UNCHANGED <<users, stale, crossed>>

\* It has read the row of u.
Seen(c, u) == [c EXCEPT !.outdated = @ \ {u}]

\* It has written the rows S; all others that run have begun before that.
Wrote(p, S, c) ==
  /\ req' = [q \in Proc |->
       IF q = p THEN c
       ELSE IF req[q] = Idle THEN Idle ELSE [req[q] EXCEPT !.outdated = @ \cup S]]
  /\ stale' = stale \cup (S \cap req[p].outdated)
  /\ crossed' = (crossed \/ req[p].outdated # {})

\* middleware.Auth: the row is read for each request.
Accepted(s) ==
  /\ Live(s.user) /\ users[s.user].enabled
  /\ ~(users[s.user].revoked # 0 /\ s.iat < users[s.user].revoked)

SignedIn(u) == \E s \in sessions : s.user = u /\ Accepted(s)

Issue(u) == sessions' = sessions \cup {[user |-> u, iat |-> now]}

\* History of a statement that gives S a new password, or ends its sessions.
Older(S) == {s \in sessions : s.user \in S /\ s.iat < now}
Choose(S, pw) == chosen' = [u \in User |-> IF u \in S THEN pw ELSE chosen[u]]
=============================================================================
