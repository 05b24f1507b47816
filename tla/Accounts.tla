------------------------------ MODULE Accounts ------------------------------
(***************************************************************************)
(* Accounts, sessions and two-factor authentication: requests of           *)
(* administrators (UserAdmin) and of users (SignIn) run side by side and    *)
(* interleave between their statements.  A request may also end early, at  *)
(* any place: a statement fails, or the process is killed.                 *)
(***************************************************************************)
EXTENDS UserAdmin, SignIn

FirstKey == MaxRequests + 2

Account(u) ==
  IF u \in Absent THEN NoUser
  ELSE [NoUser EXCEPT
          !.state = "live", !.role = IF u \in Admins THEN "admin" ELSE "user",
          !.password = 1, !.totp = u \in TwoFactor,
          !.secret = IF u \in TwoFactor THEN FirstKey ELSE 0,
          !.recovery = IF u \in TwoFactor THEN [i \in 1 .. Codes |-> i] ELSE <<>>]

\* Everybody has signed in a while ago; BootstrapAdmin made Root, under the
\* name "admin" or under another that the configuration gives.
Init ==
  /\ now = 2 /\ named \in BOOLEAN /\ menu \in Menus
  /\ users = [u \in User |-> Account(u)]
  /\ sessions = [user : User \ Absent, iat : {1}]
  /\ pending = TwoFactor
  /\ req = [p \in Proc |-> Idle] /\ made = 0
  /\ chosen = [u \in User |-> IF u \in Absent THEN 0 ELSE 1]
  /\ ended = {} /\ reset = {} /\ spent = {} /\ reused = {} /\ stale = {} /\ crossed = FALSE

EndsEarly(p) ==
  /\ req[p] # Idle
  /\ Continue(p, Idle)
  /\ UNCHANGED <<clockVars, signVars, made, histVars>>

Tick ==
  /\ now < Horizon /\ now' = now + 1
  /\ UNCHANGED <<named, menu, users, signVars, req, made, histVars, stale, crossed>>

Next ==
  \/ Tick
  \/ \E p \in Proc : \/ AdminRequest(p) \/ AdminStep(p)
                     \/ PublicRequest(p) \/ OwnRequest(p) \/ SelfStep(p)
                     \/ EndsEarly(p)

Spec == Init /\ [][Next]_vars

-----------------------------------------------------------------------------

\* There is always an administrator who can sign in: without exception where
\* the built-in account is named "admin", which nobody may demote, disable or
\* delete; otherwise as long as no two requests overlap, since an
\* administrator cannot demote, disable or delete themselves, and is one still
\* when they demote another.  (Two that do overlap may each count the other:
\* the count is a statement of its own.)
AdminRemains ==
  (named \/ ~crossed) => \E u \in User : Live(u) /\ users[u].enabled /\ users[u].role = "admin"

\* The password of an account is the one last chosen for it, unless a request
\* wrote the row that it had read before another wrote it: Update writes back
\* the hash it has read, and would undo a change of password in between.
LastChoiceHolds == \A u \in User : Live(u) /\ u \notin stale => users[u].password = chosen[u]

\* A code, or a recovery code, completes one login, unless two logins of the
\* user overlap: each matches the code in a row read before the other has
\* written that it is spent.
OneLoginPerCode == reused \subseteq stale

\* A session that a logout or a change of password has ended stays ended,
\* whatever is written to the row afterwards, from however old a reading.
EndedStaysEnded == \A s \in ended : ~Accepted(s)

\* user_repo.go, comment of Update: when the password changes, older tokens
\* cease to be accepted.
ResetEndsSessions == \A s \in reset : ~Accepted(s)

TypeOK ==
  /\ users \in [User -> [state : {"none", "live", "deleted"}, enabled : BOOLEAN,
                         role : {"admin", "user"}, password : 0 .. MaxRequests + 1,
                         revoked : 0 .. Horizon, token : 0 .. MaxRequests + 1,
                         expires : 0 .. Horizon + TokenTTL, totp : BOOLEAN,
                         secret : 0 .. FirstKey, counter : 0 .. Horizon + 1,
                         recovery : Seq(1 .. Codes)]]
  /\ sessions \subseteq [user : User, iat : 1 .. Horizon]
  /\ ended \cup reset \subseteq sessions
  /\ pending \cup reused \cup stale \subseteq User
=============================================================================
