------------------------------ MODULE UserAdmin ------------------------------
(***************************************************************************)
(* What administrators do to accounts: service/user_service.go, called by   *)
(* handler/user_handler.go.  The operator is read once, by middleware.Auth, *)
(* when the request begins; a batch checks its targets one by one and then *)
(* writes, in one statement or target by target.  Deleting or giving a new  *)
(* password to a single account is a batch of one.                         *)
(***************************************************************************)
EXTENDS UserTable

\* Auth and the test of the role, with which every handler begins.
AdminBegins(p, op, place, on, arg) ==
  /\ \E by \in User : /\ SignedIn(by) /\ users[by].role = "admin"
                      /\ Begin(p, op, place, by, on, arg)
  /\ UNCHANGED <<clockVars, users, signVars, histVars, stale, crossed>>

Single  == {{u} : u \in User}
Batches == {S \in SUBSET User : S # {} /\ Cardinality(S) <= MaxBatch}

CreateRequest(p) ==
  \E op \in Open(p, {"create"}), u \in Absent, role \in {"admin", "user"} :
    AdminBegins(p, op, "write", {u}, role)

UpdateRequest(p) ==
  \E op \in Open(p, {"update"}), u \in User, role \in {"keep", "admin", "user"}, pw \in {"keep", "new"} :
    AdminBegins(p, op, "read", {u}, [role |-> role, pw |-> pw])

\* One account, or a batch.
DeleteRequest(p) == \E op \in Open(p, {"delete"}), S \in Batches : AdminBegins(p, op, "check", S, 0)

ToggleRequest(p) ==
  \E op \in Open(p, {"disable", "enable"}), S \in Single : AdminBegins(p, op, "check", S, 0)

BatchToggleRequest(p) ==
  \E op \in Open(p, {"disable", "enable"}), S \in Batches : AdminBegins(p, op, "check", S, 0)

BatchResetPasswordRequest(p) ==
  \E op \in Open(p, {"resetpw"}), S \in Batches : AdminBegins(p, op, "check", S, 0)

ResetTokenRequest(p) == \E op \in Open(p, {"token"}), S \in Single : AdminBegins(p, op, "check", S, 0)

ForceRequest(p) ==
  \E op \in Open(p, {"force2fa", "unforce2fa"}), S \in Single : AdminBegins(p, op, "write", S, 0)

\* Turning it on for a batch looks all of them up first.
BatchForceRequest(p) ==
  \/ \E op \in Open(p, {"force2fa"}), S \in Batches : AdminBegins(p, op, "check", S, 0)
  \/ \E op \in Open(p, {"unforce2fa"}), S \in Batches : AdminBegins(p, op, "write", S, 0)

AdminRequest(p) ==
  \/ CreateRequest(p) \/ UpdateRequest(p) \/ DeleteRequest(p)
  \/ ToggleRequest(p) \/ BatchToggleRequest(p) \/ BatchResetPasswordRequest(p)
  \/ ResetTokenRequest(p) \/ ForceRequest(p) \/ BatchForceRequest(p)

-----------------------------------------------------------------------------

\* validateBatchTargets.  EnableUser alone may be about oneself.
MayOperate(c, t) ==
  /\ Live(t) /\ ~IsDefaultAdmin(t)
  /\ t # c.by \/ (c.op = "enable" /\ c.on = {t})
  /\ users[t].role = "admin" => IsDefaultAdmin(c.by)

MayTarget(c, t) ==
  CASE c.op = "force2fa" -> Live(t)
    [] c.op = "token"    -> Live(t) /\ ~IsDefaultAdmin(t)
    [] OTHER             -> MayOperate(c, t)

CheckTarget(p) ==
  LET c == req[p] IN
  /\ c.at = "check"
  /\ \E t \in c.todo :
       LET left == c.todo \ {t} IN
       IF ~MayTarget(c, t) THEN Continue(p, Idle)
       ELSE IF left = {} THEN Continue(p, Seen([c EXCEPT !.at = "write", !.todo = c.on], t))
       ELSE Continue(p, Seen([c EXCEPT !.todo = left], t))
  /\ UNCHANGED <<clockVars, signVars, made, histVars>>

\* Delete, BatchDelete, DisableUser, EnableUser, BatchDisable, BatchEnable.
WriteBatch(p) ==
  LET c == req[p] IN
  /\ \/ At(p, "delete", "write") /\ Delete(c.on)
     \/ At(p, "disable", "write") /\ SetEnabled(c.on, FALSE)
     \/ At(p, "enable", "write") /\ SetEnabled(c.on, TRUE)
  /\ Wrote(p, c.on, Idle)
  /\ UNCHANGED <<clockVars, signVars, made, histVars>>

\* A batch goes on with the targets that are left.
Rest(c, t, place) ==
  IF c.todo = {t} THEN Idle ELSE [c EXCEPT !.todo = @ \ {t}, !.at = place]

ResetPassword(p) ==
  LET c == req[p] IN
  /\ At(p, "resetpw", "write")
  /\ \E t \in c.todo :
       /\ UpdatePassword(t, c.id)
       /\ Choose({t}, c.id) /\ ended' = ended \cup Older({t})
       /\ Wrote(p, {t}, Rest(c, t, "write"))
  /\ UNCHANGED <<clockVars, signVars, made, reset>>

\* ForceEnable2FA reads the target, writes a new secret, and turns it on.
ForceRead(p) ==
  LET c == req[p] IN
  /\ c.at = "write" /\ c.op \in {"force2fa", "unforce2fa"}
  /\ \E t \in c.todo :
       Continue(p, IF Live(t)
                   THEN Seen([c EXCEPT !.arg = t, !.at = IF c.op = "force2fa" THEN "set" ELSE "off"], t)
                   ELSE Idle)
  /\ UNCHANGED <<clockVars, signVars, made, histVars>>

ForceWrite(p) ==
  LET c == req[p] t == c.arg IN
  /\ \/ /\ At(p, "force2fa", "set") /\ SetTOTP(t, c.id)
        /\ Wrote(p, {t}, [c EXCEPT !.at = "on"])
     \/ At(p, "force2fa", "on") /\ EnableTOTP(t) /\ Wrote(p, {t}, Rest(c, t, "write"))
     \/ At(p, "unforce2fa", "off") /\ DisableTOTP(t) /\ Wrote(p, {t}, Rest(c, t, "write"))
  /\ UNCHANGED <<clockVars, signVars, made, histVars>>

\* GenerateResetToken
WriteToken(p) ==
  LET c == req[p] IN
  /\ At(p, "token", "write")
  /\ \E t \in c.on : SetResetToken(t, c.id)
  /\ Wrote(p, c.on, Idle)
  /\ UNCHANGED <<clockVars, signVars, made, histVars>>

\* Refused when the name is taken.  (A deleted account keeps its row; a new one
\* of its name is one of the absent accounts here.)
Insert(p) ==
  LET c == req[p] IN
  /\ At(p, "create", "write")
  /\ \E u \in c.on :
       IF users[u].state # "none" THEN Continue(p, Idle) /\ UNCHANGED chosen
       ELSE /\ users' = [users EXCEPT ![u] = [NoUser EXCEPT !.state = "live", !.role = c.arg,
                                                            !.password = c.id]]
            /\ Choose({u}, c.id) /\ Wrote(p, {u}, Idle)
  /\ UNCHANGED <<clockVars, signVars, made, ended, reset>>

-----------------------------------------------------------------------------
(* Update: the row is read, and written back with what is to change.        *)

NextRole(c) == IF c.arg.role = "keep" THEN c.read.role ELSE c.arg.role
SetsPassword(c) == c.arg.pw = "new"

\* Mutant: the password of a request without one is not taken from the row.
NextHash_Forgets(c) == IF SetsPassword(c) THEN c.id ELSE 0

\* An empty password is none, too.
NextHash(c) == IF SetsPassword(c) THEN c.id ELSE c.read.password

\* Mutant: the role of the built-in account may be changed.
MayUpdate_BuiltIn(c, t) ==
  /\ t # c.by /\ Live(t)
  /\ IsDefaultAdmin(t) => ~SetsPassword(c)

MayUpdate(c, t) ==
  /\ t # c.by /\ Live(t)
  /\ IsDefaultAdmin(t) => c.arg.role # "user" /\ ~SetsPassword(c)

Demotes(c, t) == users[t].role = "admin" /\ c.arg.role = "user"

UpdateRead(p) ==
  LET c == req[p] IN
  /\ At(p, "update", "read")
  /\ \E t \in c.on :
       Continue(p, IF MayUpdate(c, t)
                   THEN Seen([c EXCEPT !.read = users[t],
                                       !.at = IF Demotes(c, t) THEN "count" ELSE "write"], t)
                   ELSE Idle)
  /\ UNCHANGED <<clockVars, signVars, made, histVars>>

UpdateCount(p) ==
  /\ At(p, "update", "count")
  /\ Continue(p, IF CountAdmins <= 1 THEN Idle ELSE [req[p] EXCEPT !.at = "write"])
  /\ UNCHANGED <<clockVars, signVars, made, histVars>>

UpdateWrite(p) ==
  LET c == req[p] IN
  /\ At(p, "update", "write")
  /\ \E t \in c.on : Update(t, c.read, NextRole(c), NextHash(c))
  /\ Wrote(p, c.on, Idle)
  /\ IF SetsPassword(c) THEN Choose(c.on, c.id) /\ reset' = reset \cup Older(c.on)
                        ELSE UNCHANGED <<chosen, reset>>
  /\ UNCHANGED <<clockVars, signVars, made, ended>>

AdminStep(p) ==
  \/ CheckTarget(p) \/ WriteBatch(p) \/ ResetPassword(p) \/ ForceRead(p) \/ ForceWrite(p)
  \/ WriteToken(p) \/ Insert(p) \/ UpdateRead(p) \/ UpdateCount(p) \/ UpdateWrite(p)
=============================================================================
