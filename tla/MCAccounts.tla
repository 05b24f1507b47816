---------------------------- MODULE MCAccounts ----------------------------
EXTENDS Accounts

CONSTANTS boss, ann, ben, new, p1, p2

Twice(ops)  == [ops |-> ops, requests |-> 2]
Thrice(ops) == [ops |-> ops, requests |-> 3]

MCMenus == {
  Twice({"update", "delete"}), Twice({"update", "disable", "enable"}),
  Twice({"update", "changepw", "logout"}), Twice({"resetpw", "cli"}),
  Thrice({"token", "forgot", "cli"}), Thrice({"login", "changepw"}), Thrice({"verify", "logout"}),
  Thrice({"setup", "enable2fa"}), Twice({"force2fa", "unforce2fa", "disable2fa"}),
  Thrice({"create", "login"}) }

\* One administrator gives a user a new password.
ResetMenus == {Twice({"update"})}

Workers == Permutations(Proc)
===========================================================================
