----------------------------- MODULE MCBackup -----------------------------
EXTENDS Backup, TLC

CONSTANTS default, c, d, x, blank, p1, p2

Times(n, ops) == [ops |-> ops, requests |-> n, slips |-> 0]

\* A channel, a template and a task that is triggered through its URL.
MCRows == <<
  NewRow("channel", x, c),
  NewRow("template", x, c),
  [NewRow("task", x, default) EXCEPT !.tpl = 2, !.chans = {1}, !.key = <<3, 0>>] >>

MCCats == <<c>>

MCMenus == {
  Times(3, {"catcreate", "catdelete", "rename"}), Times(3, {"catdelete", "create"}),
  Times(3, {"rename", "create"}),
  Times(3, {"rename", "setcat"}), Times(3, {"catdelete", "delete", "setcat"}), Times(2, {"rename", "update"}),
  Times(3, {"catdelete", "update"}),
  Times(4, {"delete", "import"}), Times(3, {"catdelete", "import", "delete"}), Times(2, {"rename", "import"}), [Times(3, {"delete", "import"}) EXCEPT !.slips = 1],
  Times(4, {"delete", "export", "import"}) }

Workers == Permutations(Proc)
===========================================================================
