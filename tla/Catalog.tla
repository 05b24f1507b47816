------------------------------ MODULE Catalog ------------------------------
(***************************************************************************)
(* The shared pool of categories and the channels, templates and tasks      *)
(* that refer to it by name.  Nothing but the services keeps the two         *)
(* together: a writer of a row asks whether the category exists in one      *)
(* statement and writes the row in another, and the deletion of a category   *)
(* counts the rows in one and deletes in another.  Requests interleave      *)
(* between their statements; a statement can fail, and the process that      *)
(* serves the request can die.                                              *)
(***************************************************************************)
EXTENDS Naturals, FiniteSets, Sequences

CONSTANTS
  Proc,          \* requests that are served at one time
  Name,          \* names of categories
  Default,       \* the category "default"
  Title,         \* names of channels, templates and tasks
  Blank,         \* no category given; no key; no template
  FirstCats, FirstRows,  \* what there is at the start, besides "default"
  Menus,         \* bound: the operations requested, how many requests, and how
                 \* many rows are imported after a failed look-up
  MaxRows, MaxCats   \* bounds

ASSUME CatalogAssumption ==
  /\ Default \in Name /\ Blank \notin Name \cup Nat
  /\ {MaxRows, MaxCats} \subseteq Nat

VARIABLES
  cats,      \* the table categories: the name at each id, Blank once deleted
  rows,      \* channels, templates and tasks, at their ids
  req,       \* the requests being served
  menu, made,\* the operations requested, and how many requests so far
  bundle,    \* the backup file that administrators hold (module Backup)
  imports    \* history: how each import was started and has ended

vars == <<cats, rows, req, menu, made, bundle, imports>>

Kinds == {"channel", "template", "task"}
Idle  == [op |-> "idle"]

Pool == {cats[i] : i \in DOMAIN cats} \ {Blank}
Live(i) == rows[i].live

\* validateSharedCategory: no category means "default".
Normalized(c) == IF c = Blank THEN Default ELSE c

\* A request that may take a name from the pool while others write rows.
Removes(r) == r.op \in {"catdelete", "rename"}

\* A request with what the model notes of it.
With(r, notes) ==
  [f \in DOMAIN r \cup DOMAIN notes |-> IF f \in DOMAIN r THEN r[f] ELSE notes[f]]

\* A request overlaps the removal of a category: history, in its field met.
Overlaps(r, others) ==
  \E q \in others : q # Idle /\ Removes(q)

Begins(p, r) ==
  /\ req[p] = Idle /\ made < menu.requests /\ r.op \in menu.ops
  /\ made' = made + 1
  /\ req' = [q \in Proc |->
       CASE q = p -> With(r, [no |-> made + 1, met |-> Overlaps(r, {req[o] : o \in Proc \ {p}}),
                              alone |-> \A o \in Proc \ {p} : req[o] = Idle])
         [] q # p /\ req[q] = Idle -> Idle
         [] OTHER -> [req[q] EXCEPT !.met = @ \/ Removes(r), !.alone = FALSE]]
  /\ UNCHANGED <<cats, rows, menu, bundle, imports>>

Goes(p, at) == req' = [req EXCEPT ![p].at = at]
Ends(p)     == req' = [req EXCEPT ![p] = Idle]

-----------------------------------------------------------------------------
(* The pool: requests to CategoryHandler, each a few statements.           *)

CategoryRequests ==
  [op : {"catcreate"}, at : {"look"}, name : Name] \cup
  [op : {"catdelete"}, at : {"find"}, name : Name \ {Default}, id : {0}] \cup
  {r \in [op : {"rename"}, at : {"lookold"}, name : Name \ {Default}, to : Name \ {Default}] : r.name # r.to}

Exists(n) == n \in Pool

\* INSERT INTO categories: the name is unique.
InsertName(n) == Len(cats) < MaxCats /\ cats' = Append(cats, n)

Create(p) ==
  LET r == req[p] IN
  /\ r.op = "catcreate" /\ UNCHANGED rows
  /\ \/ r.at = "look" /\ ~Exists(r.name) /\ Goes(p, "insert") /\ UNCHANGED cats
     \/ r.at = "insert" /\ ~Exists(r.name) /\ InsertName(r.name) /\ Ends(p)
     \/ Exists(r.name) /\ Ends(p) /\ UNCHANGED cats

\* The rows that count as references to a category.
References(n) == {i \in DOMAIN rows : Live(i) /\ rows[i].cat = n}

\* From the name to the id, from the id to the name, the count, the deletion.
Delete(p) ==
  LET r == req[p] IN
  /\ r.op = "catdelete" /\ UNCHANGED rows
  /\ \/ /\ r.at = "find"
        /\ \/ \E i \in DOMAIN cats : cats[i] = r.name /\ req' = [req EXCEPT ![p].id = i, ![p].at = "read"]
           \/ ~Exists(r.name) /\ Ends(p)
        /\ UNCHANGED cats
     \/ /\ r.at = "read"
        /\ IF cats[r.id] = Blank THEN Ends(p)
           ELSE req' = [req EXCEPT ![p].name = cats[r.id], ![p].at = "count"]
        /\ UNCHANGED cats
     \/ /\ r.at = "count"
        /\ IF References(r.name) # {} THEN Ends(p) ELSE Goes(p, "remove")
        /\ UNCHANGED cats
     \/ /\ r.at = "remove" /\ cats' = [cats EXCEPT ![r.id] = Blank] /\ Ends(p)

\* The transaction of Rename: the rows first, then the pool, where a name that
\* is taken by now undoes all of it.
Renamed_ForgetsTasks(old, new, met) ==
  /\ ~(Exists(old) /\ Exists(new))
  /\ rows' = [i \in DOMAIN rows |->
       IF rows[i].cat = old /\ rows[i].kind # "task"
       THEN [rows[i] EXCEPT !.cat = new, !.sound = @ /\ ~met] ELSE rows[i]]
  /\ cats' = [i \in DOMAIN cats |-> IF cats[i] = old THEN new ELSE cats[i]]
Renamed(old, new, met) ==
  /\ ~(Exists(old) /\ Exists(new))
  /\ rows' = [i \in DOMAIN rows |->
       IF rows[i].cat = old THEN [rows[i] EXCEPT !.cat = new, !.sound = @ /\ ~met] ELSE rows[i]]
  /\ cats' = [i \in DOMAIN cats |-> IF cats[i] = old THEN new ELSE cats[i]]

Update(p) ==
  LET r == req[p] IN
  /\ r.op = "rename"
  /\ \/ /\ r.at = "lookold" /\ UNCHANGED <<cats, rows>>
        /\ IF Exists(r.name) THEN Goes(p, "looknew") ELSE Ends(p)
     \/ /\ r.at = "looknew" /\ UNCHANGED <<cats, rows>>
        /\ IF Exists(r.to) THEN Ends(p) ELSE Goes(p, "commit")
     \/ /\ r.at = "commit" /\ Ends(p)
        /\ Renamed(r.name, r.to, r.met) \/ (Exists(r.name) /\ Exists(r.to) /\ UNCHANGED <<cats, rows>>)

-----------------------------------------------------------------------------
(* The rows.  A row made by an import says by which, and for which row of   *)
(* the bundle, and blind if the look-up of its name has failed; sound is a  *)
(* history of the write that set its category.                             *)

NewRow(kind, title, cat) ==
  [kind |-> kind, title |-> title, cat |-> cat, live |-> TRUE, key |-> Blank,
   tpl |-> 0, chans |-> {}, sound |-> TRUE, by |-> 0, beside |-> FALSE, blind |-> FALSE,
   was |-> Blank]

Keys == {Blank} \cup (Nat \X Nat)

\* A row as a backup file holds it, and a row.
FileEntry ==
  [id : Nat, kind : Kinds, title : Title, cat : Name, key : Keys, tpl : Nat, chans : SUBSET Nat]
Row ==
  [kind : Kinds, title : Title, cat : Name, live : BOOLEAN, key : Keys, tpl : Nat,
   chans : SUBSET Nat, sound : BOOLEAN, by : Nat, beside : BOOLEAN, blind : BOOLEAN,
   was : FileEntry \cup {Blank}]

\* What there is at the start has been made by the services.
ASSUME FirstAssumption ==
  /\ FirstCats \in Seq(Name \ {Default}) /\ FirstRows \in Seq(Row)
  /\ \A i \in DOMAIN FirstRows :
       LET first == FirstRows[i]
           of(j, kind) == j \in DOMAIN FirstRows /\ FirstRows[j].kind = kind
       IN /\ first.by = 0
          /\ first.live => first.cat = Default \/ \E k \in DOMAIN FirstCats : FirstCats[k] = first.cat
          /\ first.kind = "task" => of(first.tpl, "template") /\ \A c \in first.chans : of(c, "channel")

Ids(kind) == {i \in DOMAIN rows : rows[i].kind = kind}

\* generateAPIKey: differs from all before it.
FreshKey(id, r) == <<id, r.no>>

\* What ChannelHandler, TemplateHandler and TaskHandler begin.  Fields of a row
\* that are not about categories and links are left out; a task is triggered by
\* cron, without a key, or through its URL, which holds its key.
RowRequests(kind) ==
  [op : {"update"}, at : {"read"}, kind : {kind}, cat : Name \cup {Blank}, id : Ids(kind),
   api : IF kind = "task" THEN BOOLEAN ELSE {FALSE}, key : {Blank}] \cup
  [op : {"delete"}, at : {"write"}, kind : {kind}, ids : SUBSET Ids(kind) \ {{}}] \cup
  [op : {"setcat"}, at : {"check"}, kind : {kind}, cat : Name \cup {Blank}, ids : SUBSET Ids(kind) \ {{}}]

Creates(kind, links) ==
  [op : {"create"}, at : {"check"}, kind : {kind}, cat : Name \cup {Blank}, title : Title, links : links]

ChannelRequests  == RowRequests("channel") \cup Creates("channel", {<<0, {}, FALSE>>})
TemplateRequests == RowRequests("template") \cup Creates("template", {<<0, {}, FALSE>>})
\* validate: a template and at least one channel.
TaskRequests ==
  RowRequests("task") \cup
  Creates("task", Ids("template") \X {{j} : j \in Ids("channel")} \X BOOLEAN)

Checks(p) ==
  LET r == req[p] IN
  /\ r.op \in {"create", "update", "setcat"} /\ r.at = "check"
  /\ IF Exists(Normalized(r.cat)) THEN Goes(p, "write") ELSE Ends(p)
  /\ UNCHANGED <<cats, rows>>

InsertRow(p) ==
  LET r == req[p]  id == Len(rows) + 1 IN
  /\ r.op = "create" /\ r.at = "write" /\ Len(rows) < MaxRows
  /\ rows' = Append(rows,
       [NewRow(r.kind, r.title, Normalized(r.cat)) EXCEPT
          !.tpl = r.links[1], !.chans = r.links[2],
          !.key = IF r.links[3] THEN FreshKey(id, r) ELSE Blank, !.sound = ~r.met])
  /\ Ends(p) /\ UNCHANGED cats

\* Update reads the row that it is about, and keeps the key that it has read
\* if the task stays one that is triggered through its URL.
UpdateRead(p) ==
  LET r == req[p] IN
  /\ r.op = "update" /\ r.at = "read"
  /\ IF Live(r.id) THEN req' = [req EXCEPT ![p].key = rows[r.id].key, ![p].at = "check"] ELSE Ends(p)
  /\ UNCHANGED <<cats, rows>>

KeyOf(r) ==
  IF ~r.api THEN Blank ELSE IF r.key = Blank THEN FreshKey(r.id, r) ELSE r.key

\* A key that another row holds, even a deleted one, fails the statement.
KeyTaken(id, key) == key # Blank /\ \E i \in DOMAIN rows \ {id} : rows[i].key = key

UpdateWrite(p) ==
  LET r == req[p] IN
  /\ r.op = "update" /\ r.at = "write"
  /\ rows' = IF KeyTaken(r.id, KeyOf(r)) THEN rows
             ELSE [rows EXCEPT ![r.id].cat = Normalized(r.cat), ![r.id].key = KeyOf(r),
                               ![r.id].sound = ~r.met]
  /\ Ends(p) /\ UNCHANGED cats

\* Delete and BatchDelete; BatchSetCategory.
WriteRows(S, Written(_)) ==
  rows' = [i \in DOMAIN rows |-> IF i \in S /\ Live(i) THEN Written(rows[i]) ELSE rows[i]]

BatchDelete(p) ==
  LET r == req[p] IN
  /\ r.op = "delete" /\ WriteRows(r.ids, LAMBDA x : [x EXCEPT !.live = FALSE])
  /\ Ends(p) /\ UNCHANGED cats

BatchSetCategory(p) ==
  LET r == req[p] IN
  /\ r.op = "setcat" /\ r.at = "write"
  /\ WriteRows(r.ids, LAMBDA x : [x EXCEPT !.cat = Normalized(r.cat), !.sound = ~r.met])
  /\ Ends(p) /\ UNCHANGED cats

CatalogRequests == CategoryRequests \cup ChannelRequests \cup TemplateRequests \cup TaskRequests

CatalogStep(p) ==
  /\ \/ Create(p) \/ Delete(p) \/ Update(p)
     \/ Checks(p) \/ InsertRow(p) \/ UpdateRead(p) \/ UpdateWrite(p)
     \/ BatchDelete(p) \/ BatchSetCategory(p)
  /\ UNCHANGED <<menu, made, bundle, imports>>
=============================================================================
