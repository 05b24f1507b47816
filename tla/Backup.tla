------------------------------- MODULE Backup -------------------------------
(***************************************************************************)
(* Export and import of channels, templates and tasks (export_service.go),   *)
(* beside the requests of module Catalog.  An import is a long sequence of   *)
(* statements with no transaction around it: what it has made stays when a   *)
(* later statement fails.                                                    *)
(***************************************************************************)
EXTENDS Catalog

\* A row as the file holds it.
Entry(i) == [id |-> i, kind |-> rows[i].kind, title |-> rows[i].title, cat |-> rows[i].cat,
             key |-> rows[i].key, tpl |-> rows[i].tpl, chans |-> rows[i].chans]

\* List: the rows that are not deleted, by id.
Entries(kind) ==
  LET shown == {i \in Ids(kind) : Live(i)}
      nth[n \in 0 .. Len(rows)] ==     \* the entries among the first n rows
        IF n = 0 THEN <<>> ELSE IF n \in shown THEN Append(nth[n - 1], Entry(n)) ELSE nth[n - 1]
  IN nth[Len(rows)]

-----------------------------------------------------------------------------
(* Export: three readings, one after another.                              *)

Export(p) ==
  LET r == req[p] IN
  /\ r.op = "export"
  /\ \/ /\ r.at = "channel"
        /\ req' = [req EXCEPT ![p].file = Entries("channel"), ![p].at = "template"]
        /\ UNCHANGED bundle
     \/ /\ r.at = "template"
        /\ req' = [req EXCEPT ![p].file = @ \o Entries("template"), ![p].at = "task"]
        /\ UNCHANGED bundle
     \/ /\ r.at = "task" /\ bundle' = r.file \o Entries("task") /\ Ends(p)
  /\ UNCHANGED <<cats, rows, imports>>

-----------------------------------------------------------------------------
(* Import: the names of categories, then entry after entry.  map has a pair *)
(* of the id in the file and the id here for each channel and template made. *)

\* History: the file could be restored in full when the import began, since it
\* has what its tasks need, and no name twice or taken here.
Restorable(file) ==
  LET e == {file[i] : i \in DOMAIN file}
      ids(kind) == {x.id : x \in {y \in e : y.kind = kind}}
  IN /\ \A x \in e, i \in DOMAIN rows : ~(Live(i) /\ rows[i].kind = x.kind /\ rows[i].title = x.title)
     /\ \A x, y \in e : x.kind = y.kind /\ x.title = y.title => x = y
     /\ \A x \in e : x.kind = "task" => x.tpl \in ids("template") /\ x.chans \cap ids("channel") # {}

BackupRequests ==
  {[op |-> "export", at |-> "channel", file |-> <<>>],
   [op |-> "import", at |-> "ensure", names |-> {bundle[i].cat : i \in DOMAIN bundle} \ {Blank},
    file |-> bundle, todo |-> bundle, map |-> {}, failed |-> FALSE, can |-> Restorable(bundle),
    blind |-> FALSE, beside |-> \E q \in Proc : req[q].op = "import"]}

\* EnsureExists: looked up, then INSERT IGNORE.
Ensure(p) ==
  LET r == req[p] IN
  /\ r.op = "import" /\ r.at = "ensure"
  /\ \/ r.names = {} /\ Goes(p, "look") /\ UNCHANGED cats
     \/ \E n \in r.names :
          /\ req' = [req EXCEPT ![p].names = @ \ {n}]
          /\ IF Exists(n) THEN UNCHANGED cats ELSE InsertName(n)
  /\ UNCHANGED <<rows, bundle, imports>>

\* What nameExists counts: the name is that of a row that is not deleted.
Conflicts_AlsoDeleted(e)   == \E i \in Ids(e.kind) : rows[i].title = e.title
Conflicts_NotTemplates(e) == \E i \in Ids(e.kind) : e.kind # "template" /\ Live(i) /\ rows[i].title = e.title
Conflicts(e) == \E i \in Ids(e.kind) : Live(i) /\ rows[i].title = e.title

Mapped(map, id) == \E m \in map : m[1] = id

RemapID_OldId(map, id) == IF Mapped(map, id) THEN (CHOOSE m \in map : m[1] = id)[2] ELSE id
RemapID(map, id) == IF Mapped(map, id) THEN (CHOOSE m \in map : m[1] = id)[2] ELSE 0

Channels(map, e) == {RemapID(map, c) : c \in e.chans} \ {0}

\* What nameExists answers: it drops the error of a count that fails, and
\* the name passes for free.  Bound: so many rows come of that.
Answers(e) ==
  {taken \in {Conflicts(e), FALSE} :
     taken = Conflicts(e) \/ Cardinality({i \in DOMAIN rows : rows[i].blind}) < menu.slips}

\* An entry is left out: its name is taken, as far as the import has heard, or
\* none of its channels was made.
NoChannel(r, e)      == e.kind = "task" /\ Channels(r.map, e) = {}
Skipped(r, e, taken) == taken \/ NoChannel(r, e)

\* validate: a task needs a template.
Refused(r, e) == e.kind = "task" /\ RemapID(r.map, e.tpl) = 0

\* Import does not hand the category of a template on.
CategoryOf(e) == IF e.kind = "template" THEN Default ELSE Normalized(e.cat)

ImportEnds(p, how) ==
  LET r == req[p] IN
  /\ imports' = imports \cup
       {[no |-> r.no, how |-> how, file |-> r.file, can |-> r.can, undisturbed |-> r.alone /\ ~r.failed]}
  /\ Ends(p)

\* What comes before the row is written; the entry goes on blind, which the
\* model notes, if its name is taken and the look-up has failed.
Look(p) ==
  LET r == req[p]  e == Head(r.todo) IN
  /\ r.op = "import" /\ r.at = "look"
  /\ \/ r.todo = <<>> /\ ImportEnds(p, "done")
     \/ /\ r.todo # <<>>
        /\ \E taken \in Answers(e) :
             \/ /\ Skipped(r, e, taken)
                /\ req' = [req EXCEPT ![p].todo = Tail(@)] /\ UNCHANGED imports
             \/ /\ ~Skipped(r, e, taken) /\ (Refused(r, e) \/ ~Exists(CategoryOf(e)))
                /\ ImportEnds(p, "failed")
             \/ /\ ~Skipped(r, e, taken) /\ ~Refused(r, e) /\ Exists(CategoryOf(e))
                /\ req' = [req EXCEPT ![p].at = "insert", ![p].blind = taken # Conflicts(e)]
                /\ UNCHANGED imports
  /\ UNCHANGED <<cats, rows, bundle>>

\* The row, with a key of its own if it is triggered through its URL.
ImportRow(p) ==
  LET r == req[p]  e == Head(r.todo)  id == Len(rows) + 1 IN
  /\ r.op = "import" /\ r.at = "insert" /\ Len(rows) < MaxRows
  /\ rows' = Append(rows,
       [NewRow(e.kind, e.title, CategoryOf(e)) EXCEPT
          !.tpl = IF e.kind = "task" THEN RemapID(r.map, e.tpl) ELSE 0, !.chans = Channels(r.map, e),
          !.key = IF e.key = Blank THEN Blank ELSE FreshKey(id, r),
          !.sound = ~r.met, !.by = r.no, !.beside = r.beside,
          !.blind = r.blind, !.was = e])
  /\ req' = [req EXCEPT ![p].map = IF e.kind = "task" THEN @ ELSE @ \cup {<<e.id, id>>},
                        ![p].todo = IF e.key = Blank THEN Tail(@) ELSE @,
                        ![p].at = IF e.key = Blank THEN "look" ELSE "key"]
  /\ UNCHANGED <<cats, bundle, imports>>

\* SetAPIKey, and the secret that goes with it: the key the task had in the
\* file, unless another row holds it; the import goes on either way.
KeepKey(p) ==
  LET r == req[p]  e == Head(r.todo)  id == CHOOSE i \in DOMAIN rows : rows[i].by = r.no /\ rows[i].was = e IN
  /\ r.op = "import" /\ r.at = "key"
  /\ rows' = IF KeyTaken(id, e.key) THEN rows ELSE [rows EXCEPT ![id].key = e.key]
  /\ req' = [req EXCEPT ![p].todo = Tail(@), ![p].at = "look"]
  /\ UNCHANGED <<cats, bundle, imports>>

\* The statement of KeepKey fails, which the summary reports.
KeyIsLost(p) ==
  /\ req[p].op = "import" /\ req[p].at = "key"
  /\ req' = [req EXCEPT ![p].todo = Tail(@), ![p].at = "look", ![p].failed = TRUE]
  /\ UNCHANGED <<cats, rows, bundle, imports>>

\* A statement whose error the code returns (any but the look-up of a name and
\* KeepKey's) fails, and the request with it; or the process dies.  What an
\* import has made until then stays.
EndsEarly(p) == req[p] # Idle /\ Ends(p) /\ UNCHANGED <<cats, rows, bundle, imports>>

BackupStep(p) ==
  /\ \/ Export(p) \/ Ensure(p) \/ Look(p) \/ ImportRow(p) \/ KeepKey(p) \/ KeyIsLost(p) \/ EndsEarly(p)
  /\ UNCHANGED <<menu, made>>

-----------------------------------------------------------------------------

\* The file was written before, from the rows there are.
Init ==
  /\ cats = <<Default>> \o FirstCats /\ rows = FirstRows
  /\ req = [p \in Proc |-> Idle] /\ menu \in Menus /\ made = 0 /\ imports = {}
  /\ bundle = Entries("channel") \o Entries("template") \o Entries("task")

Next ==
  \E p \in Proc :
    \/ \E r \in {q \in CatalogRequests \cup BackupRequests : q.op \in menu.ops} : Begins(p, r)
    \/ CatalogStep(p) \/ BackupStep(p)

Spec == Init /\ [][Next]_vars

-----------------------------------------------------------------------------

\* The category of every row that is not deleted is in the pool, unless the
\* write that set it overlapped a request to rename or to delete a category:
\* the writer looks the category up before, and the deletion counts the rows
\* before.
CategoryKnown == \A i \in DOMAIN rows : Live(i) /\ rows[i].sound => rows[i].cat \in Pool

\* What an import makes is tied together as it was in the file, and to nothing
\* that was here before, whatever ids the rows here have.
LinksOwn ==
  \A i \in DOMAIN rows : rows[i].kind = "task" /\ rows[i].by # 0 =>
    LET from(j) == rows[j].by = rows[i].by /\ rows[j].kind # "task"
    IN /\ from(rows[i].tpl) /\ rows[rows[i].tpl].kind = "template"
       /\ rows[rows[i].tpl].was.id = rows[i].was.tpl
       /\ rows[i].chans # {}
       /\ \A j \in rows[i].chans :
            from(j) /\ rows[j].kind = "channel" /\ rows[j].was.id \in rows[i].was.chans

\* Imports add no row a second time, unless one begins during another, or the
\* look-up of the name failed for the later row: nothing but the look-up keeps
\* names apart.
NoDoubleImport ==
  \A i, j \in DOMAIN rows :
    /\ i < j /\ Live(i) /\ Live(j) /\ rows[i].by # 0 /\ rows[j].by # 0
    /\ rows[i].kind = rows[j].kind /\ rows[i].title = rows[j].title
    => rows[i].beside \/ rows[j].beside \/ rows[j].blind

\* An import of a complete file into a system without conflicting names, with
\* nobody else at work, ends well and makes a row for every entry of the file
\* (without the category of a template: CategoryOf).
Restores ==
  \A m \in imports : m.can /\ m.undisturbed =>
    m.how = "done" /\ \A k \in DOMAIN m.file : \E i \in DOMAIN rows : rows[i].by = m.no /\ rows[i].was = m.file[k]

=============================================================================
