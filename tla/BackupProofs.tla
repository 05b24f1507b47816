----------------------------- MODULE BackupProofs -----------------------------
(***************************************************************************)
(* Theorems about Backup and the requests of Catalog beside it, for any     *)
(* number of requests at a time, categories, rows and entries of a file.    *)
(*                                                                         *)
(* Four invariants beside the types: what a request may know of the pool    *)
(* of categories (CategoryInv), what the rows, files and maps of imports    *)
(* refer to (LinksInv), which names are free for the import that goes to    *)
(* insert them (NameFree), and what an import that nobody disturbs has      *)
(* done so far (UndisturbedInv).                                           *)
(***************************************************************************)
EXTENDS Backup, SequenceTheorems, WellFoundedInduction, TLAPS

-----------------------------------------------------------------------------
(* Types: a request is a record of its kind, with the model's notes.       *)

CatCreateType ==
  [op : {"catcreate"}, at : {"look", "insert"}, name : Name,
   no : Nat, met : BOOLEAN, alone : BOOLEAN]
CatDeleteType ==
  [op : {"catdelete"}, at : {"find", "read", "count", "remove"}, name : Name, id : Nat,
   no : Nat, met : BOOLEAN, alone : BOOLEAN]
RenameType ==
  [op : {"rename"}, at : {"lookold", "looknew", "commit"}, name : Name \ {Default}, to : Name \ {Default},
   no : Nat, met : BOOLEAN, alone : BOOLEAN]
CreateType ==
  [op : {"create"}, at : {"check", "write"}, kind : Kinds, cat : Name \cup {Blank}, title : Title,
   links : Nat \X (SUBSET Nat) \X BOOLEAN,
   no : Nat, met : BOOLEAN, alone : BOOLEAN]
UpdateType ==
  [op : {"update"}, at : {"read", "check", "write"}, kind : Kinds, cat : Name \cup {Blank}, id : Nat,
   api : BOOLEAN, key : Keys,
   no : Nat, met : BOOLEAN, alone : BOOLEAN]
DeleteType ==
  [op : {"delete"}, at : {"write"}, kind : Kinds, ids : SUBSET Nat,
   no : Nat, met : BOOLEAN, alone : BOOLEAN]
SetCatType ==
  [op : {"setcat"}, at : {"check", "write"}, kind : Kinds, cat : Name \cup {Blank}, ids : SUBSET Nat,
   no : Nat, met : BOOLEAN, alone : BOOLEAN]
ExportType ==
  [op : {"export"}, at : {"channel", "template", "task"}, file : Seq(FileEntry),
   no : Nat, met : BOOLEAN, alone : BOOLEAN]
ImportType ==
  [op : {"import"}, at : {"ensure", "look", "insert", "key"}, names : SUBSET Name,
   file : Seq(FileEntry), todo : Seq(FileEntry), map : SUBSET (Nat \X Nat),
   failed : BOOLEAN, can : BOOLEAN, blind : BOOLEAN, beside : BOOLEAN,
   no : Nat, met : BOOLEAN, alone : BOOLEAN]

Request ==
  {Idle} \cup CatCreateType \cup CatDeleteType \cup RenameType \cup CreateType \cup UpdateType
    \cup DeleteType \cup SetCatType \cup ExportType \cup ImportType

Import(p) == req[p].op = "import"

\* How an import has ended.
Outcome ==
  [no : Nat, how : {"done", "failed"}, file : Seq(FileEntry), can : BOOLEAN, undisturbed : BOOLEAN]

\* What a request refers to is there.
Refers(p) ==
  /\ Import(p) /\ req[p].at \in {"insert", "key"} => req[p].todo # <<>>
  /\ req[p].op = "catdelete" /\ req[p].at # "find" => req[p].id \in DOMAIN cats
  /\ req[p].op = "update" => req[p].id \in DOMAIN rows

TypeOK ==
  /\ cats \in Seq(Name \cup {Blank})
  /\ rows \in Seq(Row)
  /\ req \in [Proc -> Request]
  /\ made \in Nat
  /\ bundle \in Seq(FileEntry)
  /\ imports \subseteq Outcome
  /\ \A p \in Proc : Refers(p)

-----------------------------------------------------------------------------
(* Who is served beside whom.                                              *)

\* A request knows of a removal that is served beside it; of two imports at
\* once the later one knows; a request that is alone is.
Beside ==
  \A p, q \in Proc : p # q /\ req[p] # Idle /\ req[q] # Idle =>
    /\ Removes(req[q]) => req[p].met
    /\ Import(p) /\ Import(q) => req[p].beside \/ req[q].beside
    /\ ~req[p].alone

-----------------------------------------------------------------------------
(* Categories                                                              *)

\* A writer has looked its category up, and nobody has taken it away since.
Writes(r) == r.op \in {"create", "update", "setcat"} /\ r.at = "write"

LookedUp(p) ==
  req[p] # Idle /\ ~req[p].met =>
    /\ Writes(req[p]) => Normalized(req[p].cat) \in Pool
    /\ Import(p) /\ req[p].at = "insert" => CategoryOf(Head(req[p].todo)) \in Pool

Looked == \A p \in Proc : LookedUp(p)

\* No row relies on the category that is being deleted.
Unused(id) == \A i \in DOMAIN rows : Live(i) /\ rows[i].sound => rows[i].cat # cats[id]

DeletesUnused(p) ==
  req[p].op = "catdelete" =>
    /\ req[p].at = "count" => cats[req[p].id] = req[p].name \/ Unused(req[p].id)
    /\ req[p].at = "remove" => Unused(req[p].id)

Deletes == \A p \in Proc : DeletesUnused(p)

CategoryInv == TypeOK /\ Beside /\ Looked /\ Deletes /\ CategoryKnown

-----------------------------------------------------------------------------
(* Links: what the operators below say of the rows R stays true of more rows. *)

\* What a row refers to.
Linked(R, kind, tpl, chans) ==
  kind = "task" =>
    /\ tpl \in DOMAIN R /\ R[tpl].kind = "template"
    /\ \A c \in chans : c \in DOMAIN R /\ R[c].kind = "channel"

\* A row of a file is a row here, or was, and it refers to such rows.
FileOK(R, file) ==
  \A k \in DOMAIN file :
    /\ file[k].id \in DOMAIN R /\ R[file[k].id].kind = file[k].kind
    /\ Linked(R, file[k].kind, file[k].tpl, file[k].chans)

\* What the import numbered no has made of what.
MapOK(R, map, no) ==
  \A m \in map :
    /\ m[1] \in DOMAIN R /\ m[2] \in DOMAIN R
    /\ R[m[1]].kind = R[m[2]].kind /\ R[m[2]].kind # "task"
    /\ R[m[2]].by = no /\ R[m[2]].was.id = m[1]

\* What a request holds refers to rows.
Ties(R, r) ==
  /\ r.op = "create" => Linked(R, r.kind, r.links[1], r.links[2])
  /\ r.op \in {"export", "import"} => FileOK(R, r.file)
  /\ r.op = "import" => FileOK(R, r.todo) /\ MapOK(R, r.map, r.no) /\ r.no # 0
  /\ r.op = "import" /\ r.at = "insert" => ~Refused(r, Head(r.todo))
       /\ (Head(r.todo).kind = "task" => Channels(r.map, Head(r.todo)) # {})

RowsLinked == \A i \in DOMAIN rows : Linked(rows, rows[i].kind, rows[i].tpl, rows[i].chans)

LinksInv ==
  /\ RowsLinked
  /\ LinksOwn
  /\ FileOK(rows, bundle)
  /\ \A p \in Proc : Ties(rows, req[p])

-----------------------------------------------------------------------------
(* Imports                                                                 *)

SameName(x, e) == x.kind = e.kind /\ x.title = e.title

\* An import has looked for the name that it writes, or its look-up has failed.
NameFree ==
  \A p \in Proc : Import(p) /\ req[p].at = "insert" /\ ~req[p].beside /\ ~req[p].blind =>
    \A i \in DOMAIN rows :
      Live(i) /\ rows[i].by # 0 /\ SameName(rows[i], Head(req[p].todo)) => rows[i].beside

-----------------------------------------------------------------------------
(* Restoring                                                               *)

\* Tasks come last in a file.
TasksLast(file) ==
  \A j, k \in DOMAIN file : j < k /\ file[j].kind = "task" => file[k].kind = "task"

\* The row that the import numbered no has made of an entry.
MadeOf(R, no, e) == \E i \in DOMAIN R : R[i].by = no /\ R[i].was = e

\* What a complete file has.
Complete(file) ==
  /\ \A j, k \in DOMAIN file : SameName(file[j], file[k]) => file[j] = file[k]
  /\ \A k \in DOMAIN file : file[k].kind = "task" =>
       /\ \E j \in DOMAIN file : file[j].kind = "template" /\ file[j].id = file[k].tpl
       /\ \E j \in DOMAIN file : file[j].kind = "channel" /\ file[j].id \in file[k].chans

\* A row that an undisturbed import has made, and knows of.
OwnRow(R, r, i) ==
  /\ \E k \in DOMAIN r.file : R[i].was = r.file[k]
  /\ SameName(R[i], R[i].was)
  /\ R[i].kind # "task" => <<R[i].was.id, i>> \in r.map

\* The import r is through with the first n entries.
Through(R, r, n) ==
  /\ n \in 0 .. Len(r.file)
  /\ r.todo = SubSeq(r.file, n + 1, Len(r.file))
  /\ \A k \in 1 .. n : MadeOf(R, r.no, r.file[k])
  /\ r.at = "ensure" => n = 0

\* An import that nothing has disturbed so far: the names in its file are only
\* on rows that it has made, it has made what it is through with, and knows it.
Undisturbed(R, C, r) ==
  /\ Complete(r.file)
  /\ \A i \in DOMAIN R : R[i].by = r.no => OwnRow(R, r, i)
  /\ \A i \in DOMAIN R, k \in DOMAIN r.file : R[i].live /\ SameName(R[i], r.file[k]) => R[i].by = r.no
  /\ \E n \in 0 .. Len(r.file) : Through(R, r, n)
  /\ r.at = "key" => MadeOf(R, r.no, Head(r.todo))
  /\ \A k \in DOMAIN r.file : r.file[k].cat \in C \/ (r.at = "ensure" /\ r.file[k].cat \in r.names)

\* What a request knows of tasks and of its number.
Ordered(r, n) ==
  /\ r # Idle => r.no \in 1 .. n
  /\ r.op = "export" => r.at = "channel" \/ \A k \in DOMAIN r.file : r.file[k].kind # "task"
  /\ r.op = "import" => TasksLast(r.file)

OrderInv ==
  /\ TasksLast(bundle)
  /\ \A i \in DOMAIN rows : rows[i].by <= made
  /\ \A p \in Proc : Ordered(req[p], made)

\* Nobody deletes or renames the first category.
KeepsDefault(r) ==
  r.op = "catdelete" => IF r.at = "find" THEN r.name # Default ELSE r.id # 1

DefaultInv ==
  /\ 1 \in DOMAIN cats /\ cats[1] = Default
  /\ \A p \in Proc : KeepsDefault(req[p])

UndisturbedInv ==
  \A p \in Proc : Import(p) /\ req[p].can /\ req[p].alone /\ ~req[p].failed =>
    Undisturbed(rows, Pool, req[p])

-----------------------------------------------------------------------------
(* What a file holds                                                       *)

\* Every set of naturals that is not empty has a least element.
LEMMA Least ==
  ASSUME NEW T, T \subseteq Nat, T # {}
  PROVE  \E n \in T : \A m \in T : n <= m
<1>1. PICK n \in T : \A m \in T : <<m, n>> \notin OpToRel(<, Nat)
  BY NatLessThanWellFounded, WFMin
<1>2. \A m \in T : m \in Nat /\ n \in Nat /\ ~(m < n)
  BY <1>1 DEF OpToRel
<1> QED
  BY <1>2

\* The entries of a file are those of rows: its recursive definition names a
\* function, and that function has them in its range.
LEMMA EntriesOf ==
  ASSUME rows \in Seq(Row), NEW kind
  PROVE  Entries(kind) \in Seq({Entry(i) : i \in {j \in Ids(kind) : Live(j)}})
<1> DEFINE shown == {j \in Ids(kind) : Live(j)}
           S == Seq({Entry(i) : i \in shown})
           Next1(f, n) == IF n = 0 THEN <<>>
                         ELSE IF n \in shown THEN Append(f[n - 1], Entry(n)) ELSE f[n - 1]
           Has(n, f) == f = [k \in 0 .. n |-> Next1(f, k)]
           F == CHOOSE f : Has(Len(rows), f)
<1>0. Len(rows) \in Nat
  OBVIOUS
<1>1. Entries(kind) = F[Len(rows)]
  BY DEF Entries
<1> HIDE DEF shown
<1>2. \A n \in Nat : \E f : Has(n, f)
  <2> DEFINE T == {n \in Nat : ~ \E f : Has(n, f)}
  <2>1. SUFFICES ASSUME T # {} PROVE FALSE
    OBVIOUS
  <2>2. PICK n \in T : \A m \in T : n <= m
    BY <2>1, Least
  <2>3. CASE n = 0
    <3>1. Has(0, [k \in 0 .. 0 |-> <<>>])
      OBVIOUS
    <3> QED
      BY <2>3, <3>1
  <2>4. CASE n # 0
    <3>0. n \in Nat /\ n - 1 \in Nat /\ ~(n <= n - 1)
      BY <2>4
    <3>1. n - 1 \notin T
      BY <2>2, <3>0
    <3>2. PICK f : Has(n - 1, f)
      BY <3>0, <3>1
    <3> DEFINE g == [k \in 0 .. n |-> Next1(f, k)]
    <3>3. \A k \in 0 .. n - 1 : g[k] = f[k]
      <4>1. \A k \in 0 .. n - 1 : k \in 0 .. n /\ f[k] = Next1(f, k)
        <5> SUFFICES ASSUME NEW k \in 0 .. n - 1 PROVE k \in 0 .. n /\ f[k] = Next1(f, k)
          OBVIOUS
        <5>1. k \in 0 .. n
          BY <3>0
        <5>2. f[k] = Next1(f, k)
          BY <3>2
        <5> QED
          BY <5>1, <5>2
      <4> QED
        BY <4>1
    <3>4. ASSUME NEW k \in 0 .. n PROVE Next1(g, k) = Next1(f, k)
      <4>1. k # 0 => k - 1 \in 0 .. n - 1
        BY <3>0
      <4> HIDE DEF g
      <4> QED
        BY <3>3, <4>1
    <3>5. Has(n, g)
      BY <3>4
    <3> QED
      BY <3>5
  <2> QED
    BY <2>3, <2>4
<1>3. Has(Len(rows), F)
  BY <1>0, <1>2
<1> HIDE DEF F
<1>4. \A n \in 0 .. Len(rows) : F[n] \in S
  <2> DEFINE T == {n \in 0 .. Len(rows) : F[n] \notin S}
  <2>1. SUFFICES ASSUME T # {} PROVE FALSE
    OBVIOUS
  <2>2. PICK n \in T : \A m \in T : n <= m
    <3>1. T \subseteq Nat
      BY <1>0
    <3> HIDE DEF T
    <3> QED
      BY <2>1, <3>1, Least
  <2>3. F[n] = Next1(F, n)
    BY <1>3
  <2>4. n # 0 => n - 1 \in 0 .. Len(rows) /\ F[n - 1] \in S
    BY <1>0, <2>2
  <2>5. F[n] \in S
    BY <2>3, <2>4
  <2> QED
    BY <2>5
<1> QED
  BY <1>0, <1>1, <1>4 DEF shown

LEMMA EntriesAre ==
  ASSUME rows \in Seq(Row), NEW kind
  PROVE  /\ Entries(kind) \in Seq(FileEntry)
         /\ \A k \in DOMAIN Entries(kind) :
              \E i \in DOMAIN rows : rows[i].kind = kind /\ Entries(kind)[k] = Entry(i)
<1> DEFINE I == {i \in Ids(kind) : Live(i)}
           E == {Entry(i) : i \in I}
<1>1. I \subseteq DOMAIN rows /\ \A i \in I : rows[i] \in Row /\ i \in Nat /\ rows[i].kind = kind
  BY DEF Ids
<1>2. E \subseteq FileEntry
  BY <1>1 DEF Entry, FileEntry, Row
<1>3. Entries(kind) \in Seq(E)
  BY EntriesOf
<1>4. \A k \in DOMAIN Entries(kind) : Entries(kind)[k] \in E
  BY <1>3
<1> QED
  BY <1>1, <1>2, <1>3, <1>4

-----------------------------------------------------------------------------
(* Types                                                                   *)

\* What a request asks for tells its record.
LEMMA OfOp ==
  ASSUME TypeOK, NEW p \in Proc
  PROVE  /\ req[p] \in Request
         /\ req[p].op = "idle" <=> req[p] = Idle
         /\ req[p].op = "catcreate" => req[p] \in CatCreateType
         /\ req[p].op = "catdelete" => req[p] \in CatDeleteType
         /\ req[p].op = "rename" => req[p] \in RenameType
         /\ req[p].op = "create" => req[p] \in CreateType
         /\ req[p].op = "update" => req[p] \in UpdateType
         /\ req[p].op = "delete" => req[p] \in DeleteType
         /\ req[p].op = "setcat" => req[p] \in SetCatType
         /\ req[p].op = "export" => req[p] \in ExportType
         /\ req[p].op = "import" => req[p] \in ImportType
<1> USE DEF CatCreateType, CatDeleteType, RenameType, CreateType, UpdateType, DeleteType,
            SetCatType, ExportType, ImportType, Idle
<1>1. req[p] \in Request
  BY DEF TypeOK
<1> QED
  BY <1>1 DEF Request

LEMMA RowsOf ==
  ASSUME TypeOK, NEW i \in DOMAIN rows
  PROVE  rows[i] \in Row /\ i \in Nat \ {0} /\ i <= Len(rows)
  BY DEF TypeOK

LEMMA IdsNat ==
  ASSUME TypeOK, NEW kind
  PROVE  Ids(kind) \subseteq Nat /\ Ids(kind) \subseteq DOMAIN rows
  BY DEF TypeOK, Ids

LEMMA PoolNames ==
  ASSUME TypeOK
  PROVE  Pool \subseteq Name
  BY DEF TypeOK, Pool

-----------------------------------------------------------------------------
(* A request begins                                                        *)

Notes == [no : Nat, met : BOOLEAN, alone : BOOLEAN]

\* A request keeps its own fields when the model adds its notes.
LEMMA WithFields ==
  ASSUME NEW r, NEW n \in Notes, {"no", "met", "alone"} \cap DOMAIN r = {}
  PROVE  /\ With(r, n).no = n.no /\ With(r, n).met = n.met /\ With(r, n).alone = n.alone
         /\ \A f \in DOMAIN r : With(r, n)[f] = r[f]
         /\ DOMAIN With(r, n) = DOMAIN r \cup {"no", "met", "alone"}
  BY DEF With, Notes

LEMMA CategoryRequestType ==
  ASSUME TypeOK, NEW r \in CategoryRequests, NEW n \in Notes
  PROVE  /\ With(r, n) \in Request
         /\ {"op", "at"} \subseteq DOMAIN r /\ {"no", "met", "alone"} \cap DOMAIN r = {}
         /\ r.op \in {"catcreate", "catdelete", "rename"}
         /\ r.op = "catdelete" => r.at = "find" /\ "name" \in DOMAIN r /\ r.name # Default
<1> USE DEF With, Notes, Request
<1>1. CASE r \in [op : {"catcreate"}, at : {"look"}, name : Name]
  <2>1. With(r, n) \in CatCreateType
    BY <1>1 DEF CatCreateType
  <2> QED
    BY <1>1, <2>1
<1>2. CASE r \in [op : {"catdelete"}, at : {"find"}, name : Name \ {Default}, id : {0}]
  <2>1. With(r, n) \in CatDeleteType
    BY <1>2 DEF CatDeleteType
  <2> QED
    BY <1>2, <2>1
<1>3. CASE r \in [op : {"rename"}, at : {"lookold"}, name : Name \ {Default}, to : Name \ {Default}]
  <2>1. With(r, n) \in RenameType
    BY <1>3 DEF RenameType
  <2> QED
    BY <1>3, <2>1
<1> QED
  BY <1>1, <1>2, <1>3 DEF CategoryRequests

LEMMA CreatesType ==
  ASSUME TypeOK, NEW kind \in Kinds, NEW L, L \subseteq Nat \X (SUBSET Nat) \X BOOLEAN,
         NEW r \in Creates(kind, L), NEW n \in Notes
  PROVE  /\ With(r, n) \in Request
         /\ {"op", "at"} \subseteq DOMAIN r /\ {"no", "met", "alone"} \cap DOMAIN r = {}
         /\ r.op = "create" /\ r.at = "check"
         /\ {"kind", "links"} \subseteq DOMAIN r /\ r.kind = kind /\ r.links \in L
<1>1. With(r, n) \in CreateType
  BY DEF Creates, With, Notes, CreateType
<1> QED
  BY <1>1 DEF Creates, Request

LEMMA RowRequestType ==
  ASSUME TypeOK, NEW kind \in Kinds, NEW r \in RowRequests(kind), NEW n \in Notes
  PROVE  /\ With(r, n) \in Request
         /\ {"op", "at"} \subseteq DOMAIN r /\ {"no", "met", "alone"} \cap DOMAIN r = {}
         /\ r.op \in {"update", "delete", "setcat"}
         /\ r.op # "delete" => r.at \in {"read", "check"}
         /\ r.op = "update" => "id" \in DOMAIN r /\ r.id \in DOMAIN rows
<1> DEFINE U == [op : {"update"}, at : {"read"}, kind : {kind}, cat : Name \cup {Blank},
                 id : Ids(kind), api : IF kind = "task" THEN BOOLEAN ELSE {FALSE}, key : {Blank}]
           D == [op : {"delete"}, at : {"write"}, kind : {kind}, ids : SUBSET Ids(kind) \ {{}}]
           C == [op : {"setcat"}, at : {"check"}, kind : {kind}, cat : Name \cup {Blank},
                 ids : SUBSET Ids(kind) \ {{}}]
<1>0. Ids(kind) \subseteq Nat /\ Ids(kind) \subseteq DOMAIN rows
  BY IdsNat
<1> USE DEF With, Notes, Request
<1>1. CASE r \in U
  <2>2. r.op = "update" /\ r.at = "read" /\ "id" \in DOMAIN r /\ r.id \in DOMAIN rows
    BY <1>0, <1>1
  <2>1. With(r, n) \in UpdateType
    BY <1>0, <1>1 DEF UpdateType, Keys
  <2> QED
    BY <1>1, <2>1, <2>2
<1>2. CASE r \in D
  <2>1. With(r, n) \in DeleteType
    BY <1>0, <1>2 DEF DeleteType
  <2> QED
    BY <1>2, <2>1
<1>3. CASE r \in C
  <2>1. With(r, n) \in SetCatType
    BY <1>0, <1>3 DEF SetCatType
  <2> QED
    BY <1>3, <2>1
<1> QED
  BY <1>1, <1>2, <1>3 DEF RowRequests

LEMMA BackupRequestType ==
  ASSUME TypeOK, NEW r \in BackupRequests, NEW n \in Notes
  PROVE  /\ With(r, n) \in Request
         /\ {"op", "at"} \subseteq DOMAIN r /\ {"no", "met", "alone"} \cap DOMAIN r = {}
         /\ r.op \in {"export", "import"} /\ r.at \in {"channel", "ensure"}
         /\ r.op = "export" => {"file"} \subseteq DOMAIN r /\ r.at = "channel" /\ r.file = <<>>
         /\ r.op = "import" =>
              /\ {"names", "file", "todo", "map", "failed", "can", "blind", "beside"} \subseteq DOMAIN r
              /\ r.at = "ensure" /\ r.names = {bundle[i].cat : i \in DOMAIN bundle} \ {Blank}
              /\ r.file = bundle /\ r.todo = bundle /\ r.map = {} /\ r.failed = FALSE
              /\ r.can = Restorable(bundle) /\ r.beside = \E q \in Proc : req[q].op = "import"
<1> DEFINE N == {bundle[i].cat : i \in DOMAIN bundle} \ {Blank}
           B == \E q \in Proc : req[q].op = "import"
           R == Restorable(bundle)
           E == [op |-> "export", at |-> "channel", file |-> <<>>]
           M == [op |-> "import", at |-> "ensure", names |-> N, file |-> bundle, todo |-> bundle,
                 map |-> {}, failed |-> FALSE, can |-> R, blind |-> FALSE, beside |-> B]
<1>0. r = E \/ r = M
  BY DEF BackupRequests
<1>1. N \subseteq Name /\ bundle \in Seq(FileEntry) /\ B \in BOOLEAN /\ R \in BOOLEAN
  <2>1. \A i \in DOMAIN bundle : bundle[i] \in FileEntry
    BY DEF TypeOK
  <2>2. N \subseteq Name
    BY <2>1 DEF FileEntry
  <2>3. B \in BOOLEAN
    OBVIOUS
  <2>4. R \in BOOLEAN
    BY Zenon DEF Restorable
  <2> QED
    BY <2>2, <2>3, <2>4 DEF TypeOK
<1> HIDE DEF N, B, R
<1>2. CASE r = E
  <2>0. <<>> \in Seq(FileEntry)
    OBVIOUS
  <2>1. With(r, n) \in ExportType
    BY <1>2, <2>0 DEF ExportType, With, Notes
  <2> QED
    BY <1>2, <2>1 DEF Request
<1>3. CASE r = M
  <2>1. With(r, n) \in ImportType
    BY <1>1, <1>3 DEF ImportType, With, Notes
  <2> QED
    BY <1>3, <2>1 DEF Request, N, B, R
<1> QED
  BY <1>0, <1>2, <1>3

\* Whatever begins.
LEMMA Begun ==
  ASSUME TypeOK, NEW r \in CatalogRequests \cup BackupRequests, NEW n \in Notes
  PROVE  /\ With(r, n) \in Request
         /\ {"op", "at"} \subseteq DOMAIN r /\ {"no", "met", "alone"} \cap DOMAIN r = {}
         /\ r.op # "idle"
         /\ r.op \in {"create", "update", "setcat"} => r.at # "write"
         /\ r.op = "catdelete" => r.at = "find" /\ "name" \in DOMAIN r /\ r.name # Default
         /\ r.op = "create" =>
              {"kind", "links"} \subseteq DOMAIN r
              /\ (r.kind = "task" => r.links[1] \in Ids("template") /\ r.links[2] \subseteq Ids("channel"))
         /\ r.op \in {"export", "import"} => r \in BackupRequests
         /\ r.op = "update" => "id" \in DOMAIN r /\ r.id \in DOMAIN rows
<1>k. {"channel", "template", "task"} \subseteq Kinds
  BY DEF Kinds
<1>1. CASE r \in CategoryRequests
  <2>1. /\ With(r, n) \in Request
        /\ {"op", "at"} \subseteq DOMAIN r /\ {"no", "met", "alone"} \cap DOMAIN r = {}
        /\ r.op \in {"catcreate", "catdelete", "rename"}
        /\ r.op = "catdelete" => r.at = "find" /\ "name" \in DOMAIN r /\ r.name # Default
    BY <1>1, CategoryRequestType
  <2>2. r.op \notin {"idle", "create", "update", "setcat", "export", "import"} /\ r.op # "update"
    BY <2>1
  <2> QED
    BY <2>1, <2>2
<1>2. ASSUME NEW kind \in {"channel", "template", "task"}, r \in RowRequests(kind)
      PROVE  /\ With(r, n) \in Request
             /\ {"op", "at"} \subseteq DOMAIN r /\ {"no", "met", "alone"} \cap DOMAIN r = {}
             /\ r.op \in {"update", "delete", "setcat"}
             /\ r.op # "delete" => r.at # "write"
             /\ r.op = "update" => "id" \in DOMAIN r /\ r.id \in DOMAIN rows
  BY <1>k, <1>2, RowRequestType
<1>3. CASE \E kind \in {"channel", "template"} : r \in Creates(kind, {<<0, {}, FALSE>>})
  <2>1. PICK kind \in {"channel", "template"} : r \in Creates(kind, {<<0, {}, FALSE>>})
    BY <1>3
  <2>2. <<0, {}, FALSE>> \in Nat \X (SUBSET Nat) \X BOOLEAN
    OBVIOUS
  <2> DEFINE L == {<<0, {}, FALSE>>}
  <2>3. L \subseteq Nat \X (SUBSET Nat) \X BOOLEAN
    BY <2>2
  <2> HIDE DEF L
  <2>4. r \in Creates(kind, L)
    BY <2>1 DEF L
  <2> QED
    BY <1>k, <2>1, <2>3, <2>4, CreatesType
<1>4. CASE r \in Creates("task", Ids("template") \X {{j} : j \in Ids("channel")} \X BOOLEAN)
  <2> DEFINE L == Ids("template") \X {{j} : j \in Ids("channel")} \X BOOLEAN
  <2>1. L \subseteq Nat \X (SUBSET Nat) \X BOOLEAN
    BY IdsNat
  <2>2. \A l \in L : l[1] \in Ids("template") /\ l[2] \subseteq Ids("channel")
    OBVIOUS
  <2> HIDE DEF L
  <2>3. r \in Creates("task", L)
    BY <1>4 DEF L
  <2> QED
    BY <1>k, <2>1, <2>2, <2>3, CreatesType
<1>5. CASE r \in BackupRequests
  BY <1>5, BackupRequestType
<1>6. \/ r \in CategoryRequests \/ r \in BackupRequests
      \/ \E kind \in {"channel", "template", "task"} : r \in RowRequests(kind)
      \/ \E kind \in {"channel", "template"} : r \in Creates(kind, {<<0, {}, FALSE>>})
      \/ r \in Creates("task", Ids("template") \X {{j} : j \in Ids("channel")} \X BOOLEAN)
  BY DEF CatalogRequests, ChannelRequests, TemplateRequests, TaskRequests
<1> QED
  BY <1>1, <1>2, <1>3, <1>4, <1>5, <1>6

\* What others do to a request: they add to its notes, no more.
Stays(q) ==
  /\ req'[q] = Idle <=> req[q] = Idle
  /\ req'[q].op = req[q].op /\ req'[q].at = req[q].at /\ req'[q].no = req[q].no
  /\ req[q] # Idle => (req[q].met => req'[q].met) /\ (req'[q].alone => req[q].alone)
  /\ req[q].op = "catdelete" => req'[q].name = req[q].name /\ req'[q].id = req[q].id
  /\ req[q].op \in {"create", "update", "setcat"} => req'[q].cat = req[q].cat
  /\ req[q].op = "update" => req'[q].id = req[q].id
  /\ req[q].op = "create" => req'[q].kind = req[q].kind /\ req'[q].links = req[q].links
  /\ req[q].op \in {"export", "import"} => req'[q].file = req[q].file
  /\ req[q].op = "import" =>
       /\ req'[q].names = req[q].names /\ req'[q].todo = req[q].todo /\ req'[q].map = req[q].map
       /\ req'[q].failed = req[q].failed /\ req'[q].can = req[q].can
       /\ req'[q].blind = req[q].blind /\ req'[q].beside = req[q].beside

LEMMA SameStays == \A q : req'[q] = req[q] => Stays(q)
  BY DEF Stays

LEMMA NotedStays ==
  ASSUME TypeOK, NEW q \in Proc, req[q] # Idle, NEW b \in BOOLEAN,
         req'[q] = [req[q] EXCEPT !.met = @ \/ b, !.alone = FALSE]
  PROVE  req'[q] \in Request /\ Stays(q) /\ req'[q].met = (req[q].met \/ b) /\ req'[q].alone = FALSE
<1> DEFINE s == req[q]
           t == req'[q]
<1> USE DEF CatCreateType, CatDeleteType, RenameType, CreateType, UpdateType, DeleteType,
            SetCatType, ExportType, ImportType, Idle
<1>1. s \in Request /\ s # Idle
  BY DEF TypeOK
<1>2. CASE s \in CatCreateType
  BY <1>2 DEF Request, Stays
<1>3. CASE s \in CatDeleteType
  BY <1>3 DEF Request, Stays
<1>4. CASE s \in RenameType
  BY <1>4 DEF Request, Stays
<1>5. CASE s \in CreateType
  BY <1>5 DEF Request, Stays
<1>6. CASE s \in UpdateType
  BY <1>6 DEF Request, Stays
<1>7. CASE s \in DeleteType
  BY <1>7 DEF Request, Stays
<1>8. CASE s \in SetCatType
  BY <1>8 DEF Request, Stays
<1>9. CASE s \in ExportType
  BY <1>9 DEF Request, Stays
<1>10. CASE s \in ImportType
  BY <1>10 DEF Request, Stays
<1> QED
  BY <1>1, <1>2, <1>3, <1>4, <1>5, <1>6, <1>7, <1>8, <1>9, <1>10 DEF Request

LEMMA BeginsEffect ==
  ASSUME TypeOK, NEW p \in Proc, NEW r \in CatalogRequests \cup BackupRequests, Begins(p, r)
  PROVE  /\ req[p] = Idle /\ UNCHANGED <<cats, rows, bundle, imports>> /\ made' = made + 1
         /\ req' \in [Proc -> Request]
         /\ \A f \in DOMAIN r : req'[p][f] = r[f]
         /\ req'[p].op = r.op /\ req'[p].at = r.at /\ req'[p] # Idle
         /\ req'[p].no = made + 1
         /\ req'[p].met = \E q \in Proc \ {p} : req[q] # Idle /\ Removes(req[q])
         /\ req'[p].alone = \A q \in Proc \ {p} : req[q] = Idle
         /\ \A q \in Proc \ {p} : Stays(q) /\ (req[q] # Idle =>
              req'[q].met = (req[q].met \/ Removes(r)) /\ req'[q].alone = FALSE)
<1> DEFINE met == \E q \in Proc \ {p} : req[q] # Idle /\ Removes(req[q])
           alone == \A q \in Proc \ {p} : req[q] = Idle
           n == [no |-> made + 1, met |-> met, alone |-> alone]
<1>0. met \in BOOLEAN /\ alone \in BOOLEAN /\ made + 1 \in Nat
  BY DEF TypeOK
<1>1. req[p] = Idle /\ UNCHANGED <<cats, rows, bundle, imports>> /\ made' = made + 1
  BY DEF Begins
<1>2. Overlaps(r, {req[o] : o \in Proc \ {p}}) = met
  BY DEF Overlaps
<1>3. req' = [q \in Proc |->
        CASE q = p -> With(r, n)
          [] q # p /\ req[q] = Idle -> Idle
          [] OTHER -> [req[q] EXCEPT !.met = @ \/ Removes(r), !.alone = FALSE]]
  BY <1>2 DEF Begins
<1> HIDE DEF met, alone
<1>4. n \in Notes
  BY <1>0 DEF Notes
<1>5. /\ With(r, n) \in Request /\ r.op # "idle"
      /\ {"op", "at"} \subseteq DOMAIN r /\ {"no", "met", "alone"} \cap DOMAIN r = {}
  BY <1>4, Begun
<1>6. /\ With(r, n).no = n.no /\ With(r, n).met = n.met /\ With(r, n).alone = n.alone
      /\ \A f \in DOMAIN r : With(r, n)[f] = r[f]
  BY <1>4, <1>5, WithFields
<1>7. req'[p] = With(r, n)
  BY <1>3
<1>8. ASSUME NEW q \in Proc \ {p}
      PROVE  req'[q] \in Request /\ Stays(q) /\ (req[q] # Idle =>
               req'[q].met = (req[q].met \/ Removes(r)) /\ req'[q].alone = FALSE)
  <2>1. CASE req[q] = Idle
    <3>1. req'[q] = Idle
      BY <1>3, <2>1
    <3> QED
      BY <2>1, <3>1, SameStays DEF Request
  <2>2. CASE req[q] # Idle
    <3>1. req'[q] = [req[q] EXCEPT !.met = @ \/ Removes(r), !.alone = FALSE]
      BY <1>3, <2>2
    <3>2. Removes(r) \in BOOLEAN
      BY DEF Removes
    <3> QED
      BY <2>2, <3>1, <3>2, NotedStays
  <2> QED
    BY <2>1, <2>2
<1>9. req' \in [Proc -> Request]
  <2>1. req' = [q \in Proc |-> req'[q]]
    BY <1>3
  <2>2. \A q \in Proc : req'[q] \in Request
    BY <1>5, <1>7, <1>8
  <2> QED
    BY <2>1, <2>2
<1>10. req'[p].op = r.op /\ req'[p].at = r.at /\ req'[p] # Idle
  BY <1>5, <1>6, <1>7 DEF Idle
<1>11. req'[p].no = made + 1 /\ req'[p].met = met /\ req'[p].alone = alone
  BY <1>6, <1>7
<1> QED
  BY <1>1, <1>6, <1>7, <1>8, <1>9, <1>10, <1>11 DEF met, alone

-----------------------------------------------------------------------------
(* What the steps do                                                       *)

\* What a request keeps in a step of its own, unless that is its last.
Moved(p) ==
  /\ req[p] # Idle /\ req' \in [Proc -> Request]
  /\ \A q \in Proc \ {p} : req'[q] = req[q]
  /\ req'[p] = Idle \/
       /\ req'[p] # Idle /\ req'[p].op = req[p].op /\ req'[p].no = req[p].no
       /\ req'[p].met = req[p].met /\ req'[p].alone = req[p].alone
       /\ req[p].op \in {"create", "update", "setcat"} => req'[p].cat = req[p].cat
       /\ req[p].op = "update" => req'[p].id = req[p].id
       /\ req[p].op = "create" => req'[p].kind = req[p].kind /\ req'[p].links = req[p].links
       /\ req[p].op = "import" =>
            /\ req'[p].file = req[p].file /\ req'[p].can = req[p].can
            /\ req'[p].beside = req[p].beside /\ (req[p].failed => req'[p].failed)

\* What a row keeps for ever; once deleted it stays so.
Kept(i) ==
  /\ i \in DOMAIN rows' /\ rows'[i] \in Row
  /\ rows'[i].kind = rows[i].kind /\ rows'[i].title = rows[i].title
  /\ rows'[i].tpl = rows[i].tpl /\ rows'[i].chans = rows[i].chans
  /\ rows'[i].by = rows[i].by /\ rows'[i].beside = rows[i].beside
  /\ rows'[i].blind = rows[i].blind /\ rows'[i].was = rows[i].was
  /\ rows'[i].live => rows[i].live

\* No row is added.
KeepsRows == rows' \in Seq(Row) /\ Len(rows') = Len(rows) /\ \A i \in DOMAIN rows : Kept(i)

AddsRow(x) == x \in Row /\ rows' = Append(rows, x)

LEMMA SameRows ==
  ASSUME TypeOK, rows' = rows
  PROVE  KeepsRows
  BY DEF TypeOK, KeepsRows, Kept

LEMMA AddedRow ==
  ASSUME TypeOK, NEW x, AddsRow(x)
  PROVE  /\ rows' \in Seq(Row) /\ DOMAIN rows' = DOMAIN rows \cup {Len(rows) + 1}
         /\ Len(rows) + 1 \notin DOMAIN rows /\ rows'[Len(rows) + 1] = x
         /\ \A i \in DOMAIN rows : Kept(i) /\ rows'[i] = rows[i]
<1>1. rows \in Seq(Row) /\ x \in Row /\ Len(rows) \in Nat
  BY DEF TypeOK, AddsRow
<1>2. rows' \in Seq(Row) /\ Len(rows') = Len(rows) + 1
  BY <1>1 DEF AddsRow
<1>3. \A i \in DOMAIN rows : i \in DOMAIN rows' /\ rows'[i] = rows[i] /\ rows[i] \in Row
  BY <1>1, <1>2 DEF AddsRow
<1> QED
  BY <1>1, <1>2, <1>3 DEF AddsRow, Kept

LEMMA OneMoves ==
  ASSUME TypeOK, NEW p \in Proc, NEW x \in Request, req' = [req EXCEPT ![p] = x]
  PROVE  req' \in [Proc -> Request] /\ req'[p] = x /\ \A q \in Proc \ {p} : req'[q] = req[q]
  BY DEF TypeOK

LEMMA EndsMove ==
  ASSUME TypeOK, NEW p \in Proc, req[p] # Idle, Ends(p)
  PROVE  Moved(p) /\ req'[p] = Idle
<1>1. Idle \in Request
  BY DEF Request
<1> QED
  BY <1>1, OneMoves DEF Ends, Moved

LEMMA CreateEffect ==
  ASSUME TypeOK, NEW p \in Proc, Create(p)
  PROVE  /\ Moved(p) /\ rows' = rows /\ req[p].op = "catcreate"
         /\ cats' = cats \/ \E n \in Name : cats' = Append(cats, n)
<1>1. req[p].op = "catcreate" /\ req[p] \in CatCreateType /\ req[p] # Idle /\ rows' = rows
  BY OfOp DEF Create, Idle
<1>2. CASE Goes(p, "insert") /\ UNCHANGED cats
  <2> DEFINE x == [req[p] EXCEPT !.at = "insert"]
  <2>1. /\ x \in CatCreateType /\ x.op = "catcreate"
        /\ x.no = req[p].no /\ x.met = req[p].met /\ x.alone = req[p].alone
    BY <1>1 DEF CatCreateType
  <2>2. x \in Request /\ x # Idle
    BY <2>1 DEF Request, Idle
  <2>3. req' = [req EXCEPT ![p] = x]
    BY <1>2 DEF Goes
  <2> HIDE DEF x
  <2> QED
    BY <1>1, <1>2, <2>1, <2>2, <2>3, OneMoves DEF Moved
<1>3. CASE InsertName(req[p].name) /\ Ends(p)
  BY <1>1, <1>3, EndsMove DEF InsertName, CatCreateType
<1>4. CASE Ends(p) /\ UNCHANGED cats
  BY <1>1, <1>4, EndsMove
<1> QED
  BY <1>2, <1>3, <1>4 DEF Create

LEMMA DeleteEffect ==
  ASSUME TypeOK, NEW p \in Proc, Delete(p)
  PROVE  LET r == req[p]
             s == req'[p]
         IN  /\ Moved(p) /\ rows' = rows /\ r.op = "catdelete"
             /\ \/ /\ r.at = "find" /\ s # Idle /\ s.at = "read" /\ s.id \in DOMAIN cats
                   /\ cats[s.id] = r.name /\ cats' = cats
                \/ /\ r.at = "read" /\ s # Idle /\ s.at = "count" /\ s.id = r.id /\ s.name = cats[s.id]
                   /\ cats' = cats
                \/ /\ r.at = "count" /\ s # Idle /\ s.at = "remove" /\ s.id = r.id
                   /\ References(r.name) = {} /\ cats' = cats
                \/ r.at = "remove" /\ s = Idle /\ cats' = [cats EXCEPT ![r.id] = Blank]
                \/ s = Idle /\ cats' = cats
<1> DEFINE r == req[p]
           s == req'[p]
<1>1. r.op = "catdelete" /\ r \in CatDeleteType /\ r # Idle /\ rows' = rows
  BY OfOp DEF Delete, Idle
<1>2. ASSUME NEW x \in CatDeleteType, req' = [req EXCEPT ![p] = x],
             x.no = r.no, x.met = r.met, x.alone = r.alone
      PROVE  Moved(p) /\ s = x /\ s # Idle
  <2>1. x \in Request /\ x # Idle /\ x.op = "catdelete"
    BY <1>2 DEF Request, Idle, CatDeleteType
  <2> QED
    BY <1>1, <1>2, <2>1, OneMoves DEF Moved
<1>c. cats \in Seq(Name \cup {Blank}) /\ \A i \in DOMAIN cats : i \in Nat /\ cats[i] \in Name \cup {Blank}
  BY DEF TypeOK
<1>3. CASE r.at = "find" /\ ~(Ends(p) /\ UNCHANGED cats)
  <2>1. PICK i \in DOMAIN cats : cats[i] = r.name /\ req' = [req EXCEPT ![p].id = i, ![p].at = "read"]
    BY <1>3 DEF Delete
  <2> DEFINE x == [r EXCEPT !.id = i, !.at = "read"]
  <2>2. /\ x \in CatDeleteType /\ x.no = r.no /\ x.met = r.met /\ x.alone = r.alone
        /\ x.at = "read" /\ x.id = i
    BY <1>1, <1>c DEF CatDeleteType
  <2>3. req' = [req EXCEPT ![p] = x]
    BY <2>1 DEF TypeOK
  <2>4. cats' = cats
    BY <1>3 DEF Delete
  <2> HIDE DEF x
  <2> QED
    BY <1>1, <1>2, <1>3, <2>1, <2>2, <2>3, <2>4
<1>4. CASE r.at = "read" /\ ~(Ends(p) /\ UNCHANGED cats)
  <2>1. req' = [req EXCEPT ![p].name = cats[r.id], ![p].at = "count"] /\ cats' = cats /\ cats[r.id] # Blank
    BY <1>4 DEF Delete
  <2> DEFINE x == [r EXCEPT !.name = cats[r.id], !.at = "count"]
  <2>0. r.id \in DOMAIN cats
    BY <1>1, <1>4 DEF TypeOK, Refers
  <2>2. /\ x \in CatDeleteType /\ x.no = r.no /\ x.met = r.met /\ x.alone = r.alone
        /\ x.at = "count" /\ x.id = r.id /\ x.name = cats[r.id]
    BY <1>1, <1>c, <2>0, <2>1 DEF CatDeleteType
  <2>3. req' = [req EXCEPT ![p] = x]
    BY <2>1 DEF TypeOK
  <2> HIDE DEF x
  <2> QED
    BY <1>1, <1>2, <1>4, <2>1, <2>2, <2>3
<1>5. CASE r.at = "count" /\ ~(Ends(p) /\ UNCHANGED cats)
  <2>1. Goes(p, "remove") /\ cats' = cats /\ References(r.name) = {}
    BY <1>5 DEF Delete
  <2> DEFINE x == [r EXCEPT !.at = "remove"]
  <2>2. /\ x \in CatDeleteType /\ x.no = r.no /\ x.met = r.met /\ x.alone = r.alone
        /\ x.at = "remove" /\ x.id = r.id
    BY <1>1 DEF CatDeleteType
  <2>3. req' = [req EXCEPT ![p] = x]
    BY <2>1 DEF Goes
  <2> HIDE DEF x
  <2> QED
    BY <1>1, <1>2, <1>5, <2>1, <2>2, <2>3
<1>6. CASE r.at = "remove" /\ ~(Ends(p) /\ UNCHANGED cats)
  <2>1. Ends(p) /\ cats' = [cats EXCEPT ![r.id] = Blank]
    BY <1>6 DEF Delete
  <2> QED
    BY <1>1, <1>6, <2>1, EndsMove
<1>7. CASE Ends(p) /\ UNCHANGED cats
  BY <1>1, <1>7, EndsMove
<1> QED
  BY <1>1, <1>3, <1>4, <1>5, <1>6, <1>7 DEF CatDeleteType

\* What has the domain of a sequence is one of its length.
LEMMA LikeSeq ==
  ASSUME NEW S, NEW s \in Seq(S), NEW T, NEW t, t = [i \in DOMAIN s |-> t[i]],
         \A i \in DOMAIN s : t[i] \in T
  PROVE  t \in Seq(T) /\ Len(t) = Len(s) /\ DOMAIN t = DOMAIN s
<1>1. Len(s) \in Nat /\ DOMAIN s = 1 .. Len(s)
  OBVIOUS
<1>2. t \in [1 .. Len(s) -> T]
  BY <1>1
<1> QED
  BY <1>1, <1>2

\* A rename touches the rows that had the name, and no others.
Recategorized(i, new, met) ==
  Kept(i) /\ rows'[i].cat = new /\ rows'[i].sound = (rows[i].sound /\ ~met)

LEMMA RenamedEffect ==
  ASSUME TypeOK, NEW old \in Name, NEW new \in Name, NEW met \in BOOLEAN, Renamed(old, new, met)
  PROVE  /\ KeepsRows
         /\ \A i \in DOMAIN rows :
              IF rows[i].cat = old THEN Recategorized(i, new, met) ELSE rows'[i] = rows[i]
         /\ cats' \in Seq(Name \cup {Blank}) /\ Len(cats') = Len(cats)
         /\ \A i \in DOMAIN cats : cats'[i] = IF cats[i] = old THEN new ELSE cats[i]
<1>1. rows \in Seq(Row) /\ cats \in Seq(Name \cup {Blank}) /\ \A i \in DOMAIN rows : rows[i] \in Row
  BY DEF TypeOK
<1>2. /\ rows' = [i \in DOMAIN rows |->
           IF rows[i].cat = old THEN [rows[i] EXCEPT !.cat = new, !.sound = @ /\ ~met] ELSE rows[i]]
      /\ cats' = [i \in DOMAIN cats |-> IF cats[i] = old THEN new ELSE cats[i]]
  BY DEF Renamed
<1>3. ASSUME NEW i \in DOMAIN rows
      PROVE  /\ IF rows[i].cat = old THEN Recategorized(i, new, met) ELSE rows'[i] = rows[i]
             /\ Kept(i)
  <2>1. CASE rows[i].cat = old
    <3>1. rows'[i] = [rows[i] EXCEPT !.cat = new, !.sound = @ /\ ~met] /\ i \in DOMAIN rows'
      BY <1>2, <2>1
    <3> QED
      BY <1>1, <2>1, <3>1 DEF Recategorized, Kept, Row
  <2>2. CASE rows[i].cat # old
    BY <1>1, <1>2, <2>2 DEF Kept
  <2> QED
    BY <2>1, <2>2
<1>5. rows' \in Seq(Row) /\ Len(rows') = Len(rows)
  <2>1. \A i \in DOMAIN rows : rows'[i] \in Row
    BY <1>3 DEF Kept
  <2>2. rows' = [i \in DOMAIN rows |-> rows'[i]]
    BY <1>2
  <2> QED
    BY <1>1, <2>1, <2>2, LikeSeq
<1>6. cats' \in Seq(Name \cup {Blank}) /\ Len(cats') = Len(cats)
  <2>1. \A i \in DOMAIN cats : cats[i] \in Name \cup {Blank}
    BY <1>1
  <2>2. cats' = [i \in DOMAIN cats |-> cats'[i]] /\ \A i \in DOMAIN cats : cats'[i] \in Name \cup {Blank}
    BY <1>2, <2>1
  <2> QED
    BY <1>1, <2>2, LikeSeq
<1>7. \A i \in DOMAIN cats : cats'[i] = IF cats[i] = old THEN new ELSE cats[i]
  BY <1>2
<1> QED
  BY <1>3, <1>5, <1>6, <1>7 DEF KeepsRows

LEMMA UpdateEffect ==
  ASSUME TypeOK, NEW p \in Proc, Update(p)
  PROVE  LET r == req[p]
         IN  /\ Moved(p) /\ r.op = "rename"
             /\ \/ UNCHANGED <<cats, rows>>
                \/ req'[p] = Idle /\ Renamed(r.name, r.to, r.met)
                   /\ r.name \in Name \ {Default} /\ r.to \in Name \ {Default} /\ r.met \in BOOLEAN
<1> DEFINE r == req[p]
<1>1. r.op = "rename" /\ r \in RenameType /\ r # Idle
  BY OfOp DEF Update, Idle
<1>2. ASSUME NEW at \in {"looknew", "commit"}, Goes(p, at) PROVE Moved(p)
  <2> DEFINE x == [r EXCEPT !.at = at]
  <2>1. /\ x \in RenameType /\ x.op = "rename"
        /\ x.no = r.no /\ x.met = r.met /\ x.alone = r.alone
    BY <1>1 DEF RenameType
  <2>2. x \in Request /\ x # Idle
    BY <2>1 DEF Request, Idle
  <2>3. req' = [req EXCEPT ![p] = x]
    BY <1>2 DEF Goes
  <2> HIDE DEF x
  <2> QED
    BY <1>1, <2>1, <2>2, <2>3, OneMoves DEF Moved
<1>3. CASE Ends(p)
  <2>1. UNCHANGED <<cats, rows>> \/ Renamed(r.name, r.to, r.met)
    BY <1>3 DEF Update
  <2>2. r.name \in Name \ {Default} /\ r.to \in Name \ {Default} /\ r.met \in BOOLEAN
    BY <1>1 DEF RenameType
  <2> QED
    BY <1>1, <1>3, <2>1, <2>2, EndsMove
<1>4. CASE ~Ends(p)
  <2>1. UNCHANGED <<cats, rows>> /\ (Goes(p, "looknew") \/ Goes(p, "commit"))
    BY <1>4 DEF Update
  <2> QED
    BY <1>1, <1>2, <2>1
<1> QED
  BY <1>3, <1>4

LEMMA ChecksEffect ==
  ASSUME TypeOK, NEW p \in Proc, Checks(p)
  PROVE  /\ Moved(p) /\ UNCHANGED <<cats, rows>>
         /\ req[p].op \in {"create", "update", "setcat"}
         /\ req'[p] = Idle \/ Exists(Normalized(req[p].cat))
<1> DEFINE r == req[p]
<1>1. /\ r.op \in {"create", "update", "setcat"} /\ r.at = "check" /\ UNCHANGED <<cats, rows>>
      /\ r # Idle
  BY DEF Checks, Idle
<1>2. CASE Ends(p)
  BY <1>1, <1>2, EndsMove
<1>3. CASE ~Ends(p)
  <2> DEFINE x == [r EXCEPT !.at = "write"]
  <2>1. Exists(Normalized(r.cat)) /\ req' = [req EXCEPT ![p] = x]
    BY <1>3 DEF Checks, Goes
  <2>2. /\ x \in Request /\ x # Idle /\ x.op = r.op /\ x.no = r.no /\ x.met = r.met
        /\ x.alone = r.alone /\ x.cat = r.cat
        /\ r.op = "update" => x.id = r.id
        /\ r.op = "create" => x.kind = r.kind /\ x.links = r.links
    <3>1. CASE r.op = "create"
      <4>1. r \in CreateType
        BY <3>1, OfOp
      <4> QED
        BY <3>1, <4>1 DEF CreateType, Request, Idle
    <3>2. CASE r.op = "update"
      <4>1. r \in UpdateType
        BY <3>2, OfOp
      <4> QED
        BY <3>2, <4>1 DEF UpdateType, Request, Idle
    <3>3. CASE r.op = "setcat"
      <4>1. r \in SetCatType
        BY <3>3, OfOp
      <4> QED
        BY <3>3, <4>1 DEF SetCatType, Request, Idle
    <3> QED
      BY <1>1, <3>1, <3>2, <3>3
  <2> HIDE DEF x
  <2> QED
    BY <1>1, <2>1, <2>2, OneMoves DEF Moved
<1> QED
  BY <1>2, <1>3

LEMMA InsertRowEffect ==
  ASSUME TypeOK, NEW p \in Proc, InsertRow(p)
  PROVE  /\ Moved(p) /\ req'[p] = Idle /\ cats' = cats
         /\ req[p].op = "create" /\ req[p].at = "write"
         /\ \E x : /\ AddsRow(x) /\ x.kind = req[p].kind /\ x.cat = Normalized(req[p].cat)
                   /\ x.sound = ~req[p].met /\ x.by = 0
                   /\ x.tpl = req[p].links[1] /\ x.chans = req[p].links[2]
<1> DEFINE r == req[p]
           id == Len(rows) + 1
           key == IF r.links[3] THEN FreshKey(id, r) ELSE Blank
           safe == ~r.met
           y == NewRow(r.kind, r.title, Normalized(r.cat))
           x == [y EXCEPT
                   !.tpl = r.links[1], !.chans = r.links[2], !.key = key, !.sound = safe]
<1>1. /\ r.op = "create" /\ r.at = "write" /\ r # Idle /\ Ends(p) /\ cats' = cats
      /\ rows' = Append(rows, x)
  BY DEF InsertRow, Idle
<1>2. r \in CreateType /\ id \in Nat
  BY <1>1, OfOp DEF TypeOK
<1>3. key \in Keys
  BY <1>2 DEF CreateType, Keys, FreshKey
<1>4. Normalized(r.cat) \in Name
  BY <1>2, CatalogAssumption DEF CreateType, Normalized
<1>5. /\ r.kind \in Kinds /\ r.title \in Title /\ r.links[1] \in Nat /\ r.links[2] \in SUBSET Nat
      /\ safe \in BOOLEAN
  BY <1>2 DEF CreateType
<1> HIDE DEF key, safe
<1>6. /\ y \in Row /\ y.kind = r.kind /\ y.title = r.title /\ y.cat = Normalized(r.cat)
      /\ y.by = 0
  BY <1>4, <1>5 DEF NewRow, Row, Keys
<1> HIDE DEF y
<1> HIDE DEF x
<1>7. /\ x \in Row /\ x.kind = r.kind /\ x.cat = Normalized(r.cat) /\ x.sound = safe /\ x.by = 0
      /\ x.tpl = r.links[1] /\ x.chans = r.links[2]
  BY <1>3, <1>4, <1>5, <1>6 DEF Row, x
<1> QED
  BY <1>1, <1>7, EndsMove DEF AddsRow, safe

LEMMA UpdateReadEffect ==
  ASSUME TypeOK, NEW p \in Proc, UpdateRead(p)
  PROVE  /\ Moved(p) /\ UNCHANGED <<cats, rows>> /\ req[p].op = "update"
         /\ req'[p] = Idle \/ req'[p].at = "check"
<1> DEFINE r == req[p]
<1>1. r.op = "update" /\ r.at = "read" /\ UNCHANGED <<cats, rows>> /\ r # Idle /\ r \in UpdateType
  BY OfOp DEF UpdateRead, Idle
<1>2. CASE Ends(p)
  BY <1>1, <1>2, EndsMove
<1>3. CASE ~Ends(p)
  <2> DEFINE x == [r EXCEPT !.key = rows[r.id].key, !.at = "check"]
  <2>0. Live(r.id) /\ req' = [req EXCEPT ![p].key = rows[r.id].key, ![p].at = "check"]
    BY <1>3 DEF UpdateRead
  <2>1. req' = [req EXCEPT ![p] = x]
    BY <2>0 DEF TypeOK
  <2>2. rows[r.id].key \in Keys
    BY <1>1, RowsOf DEF TypeOK, Refers, Row
  <2>3. /\ x \in UpdateType /\ x.op = r.op /\ x.no = r.no /\ x.met = r.met
        /\ x.alone = r.alone /\ x.cat = r.cat /\ x.id = r.id /\ x.at = "check"
    BY <1>1, <2>2 DEF UpdateType
  <2>4. x \in Request /\ x # Idle
    BY <1>1, <2>3 DEF Request, Idle
  <2> HIDE DEF x
  <2> QED
    BY <1>1, <2>1, <2>3, <2>4, OneMoves DEF Moved
<1> QED
  BY <1>2, <1>3

\* A row that a request writes in full.
Written(i, cat, met) ==
  Kept(i) /\ rows'[i].cat = cat /\ rows'[i].sound = ~met

LEMMA UpdateWriteEffect ==
  ASSUME TypeOK, NEW p \in Proc, UpdateWrite(p)
  PROVE  /\ Moved(p) /\ req'[p] = Idle /\ cats' = cats
         /\ req[p].op = "update" /\ req[p].at = "write" /\ KeepsRows
         /\ \A i \in DOMAIN rows :
              rows'[i] = rows[i] \/ Written(i, Normalized(req[p].cat), req[p].met)
<1> DEFINE r == req[p]
           safe == ~r.met
           cat == Normalized(r.cat)
           key == KeyOf(r)
           x == [rows[r.id] EXCEPT !.cat = cat, !.key = key, !.sound = safe]
<1>1. r.op = "update" /\ r.at = "write" /\ cats' = cats /\ r # Idle /\ r \in UpdateType /\ Ends(p)
  BY OfOp DEF UpdateWrite, Idle
<1>2. r.id \in DOMAIN rows /\ rows[r.id] \in Row /\ rows \in Seq(Row)
  BY <1>1, RowsOf DEF TypeOK, Refers
<1>3. cat \in Name /\ safe \in BOOLEAN
  BY <1>1, CatalogAssumption DEF UpdateType, Normalized
<1>4. key \in Keys
  BY <1>1 DEF UpdateType, KeyOf, FreshKey, Keys
<1>5. Moved(p) /\ req'[p] = Idle
  BY <1>1, EndsMove
<1>6. rows' = rows \/
      rows' = [rows EXCEPT ![r.id].cat = cat, ![r.id].key = key, ![r.id].sound = safe]
  BY <1>1 DEF UpdateWrite
<1>7. CASE rows' = rows
  BY <1>1, <1>5, <1>7, SameRows
<1>8. CASE rows' = [rows EXCEPT ![r.id].cat = cat, ![r.id].key = key, ![r.id].sound = safe]
  <2> HIDE DEF cat, key, safe
  <2>1. rows' = [rows EXCEPT ![r.id] = x]
    BY <1>2, <1>8
  <2>2. /\ x \in Row /\ x.kind = rows[r.id].kind /\ x.title = rows[r.id].title
        /\ x.tpl = rows[r.id].tpl /\ x.chans = rows[r.id].chans /\ x.by = rows[r.id].by
        /\ x.beside = rows[r.id].beside /\ x.blind = rows[r.id].blind /\ x.was = rows[r.id].was /\ x.live = rows[r.id].live
        /\ x.cat = cat /\ x.sound = safe
    BY <1>2, <1>3, <1>4 DEF Row
  <2> HIDE DEF x
  <2>3. rows' \in Seq(Row) /\ Len(rows') = Len(rows) /\ DOMAIN rows' = DOMAIN rows
    BY <1>2, <2>1, <2>2
  <2>4. ASSUME NEW i \in DOMAIN rows PROVE Kept(i) /\ (rows'[i] = rows[i] \/ Written(i, cat, r.met))
    <3>1. CASE i = r.id
      <4>1. rows'[i] = x
        BY <2>1, <3>1
      <4> QED
        BY <2>2, <2>3, <3>1, <4>1 DEF Kept, Written, safe
    <3>2. CASE i # r.id
      <4>1. rows'[i] = rows[i] /\ rows[i] \in Row
        BY <1>2, <2>1, <3>2
      <4> QED
        BY <2>3, <4>1 DEF Kept
    <3> QED
      BY <3>1, <3>2
  <2> QED
    BY <1>1, <1>5, <2>3, <2>4 DEF KeepsRows, cat
<1> QED
  BY <1>6, <1>7, <1>8

LEMMA BatchDeleteEffect ==
  ASSUME TypeOK, NEW p \in Proc, BatchDelete(p)
  PROVE  /\ Moved(p) /\ req'[p] = Idle /\ cats' = cats /\ req[p].op = "delete" /\ KeepsRows
         /\ \A i \in DOMAIN rows : rows'[i] = rows[i] \/ ~rows'[i].live
<1>1. req[p].op = "delete" /\ cats' = cats /\ req[p] # Idle /\ Ends(p)
  BY DEF BatchDelete, Idle
<1>2. rows' = [i \in DOMAIN rows |->
        IF i \in req[p].ids /\ Live(i) THEN [rows[i] EXCEPT !.live = FALSE] ELSE rows[i]]
  BY DEF BatchDelete, WriteRows
<1>3. ASSUME NEW i \in DOMAIN rows PROVE Kept(i) /\ (rows'[i] = rows[i] \/ ~rows'[i].live)
  <2>1. i \in DOMAIN rows' /\ rows[i] \in Row
    BY <1>2, RowsOf
  <2>2. rows'[i] = rows[i] \/ rows'[i] = [rows[i] EXCEPT !.live = FALSE]
    BY <1>2
  <2>3. CASE rows'[i] = rows[i]
    BY <2>1, <2>3 DEF Kept
  <2>4. CASE rows'[i] = [rows[i] EXCEPT !.live = FALSE]
    BY <2>1, <2>4 DEF Kept, Row
  <2> QED
    BY <2>2, <2>3, <2>4
<1>4. rows' \in Seq(Row) /\ Len(rows') = Len(rows)
  <2>1. rows' = [i \in DOMAIN rows |-> rows'[i]] /\ \A i \in DOMAIN rows : rows'[i] \in Row
    BY <1>2, <1>3 DEF Kept
  <2> QED
    BY <2>1, LikeSeq DEF TypeOK
<1> QED
  BY <1>1, <1>3, <1>4, EndsMove DEF KeepsRows

LEMMA BatchSetCategoryEffect ==
  ASSUME TypeOK, NEW p \in Proc, BatchSetCategory(p)
  PROVE  /\ Moved(p) /\ req'[p] = Idle /\ cats' = cats
         /\ req[p].op = "setcat" /\ req[p].at = "write" /\ KeepsRows
         /\ \A i \in DOMAIN rows :
              rows'[i] = rows[i] \/ Written(i, Normalized(req[p].cat), req[p].met)
<1> DEFINE safe == ~req[p].met
           cat == Normalized(req[p].cat)
<1>1. /\ req[p].op = "setcat" /\ req[p].at = "write" /\ cats' = cats /\ req[p] # Idle /\ Ends(p)
      /\ req[p] \in SetCatType
  BY OfOp DEF BatchSetCategory, Idle
<1>2. rows' = [i \in DOMAIN rows |->
        IF i \in req[p].ids /\ Live(i) THEN [rows[i] EXCEPT !.cat = cat, !.sound = safe] ELSE rows[i]]
  BY DEF BatchSetCategory, WriteRows
<1>c. cat \in Name /\ safe \in BOOLEAN
  BY <1>1, CatalogAssumption DEF SetCatType, Normalized
<1> HIDE DEF cat, safe
<1>3. ASSUME NEW i \in DOMAIN rows
      PROVE  Kept(i) /\ (rows'[i] = rows[i] \/ Written(i, cat, req[p].met))
  <2>1. i \in DOMAIN rows' /\ rows[i] \in Row
    BY <1>2, RowsOf
  <2>2. rows'[i] = rows[i] \/ rows'[i] = [rows[i] EXCEPT !.cat = cat, !.sound = safe]
    BY <1>2
  <2>3. CASE rows'[i] = rows[i]
    BY <2>1, <2>3 DEF Kept
  <2>4. CASE rows'[i] = [rows[i] EXCEPT !.cat = cat, !.sound = safe]
    <3>1. Kept(i) /\ rows'[i].cat = cat /\ rows'[i].sound = safe
      BY <1>c, <2>1, <2>4 DEF Kept, Row
    <3> QED
      BY <3>1 DEF Written, safe
  <2> QED
    BY <2>2, <2>3, <2>4
<1>4. rows' \in Seq(Row) /\ Len(rows') = Len(rows)
  <2>1. rows' = [i \in DOMAIN rows |-> rows'[i]] /\ \A i \in DOMAIN rows : rows'[i] \in Row
    BY <1>2, <1>3 DEF Kept
  <2> QED
    BY <2>1, LikeSeq DEF TypeOK
<1> QED
  BY <1>1, <1>3, <1>4, EndsMove DEF KeepsRows, cat

LEMMA ExportEffect ==
  ASSUME TypeOK, NEW p \in Proc, Export(p)
  PROVE  LET r == req[p]
             s == req'[p]
         IN  /\ Moved(p) /\ UNCHANGED <<cats, rows, imports>> /\ r.op = "export"
             /\ bundle' \in Seq(FileEntry)
             /\ \/ /\ r.at = "channel" /\ s # Idle /\ s.at = "template"
                   /\ s.file = Entries("channel") /\ bundle' = bundle
                \/ /\ r.at = "template" /\ s # Idle /\ s.at = "task"
                   /\ s.file = r.file \o Entries("template") /\ bundle' = bundle
                \/ r.at = "task" /\ s = Idle /\ bundle' = r.file \o Entries("task")
<1> DEFINE r == req[p]
<1>1. r.op = "export" /\ r \in ExportType /\ r # Idle /\ UNCHANGED <<cats, rows, imports>>
  BY OfOp DEF Export, Idle
<1>2. \A kind : Entries(kind) \in Seq(FileEntry)
  BY EntriesAre DEF TypeOK
<1>3. r.file \in Seq(FileEntry) /\ bundle \in Seq(FileEntry)
  BY <1>1 DEF ExportType, TypeOK
<1>4. ASSUME NEW at \in {"template", "task"}, NEW f \in Seq(FileEntry),
             req' = [req EXCEPT ![p].file = f, ![p].at = at]
      PROVE  Moved(p) /\ req'[p] # Idle /\ req'[p].at = at /\ req'[p].file = f
  <2> DEFINE x == [r EXCEPT !.file = f, !.at = at]
  <2>1. req' = [req EXCEPT ![p] = x]
    BY <1>4 DEF TypeOK
  <2>2. /\ x \in ExportType /\ x.op = r.op /\ x.no = r.no /\ x.met = r.met /\ x.alone = r.alone
        /\ x.at = at /\ x.file = f
    BY <1>1 DEF ExportType
  <2>3. x \in Request /\ x # Idle
    BY <1>1, <2>2 DEF Request, Idle
  <2> HIDE DEF x
  <2> QED
    BY <1>1, <2>1, <2>2, <2>3, OneMoves DEF Moved
<1>5. CASE r.at = "channel"
  <2>1. req' = [req EXCEPT ![p].file = Entries("channel"), ![p].at = "template"] /\ bundle' = bundle
    BY <1>5 DEF Export
  <2> QED
    BY <1>1, <1>2, <1>3, <1>4, <1>5, <2>1
<1>6. CASE r.at = "template"
  <2> DEFINE f == r.file \o Entries("template")
  <2>1. req' = [req EXCEPT ![p].file = @ \o Entries("template"), ![p].at = "task"] /\ bundle' = bundle
    BY <1>6 DEF Export
  <2>2. req' = [req EXCEPT ![p].file = f, ![p].at = "task"]
    BY <2>1 DEF TypeOK
  <2>3. f \in Seq(FileEntry)
    BY <1>2, <1>3
  <2> HIDE DEF f
  <2>4. Moved(p) /\ req'[p] # Idle /\ req'[p].at = "task" /\ req'[p].file = f
    BY <1>4, <2>2, <2>3
  <2> QED
    BY <1>1, <1>3, <1>6, <2>1, <2>4 DEF f
<1>7. CASE r.at = "task"
  <2>1. Ends(p) /\ bundle' = r.file \o Entries("task")
    BY <1>7 DEF Export
  <2> QED
    BY <1>1, <1>2, <1>3, <1>7, <2>1, EndsMove
<1> QED
  BY <1>1, <1>5, <1>6, <1>7 DEF ExportType

\* An import that goes on keeps its file, and what is known of it.
LEMMA ImportMoves ==
  ASSUME TypeOK, NEW p \in Proc, req[p].op = "import",
         NEW x \in ImportType, req' = [req EXCEPT ![p] = x],
         x.no = req[p].no, x.met = req[p].met, x.alone = req[p].alone,
         x.file = req[p].file, x.can = req[p].can, x.beside = req[p].beside,
         req[p].failed => x.failed
  PROVE  Moved(p) /\ req'[p] = x /\ req'[p] # Idle
<1>1. x \in Request /\ x # Idle /\ x.op = "import" /\ req[p] # Idle
  BY DEF Request, Idle, ImportType
<1> QED
  BY <1>1, OneMoves DEF Moved

LEMMA EnsureEffect ==
  ASSUME TypeOK, NEW p \in Proc, Ensure(p)
  PROVE  LET r == req[p]
             s == req'[p]
         IN  /\ Moved(p) /\ UNCHANGED <<rows, bundle, imports>>
             /\ r.op = "import" /\ r.at = "ensure" /\ s # Idle
             /\ s.todo = r.todo /\ s.map = r.map /\ s.failed = r.failed
             /\ \/ r.names = {} /\ s.names = {} /\ s.at = "look" /\ cats' = cats
                \/ \E n \in r.names : /\ n \in Name /\ s.names = r.names \ {n} /\ s.at = "ensure"
                                      /\ IF n \in Pool THEN cats' = cats ELSE cats' = Append(cats, n)
<1> DEFINE r == req[p]
<1>1. /\ r.op = "import" /\ r \in ImportType /\ r.at = "ensure" /\ UNCHANGED <<rows, bundle, imports>>
  BY OfOp DEF Ensure
<1>3. CASE r.names = {} /\ Goes(p, "look") /\ UNCHANGED cats
  <2> DEFINE x == [r EXCEPT !.at = "look"]
  <2>1. /\ x \in ImportType /\ x.no = r.no /\ x.met = r.met /\ x.alone = r.alone
        /\ x.file = r.file /\ x.can = r.can /\ x.beside = r.beside /\ x.failed = r.failed
        /\ x.at = "look" /\ x.names = r.names /\ x.todo = r.todo /\ x.map = r.map
    BY <1>1 DEF ImportType
  <2>2. req' = [req EXCEPT ![p] = x]
    BY <1>3 DEF Goes
  <2> HIDE DEF x
  <2>3. Moved(p) /\ req'[p] = x /\ req'[p] # Idle
    BY <1>1, <2>1, <2>2, ImportMoves
  <2> QED
    BY <1>1, <1>3, <2>1, <2>3
<1>4. ASSUME NEW n \in r.names, req' = [req EXCEPT ![p].names = @ \ {n}],
             IF Exists(n) THEN UNCHANGED cats ELSE InsertName(n)
      PROVE  /\ Moved(p) /\ req'[p] # Idle
             /\ req'[p].todo = r.todo /\ req'[p].map = r.map /\ req'[p].failed = r.failed
             /\ n \in Name /\ req'[p].names = r.names \ {n} /\ req'[p].at = "ensure"
             /\ IF n \in Pool THEN cats' = cats ELSE cats' = Append(cats, n)
  <2> DEFINE x == [r EXCEPT !.names = @ \ {n}]
  <2>1. /\ x \in ImportType /\ x.no = r.no /\ x.met = r.met /\ x.alone = r.alone
        /\ x.file = r.file /\ x.can = r.can /\ x.beside = r.beside /\ x.failed = r.failed
        /\ x.at = "ensure" /\ x.names = r.names \ {n} /\ x.todo = r.todo /\ x.map = r.map
    BY <1>1 DEF ImportType
  <2>2. req' = [req EXCEPT ![p] = x]
    BY <1>4 DEF TypeOK
  <2> HIDE DEF x
  <2>3. Moved(p) /\ req'[p] = x /\ req'[p] # Idle
    BY <1>1, <2>1, <2>2, ImportMoves
  <2>4. n \in Name /\ IF n \in Pool THEN cats' = cats ELSE cats' = Append(cats, n)
    BY <1>1, <1>4 DEF Exists, InsertName, ImportType
  <2> QED
    BY <2>1, <2>3, <2>4
<1> QED
  BY <1>1, <1>3, <1>4 DEF Ensure

\* What stays of an import that has ended.
Ended(r, how) ==
  [no |-> r.no, how |-> how, file |-> r.file, can |-> r.can, undisturbed |-> r.alone /\ ~r.failed]

LEMMA LookEffect ==
  ASSUME TypeOK, NEW p \in Proc, Look(p)
  PROVE  LET r == req[p]
             s == req'[p]
             e == Head(r.todo)
         IN  /\ Moved(p) /\ UNCHANGED <<cats, rows, bundle>> /\ r.op = "import" /\ r.at = "look"
             /\ \/ /\ s = Idle
                   /\ \/ r.todo = <<>> /\ imports' = imports \cup {Ended(r, "done")}
                      \/ /\ r.todo # <<>> /\ imports' = imports \cup {Ended(r, "failed")}
                         /\ (Refused(r, e) \/ ~Exists(CategoryOf(e)))
                \/ /\ s # Idle /\ imports' = imports /\ r.todo # <<>>
                   /\ s.names = r.names /\ s.map = r.map /\ s.failed = r.failed
                   /\ \/ /\ Conflicts(e) \/ NoChannel(r, e)
                         /\ s.at = "look" /\ s.todo = Tail(r.todo)
                      \/ /\ ~NoChannel(r, e) /\ ~Refused(r, e) /\ Exists(CategoryOf(e))
                         /\ s.at = "insert" /\ s.todo = r.todo /\ (Conflicts(e) => s.blind)
<1> DEFINE r == req[p]
           e == Head(r.todo)
<1>1. /\ r.op = "import" /\ r \in ImportType /\ r.at = "look" /\ UNCHANGED <<cats, rows, bundle>>
      /\ r # Idle
  BY OfOp DEF Look, Idle
<1>2. CASE r.todo = <<>> /\ ImportEnds(p, "done")
  <2>1. Ends(p) /\ imports' = imports \cup {Ended(r, "done")}
    BY <1>2 DEF ImportEnds, Ended
  <2> QED
    BY <1>1, <1>2, <2>1, EndsMove
<1>3. CASE /\ r.todo # <<>> /\ (Refused(r, e) \/ ~Exists(CategoryOf(e)))
           /\ ImportEnds(p, "failed")
  <2>1. Ends(p) /\ imports' = imports \cup {Ended(r, "failed")}
    BY <1>3 DEF ImportEnds, Ended
  <2> QED
    BY <1>1, <1>3, <2>1, EndsMove
<1>4. CASE /\ r.todo # <<>> /\ (Conflicts(e) \/ NoChannel(r, e))
           /\ req' = [req EXCEPT ![p].todo = Tail(@)] /\ UNCHANGED imports
  <2> DEFINE x == [r EXCEPT !.todo = Tail(@)]
  <2>0. r.todo \in Seq(FileEntry)
    BY <1>1 DEF ImportType
  <2>t. Tail(r.todo) \in Seq(FileEntry)
    BY <1>4, <2>0
  <2>1. /\ x \in ImportType /\ x.no = r.no /\ x.met = r.met /\ x.alone = r.alone
        /\ x.file = r.file /\ x.can = r.can /\ x.beside = r.beside /\ x.failed = r.failed
        /\ x.at = "look" /\ x.names = r.names /\ x.todo = Tail(r.todo) /\ x.map = r.map
    BY <1>1, <2>t DEF ImportType
  <2>2. req' = [req EXCEPT ![p] = x]
    BY <1>4 DEF TypeOK
  <2> HIDE DEF x
  <2>3. Moved(p) /\ req'[p] = x /\ req'[p] # Idle
    BY <1>1, <2>1, <2>2, ImportMoves
  <2> QED
    BY <1>1, <1>4, <2>1, <2>3
<1>5. ASSUME NEW blind \in BOOLEAN, Conflicts(e) => blind,
             r.todo # <<>>, ~NoChannel(r, e), ~Refused(r, e), Exists(CategoryOf(e)),
             req' = [req EXCEPT ![p].at = "insert", ![p].blind = blind], UNCHANGED imports
      PROVE  /\ Moved(p) /\ req'[p] # Idle
             /\ req'[p].names = r.names /\ req'[p].map = r.map /\ req'[p].failed = r.failed
             /\ req'[p].at = "insert" /\ req'[p].todo = r.todo /\ req'[p].blind = blind
  <2> DEFINE x == [r EXCEPT !.at = "insert", !.blind = blind]
  <2>1. /\ x \in ImportType /\ x.no = r.no /\ x.met = r.met /\ x.alone = r.alone
        /\ x.file = r.file /\ x.can = r.can /\ x.beside = r.beside /\ x.failed = r.failed
        /\ x.at = "insert" /\ x.names = r.names /\ x.todo = r.todo /\ x.map = r.map /\ x.blind = blind
    BY <1>1, <1>5 DEF ImportType
  <2>2. req' = [req EXCEPT ![p] = x]
    BY <1>5 DEF TypeOK
  <2> HIDE DEF x
  <2>3. Moved(p) /\ req'[p] = x /\ req'[p] # Idle
    BY <1>1, <2>1, <2>2, ImportMoves
  <2> QED
    BY <1>1, <1>5, <2>1, <2>3
<1>6. CASE r.todo # <<>>
  <2>1. PICK taken \in Answers(e) :
          \/ /\ Skipped(r, e, taken)
             /\ req' = [req EXCEPT ![p].todo = Tail(@)] /\ UNCHANGED imports
          \/ /\ ~Skipped(r, e, taken) /\ (Refused(r, e) \/ ~Exists(CategoryOf(e)))
             /\ ImportEnds(p, "failed")
          \/ /\ ~Skipped(r, e, taken) /\ ~Refused(r, e) /\ Exists(CategoryOf(e))
             /\ req' = [req EXCEPT ![p].at = "insert", ![p].blind = taken # Conflicts(e)]
             /\ UNCHANGED imports
    BY <1>6 DEF Look, ImportEnds
  <2>2. Skipped(r, e, taken) => Conflicts(e) \/ NoChannel(r, e)
    BY DEF Answers, Skipped
  <2>3. ~Skipped(r, e, taken) => ~NoChannel(r, e) /\ (Conflicts(e) => taken # Conflicts(e))
    BY DEF Answers, Skipped
  <2>4. CASE /\ ~Skipped(r, e, taken) /\ ~Refused(r, e) /\ Exists(CategoryOf(e))
             /\ req' = [req EXCEPT ![p].at = "insert", ![p].blind = taken # Conflicts(e)]
             /\ UNCHANGED imports
    <3> DEFINE blind == taken # Conflicts(e)
    <3>1. blind \in BOOLEAN /\ (Conflicts(e) => blind)
      BY <2>3, <2>4
    <3>2. req' = [req EXCEPT ![p].at = "insert", ![p].blind = blind]
      BY <2>4
    <3> HIDE DEF blind
    <3> QED
      BY <1>1, <1>5, <1>6, <2>3, <2>4, <3>1, <3>2
  <2> QED
    BY <1>3, <1>4, <1>6, <2>1, <2>2, <2>4
<1> QED
  BY <1>1, <1>2, <1>6 DEF Look

\* What an import has still to do is entries of a file.
LEMMA HeadOf ==
  ASSUME NEW t \in Seq(FileEntry), t # <<>>
  PROVE  Head(t) \in FileEntry /\ Tail(t) \in Seq(FileEntry)
  OBVIOUS

LEMMA RemapType ==
  ASSUME NEW map \in SUBSET (Nat \X Nat), NEW id
  PROVE  /\ RemapID(map, id) \in Nat
         /\ RemapID(map, id) # 0 => <<id, RemapID(map, id)>> \in map
<1>1. CASE Mapped(map, id)
  <2> DEFINE m == CHOOSE m \in map : m[1] = id
  <2>1. m \in map /\ m[1] = id
    BY <1>1 DEF Mapped
  <2>2. RemapID(map, id) = m[2]
    BY <1>1 DEF RemapID
  <2> HIDE DEF m
  <2> QED
    BY <2>1, <2>2
<1>2. CASE ~Mapped(map, id)
  BY <1>2 DEF RemapID
<1> QED
  BY <1>1, <1>2

\* The row that the import r makes of the entry e.
Made(x, r, e) ==
  /\ x.kind = e.kind /\ x.title = e.title /\ x.cat = CategoryOf(e) /\ x.sound = ~r.met
  /\ x.by = r.no /\ x.beside = r.beside /\ x.blind = r.blind /\ x.was = e
  /\ x.tpl = (IF e.kind = "task" THEN RemapID(r.map, e.tpl) ELSE 0)
  /\ x.chans = Channels(r.map, e)

LEMMA ImportRowEffect ==
  ASSUME TypeOK, NEW p \in Proc, ImportRow(p)
  PROVE  LET r == req[p]
             s == req'[p]
             e == Head(r.todo)
         IN  /\ Moved(p) /\ UNCHANGED <<cats, bundle, imports>> /\ r.op = "import" /\ r.at = "insert"
             /\ s # Idle /\ s.names = r.names /\ s.failed = r.failed
             /\ s.map = IF e.kind = "task" THEN r.map ELSE r.map \cup {<<e.id, Len(rows) + 1>>}
             /\ \/ s.at = "look" /\ s.todo = Tail(r.todo)
                \/ s.at = "key" /\ s.todo = r.todo
             /\ \E x : AddsRow(x) /\ Made(x, r, e)
<1> DEFINE r == req[p]
           e == Head(r.todo)
           id == Len(rows) + 1
           key == IF e.key = Blank THEN Blank ELSE FreshKey(id, r)
           tpl == IF e.kind = "task" THEN RemapID(r.map, e.tpl) ELSE 0
           chans == Channels(r.map, e)
           safe == ~r.met
           y == NewRow(e.kind, e.title, CategoryOf(e))
           x == [y EXCEPT !.tpl = tpl, !.chans = chans, !.key = key, !.sound = safe,
                          !.by = r.no, !.beside = r.beside, !.blind = r.blind, !.was = e]
           map == IF e.kind = "task" THEN r.map ELSE r.map \cup {<<e.id, id>>}
           todo == IF e.key = Blank THEN Tail(r.todo) ELSE r.todo
           at == IF e.key = Blank THEN "look" ELSE "key"
           z == [r EXCEPT !.map = map, !.todo = todo, !.at = at]
<1>1. /\ r.op = "import" /\ r \in ImportType /\ r.at = "insert" /\ UNCHANGED <<cats, bundle, imports>>
      /\ rows' = Append(rows, x)
  BY OfOp DEF ImportRow
<1>2. r.todo \in Seq(FileEntry) /\ r.todo # <<>> /\ r.map \in SUBSET (Nat \X Nat) /\ id \in Nat
  <2>1. r.todo \in Seq(FileEntry) /\ r.map \in SUBSET (Nat \X Nat)
    BY <1>1 DEF ImportType
  <2>2. id \in Nat
    BY DEF TypeOK
  <2>3. r.todo # <<>>
    BY <1>1 DEF TypeOK, Refers, Import
  <2> QED
    BY <2>1, <2>2, <2>3
<1>3. e \in FileEntry /\ Tail(r.todo) \in Seq(FileEntry)
  BY <1>2, HeadOf
<1>4. z \in ImportType /\ z.no = r.no /\ z.met = r.met /\ z.alone = r.alone
      /\ z.file = r.file /\ z.can = r.can /\ z.beside = r.beside /\ z.failed = r.failed
      /\ z.names = r.names /\ z.map = map /\ z.todo = todo /\ z.at = at
  <2>1. map \in SUBSET (Nat \X Nat)
    BY <1>2, <1>3 DEF FileEntry
  <2>2. todo \in Seq(FileEntry) /\ at \in {"look", "key"}
    BY <1>2, <1>3
  <2> HIDE DEF map, todo, at
  <2> QED
    BY <1>1, <2>1, <2>2 DEF ImportType
<1>5. req' = [req EXCEPT ![p] = z]
  BY DEF ImportRow, TypeOK
<1>6. Moved(p) /\ req'[p] = z /\ req'[p] # Idle
  <2> HIDE DEF z
  <2> QED
    BY <1>1, <1>4, <1>5, ImportMoves
<1>7. key \in Keys /\ tpl \in Nat /\ chans \in SUBSET Nat /\ safe \in BOOLEAN
  <2>1. key \in Keys
    BY <1>1, <1>2 DEF ImportType, Keys, FreshKey
  <2>2. tpl \in Nat /\ chans \in SUBSET Nat
    BY <1>2, RemapType DEF Channels
  <2> QED
    BY <1>1, <2>1, <2>2 DEF ImportType
<1>8. CategoryOf(e) \in Name
  BY <1>3, CatalogAssumption DEF CategoryOf, Normalized, FileEntry
<1>9. /\ y \in Row /\ y.kind = e.kind /\ y.title = e.title /\ y.cat = CategoryOf(e)
  <2>1. e.kind \in Kinds /\ e.title \in Title
    BY <1>3 DEF FileEntry
  <2> QED
    BY <1>8, <2>1 DEF NewRow, Row, Keys
<1>10. r.no \in Nat /\ r.beside \in BOOLEAN /\ r.blind \in BOOLEAN
  BY <1>1 DEF ImportType
<1> HIDE DEF y, key, tpl, chans, safe
<1>11. /\ x \in Row /\ x.kind = e.kind /\ x.title = e.title /\ x.cat = CategoryOf(e) /\ x.sound = safe
       /\ x.by = r.no /\ x.beside = r.beside /\ x.blind = r.blind /\ x.was = e
       /\ x.tpl = tpl /\ x.chans = chans
  BY <1>3, <1>7, <1>9, <1>10 DEF Row
<1> HIDE DEF x, z
<1>12. \/ req'[p].at = "look" /\ req'[p].todo = Tail(r.todo)
       \/ req'[p].at = "key" /\ req'[p].todo = r.todo
  BY <1>4, <1>6
<1> QED
  BY <1>1, <1>4, <1>6, <1>11, <1>12 DEF AddsRow, Made, safe, tpl, chans

LEMMA KeyEffect ==
  ASSUME TypeOK, NEW p \in Proc, KeepKey(p) \/ KeyIsLost(p)
  PROVE  LET r == req[p]
             s == req'[p]
         IN  /\ Moved(p) /\ UNCHANGED <<cats, bundle, imports>> /\ r.op = "import" /\ r.at = "key"
             /\ s # Idle /\ s.names = r.names /\ s.map = r.map /\ s.at = "look"
             /\ s.todo = Tail(r.todo)
             /\ s.failed = r.failed \/ s.failed = TRUE
             /\ KeepsRows
             /\ \A i \in DOMAIN rows : /\ rows'[i].cat = rows[i].cat /\ rows'[i].sound = rows[i].sound
                                       /\ rows'[i].live = rows[i].live
<1> DEFINE r == req[p]
           e == Head(r.todo)
           id == CHOOSE i \in DOMAIN rows : rows[i].by = r.no /\ rows[i].was = e
<1>1. /\ r.op = "import" /\ r \in ImportType /\ r.at = "key" /\ UNCHANGED <<cats, bundle, imports>>
  BY OfOp DEF KeepKey, KeyIsLost
<1>2. r.todo \in Seq(FileEntry) /\ r.todo # <<>>
  BY <1>1 DEF ImportType, TypeOK, Refers, Import
<1>3. e \in FileEntry /\ Tail(r.todo) \in Seq(FileEntry)
  BY <1>2, HeadOf
<1>4. ASSUME NEW failed \in BOOLEAN, r.failed => failed,
             req' = [req EXCEPT ![p] = [r EXCEPT !.todo = Tail(@), !.at = "look", !.failed = failed]]
      PROVE  /\ Moved(p) /\ req'[p] # Idle /\ req'[p].names = r.names /\ req'[p].map = r.map
             /\ req'[p].at = "look" /\ req'[p].todo = Tail(r.todo) /\ req'[p].failed = failed
  <2> DEFINE x == [r EXCEPT !.todo = Tail(@), !.at = "look", !.failed = failed]
  <2>1. /\ x \in ImportType /\ x.no = r.no /\ x.met = r.met /\ x.alone = r.alone
        /\ x.file = r.file /\ x.can = r.can /\ x.beside = r.beside /\ x.failed = failed
        /\ x.at = "look" /\ x.names = r.names /\ x.todo = Tail(r.todo) /\ x.map = r.map
    BY <1>1, <1>3 DEF ImportType
  <2>2. req' = [req EXCEPT ![p] = x]
    BY <1>4
  <2> HIDE DEF x
  <2>3. Moved(p) /\ req'[p] = x /\ req'[p] # Idle
    BY <1>1, <1>4, <2>1, <2>2, ImportMoves
  <2> QED
    BY <2>1, <2>3
<1>5. CASE KeepKey(p)
  <2>1. req' = [req EXCEPT ![p] = [r EXCEPT !.todo = Tail(@), !.at = "look", !.failed = r.failed]]
    <3>1. [r EXCEPT !.todo = Tail(@), !.at = "look"]
            = [r EXCEPT !.todo = Tail(@), !.at = "look", !.failed = r.failed]
      BY <1>1 DEF ImportType
    <3>2. req' = [req EXCEPT ![p] = [r EXCEPT !.todo = Tail(@), !.at = "look"]]
      BY <1>5 DEF KeepKey, TypeOK
    <3> QED
      BY <3>1, <3>2
  <2>2. r.failed \in BOOLEAN
    BY <1>1 DEF ImportType
  <2>3. /\ Moved(p) /\ req'[p] # Idle /\ req'[p].names = r.names /\ req'[p].map = r.map
        /\ req'[p].at = "look" /\ req'[p].todo = Tail(r.todo) /\ req'[p].failed = r.failed
    BY <1>4, <2>1, <2>2
  <2>4. rows' = rows \/ rows' = [rows EXCEPT ![id].key = e.key]
    BY <1>5 DEF KeepKey
  <2>5. /\ KeepsRows
        /\ \A i \in DOMAIN rows : /\ rows'[i].cat = rows[i].cat /\ rows'[i].sound = rows[i].sound
                                  /\ rows'[i].live = rows[i].live
    <3>1. CASE rows' = rows
      BY <3>1, SameRows
    <3>2. CASE rows' = [rows EXCEPT ![id].key = e.key]
      <4> HIDE DEF id
      <4>1. e.key \in Keys
        BY <1>3 DEF FileEntry
      <4> HIDE DEF e
      <4>2. ASSUME NEW i \in DOMAIN rows
            PROVE  Kept(i) /\ rows'[i].cat = rows[i].cat /\ rows'[i].sound = rows[i].sound
                   /\ rows'[i].live = rows[i].live
        <5>1. rows[i] \in Row /\ i \in DOMAIN rows'
          BY <3>2, RowsOf
        <5>2. rows'[i] = rows[i] \/ rows'[i] = [rows[i] EXCEPT !.key = e.key]
          BY <3>2
        <5> QED
          BY <4>1, <5>1, <5>2 DEF Kept, Row
      <4>3. rows' = [i \in DOMAIN rows |-> rows'[i]] /\ \A i \in DOMAIN rows : rows'[i] \in Row
        BY <3>2, <4>2 DEF Kept
      <4>4. rows' \in Seq(Row) /\ Len(rows') = Len(rows)
        BY <4>3, LikeSeq DEF TypeOK
      <4> QED
        BY <4>2, <4>4 DEF KeepsRows
    <3> QED
      BY <2>4, <3>1, <3>2
  <2> QED
    BY <1>1, <2>3, <2>5
<1>6. CASE KeyIsLost(p)
  <2>1. req' = [req EXCEPT ![p] = [r EXCEPT !.todo = Tail(@), !.at = "look", !.failed = TRUE]]
    BY <1>6 DEF KeyIsLost, TypeOK
  <2>2. /\ Moved(p) /\ req'[p] # Idle /\ req'[p].names = r.names /\ req'[p].map = r.map
        /\ req'[p].at = "look" /\ req'[p].todo = Tail(r.todo) /\ req'[p].failed = TRUE
    BY <1>4, <2>1
  <2>3. rows' = rows
    BY <1>6 DEF KeyIsLost
  <2> QED
    BY <1>1, <2>2, <2>3, SameRows
<1> QED
  BY <1>5, <1>6

-----------------------------------------------------------------------------
(* Type correctness                                                        *)

\* What every step of a request does to the tables.
Steps(p) ==
  /\ Moved(p) /\ made' = made
  /\ rows' \in Seq(Row) /\ \A i \in DOMAIN rows : Kept(i)
  /\ cats' \in Seq(Name \cup {Blank}) /\ DOMAIN cats \subseteq DOMAIN cats'
  /\ bundle' \in Seq(FileEntry) /\ imports' \subseteq Outcome
  /\ Refers(p)'
  /\ KeepsRows \/ InsertRow(p) \/ ImportRow(p)

LEMMA KeepsSteps ==
  ASSUME TypeOK, KeepsRows
  PROVE  rows' \in Seq(Row) /\ \A i \in DOMAIN rows : Kept(i)
  BY DEF KeepsRows

LEMMA AppendedCats ==
  ASSUME TypeOK, NEW n \in Name, cats' = Append(cats, n)
  PROVE  /\ cats' \in Seq(Name \cup {Blank})
         /\ \A i \in DOMAIN cats : i \in DOMAIN cats' /\ cats'[i] = cats[i]
         /\ Len(cats) + 1 \in DOMAIN cats' /\ cats'[Len(cats) + 1] = n
<1>1. cats \in Seq(Name \cup {Blank}) /\ n \in Name \cup {Blank} /\ Len(cats) \in Nat
  BY DEF TypeOK
<1>2. cats' \in Seq(Name \cup {Blank}) /\ Len(cats') = Len(cats) + 1
  BY <1>1
<1> QED
  BY <1>1, <1>2

\* The requests about categories and rows.
LEMMA CatalogSteps ==
  ASSUME TypeOK, NEW p \in Proc, CatalogStep(p)
  PROVE  Steps(p)
<1>1. UNCHANGED <<made, bundle, imports>>
  BY DEF CatalogStep
<1>2. cats \in Seq(Name \cup {Blank}) /\ rows \in Seq(Row) /\ bundle \in Seq(FileEntry) /\ imports \subseteq Outcome
  BY DEF TypeOK
<1>3. ASSUME Moved(p), req'[p] = Idle PROVE Refers(p)'
  BY <1>3 DEF Refers, Import, Idle
<1>4. CASE Create(p)
  <2>1. /\ Moved(p) /\ rows' = rows /\ req[p].op = "catcreate"
        /\ cats' = cats \/ \E n \in Name : cats' = Append(cats, n)
    BY <1>4, CreateEffect
  <2>2. cats' \in Seq(Name \cup {Blank}) /\ DOMAIN cats \subseteq DOMAIN cats'
    BY <1>2, <2>1, AppendedCats
  <2>3. Refers(p)'
    BY <2>1 DEF Moved, Refers, Import, Idle
  <2> QED
    BY <1>1, <1>2, <2>1, <2>2, <2>3, SameRows, KeepsSteps DEF Steps
<1>5. CASE Delete(p)
  <2>1. Moved(p) /\ rows' = rows /\ req[p].op = "catdelete"
    BY <1>5, DeleteEffect
  <2>2. cats' = cats \/ cats' = [cats EXCEPT ![req[p].id] = Blank]
    BY <1>5, DeleteEffect
  <2>3. cats' \in Seq(Name \cup {Blank}) /\ DOMAIN cats = DOMAIN cats'
    BY <1>2, <2>2
  <2>4. \/ req'[p] = Idle
        \/ req'[p] # Idle /\ req'[p].id \in DOMAIN cats
    BY <1>5, DeleteEffect DEF TypeOK, Refers
  <2>5. Refers(p)'
    BY <1>3, <2>1, <2>3, <2>4 DEF Moved, Refers, Import
  <2> QED
    BY <1>1, <1>2, <2>1, <2>3, <2>5, SameRows, KeepsSteps DEF Steps
<1>6. CASE Update(p)
  <2>1. Moved(p) /\ req[p].op = "rename"
    BY <1>6, UpdateEffect
  <2>2. Refers(p)'
    BY <2>1 DEF Moved, Refers, Import, Idle
  <2>3. CASE UNCHANGED <<cats, rows>>
    BY <1>1, <1>2, <2>1, <2>2, <2>3, SameRows, KeepsSteps DEF Steps
  <2>4. CASE ~UNCHANGED <<cats, rows>>
    <3>1. PICK old \in Name, new \in Name, met \in BOOLEAN : Renamed(old, new, met)
      BY <1>6, <2>4, UpdateEffect
    <3>2. KeepsRows /\ cats' \in Seq(Name \cup {Blank}) /\ Len(cats') = Len(cats)
      BY <3>1, RenamedEffect
    <3> QED
      BY <1>1, <1>2, <2>1, <2>2, <3>2, KeepsSteps DEF Steps
  <2> QED
    BY <2>3, <2>4
<1>7. CASE Checks(p)
  <2>1. Moved(p) /\ UNCHANGED <<cats, rows>> /\ req[p].op \in {"create", "update", "setcat"}
    BY <1>7, ChecksEffect
  <2>2. Refers(p)'
    BY <2>1 DEF Moved, Refers, Import, Idle, TypeOK
  <2> QED
    BY <1>1, <1>2, <2>1, <2>2, SameRows, KeepsSteps DEF Steps
<1>8. CASE InsertRow(p)
  <2>1. Moved(p) /\ req'[p] = Idle /\ cats' = cats /\ \E x : AddsRow(x)
    BY <1>8, InsertRowEffect
  <2> QED
    BY <1>1, <1>2, <1>3, <1>8, <2>1, AddedRow DEF Steps
<1>9. CASE UpdateRead(p)
  <2>1. Moved(p) /\ UNCHANGED <<cats, rows>> /\ req[p].op = "update"
    BY <1>9, UpdateReadEffect
  <2>2. Refers(p)'
    BY <2>1 DEF Moved, Refers, Import, Idle, TypeOK
  <2> QED
    BY <1>1, <1>2, <2>1, <2>2, SameRows, KeepsSteps DEF Steps
<1>10. CASE UpdateWrite(p)
  <2>1. Moved(p) /\ req'[p] = Idle /\ cats' = cats /\ KeepsRows
    BY <1>10, UpdateWriteEffect
  <2> QED
    BY <1>1, <1>2, <1>3, <2>1, KeepsSteps DEF Steps
<1>11. CASE BatchDelete(p)
  <2>1. Moved(p) /\ req'[p] = Idle /\ cats' = cats /\ KeepsRows
    BY <1>11, BatchDeleteEffect
  <2> QED
    BY <1>1, <1>2, <1>3, <2>1, KeepsSteps DEF Steps
<1>12. CASE BatchSetCategory(p)
  <2>1. Moved(p) /\ req'[p] = Idle /\ cats' = cats /\ KeepsRows
    BY <1>12, BatchSetCategoryEffect
  <2> QED
    BY <1>1, <1>2, <1>3, <2>1, KeepsSteps DEF Steps
<1> QED
  BY <1>4, <1>5, <1>6, <1>7, <1>8, <1>9, <1>10, <1>11, <1>12 DEF CatalogStep

\* Export and import.
LEMMA BackupSteps ==
  ASSUME TypeOK, NEW p \in Proc, BackupStep(p)
  PROVE  Steps(p)
<1>1. made' = made
  BY DEF BackupStep
<1>2. cats \in Seq(Name \cup {Blank}) /\ rows \in Seq(Row) /\ bundle \in Seq(FileEntry) /\ imports \subseteq Outcome
  BY DEF TypeOK
<1>3. ASSUME Moved(p), req'[p] = Idle PROVE Refers(p)'
  BY <1>3 DEF Refers, Import, Idle
<1>4. CASE Export(p)
  <2>1. Moved(p) /\ UNCHANGED <<cats, rows, imports>> /\ req[p].op = "export" /\ bundle' \in Seq(FileEntry)
    BY <1>4, ExportEffect
  <2>2. Refers(p)'
    BY <2>1 DEF Moved, Refers, Import, Idle
  <2> QED
    BY <1>1, <1>2, <2>1, <2>2, SameRows, KeepsSteps DEF Steps
<1>5. CASE Ensure(p)
  <2>1. Moved(p) /\ UNCHANGED <<rows, bundle, imports>> /\ req[p].op = "import" /\ req'[p] # Idle
    BY <1>5, EnsureEffect
  <2>2. req'[p].at \in {"look", "ensure"} /\ (cats' = cats \/ \E n \in Name : cats' = Append(cats, n))
    BY <1>5, EnsureEffect
  <2>3. cats' \in Seq(Name \cup {Blank}) /\ DOMAIN cats \subseteq DOMAIN cats'
    BY <1>2, <2>2, AppendedCats
  <2>4. Refers(p)'
    BY <2>1, <2>2 DEF Moved, Refers, Import
  <2> QED
    BY <1>1, <1>2, <2>1, <2>3, <2>4, SameRows, KeepsSteps DEF Steps
<1>6. CASE Look(p)
  <2>1. Moved(p) /\ UNCHANGED <<cats, rows, bundle>> /\ req[p].op = "import"
    BY <1>6, LookEffect
  <2>2. \/ req'[p] = Idle
        \/ req'[p].at = "look"
        \/ req'[p].todo # <<>>
    BY <1>6, LookEffect
  <2>3. Refers(p)'
    BY <1>3, <2>1, <2>2 DEF Moved, Refers, Import
  <2>4. imports' = imports \/ \E how \in {"done", "failed"} : imports' = imports \cup {Ended(req[p], how)}
    BY <1>6, LookEffect
  <2>5. ASSUME NEW how \in {"done", "failed"} PROVE Ended(req[p], how) \in Outcome
    <3> DEFINE u == req[p].alone /\ ~req[p].failed
    <3>1. u \in BOOLEAN /\ req[p] \in ImportType
      BY <2>1, OfOp DEF ImportType
    <3>2. Ended(req[p], how) = [no |-> req[p].no, how |-> how, file |-> req[p].file, can |-> req[p].can,
                                undisturbed |-> u]
      BY DEF Ended
    <3> HIDE DEF u
    <3> QED
      BY <3>1, <3>2 DEF ImportType, Outcome
  <2>6. imports' \subseteq Outcome
    BY <1>2, <2>4, <2>5
  <2> QED
    BY <1>1, <1>2, <2>1, <2>3, <2>6, SameRows, KeepsSteps DEF Steps
<1>7. CASE ImportRow(p)
  <2>1. Moved(p) /\ UNCHANGED <<cats, bundle, imports>> /\ req[p].op = "import" /\ req'[p] # Idle
    BY <1>7, ImportRowEffect
  <2>2. req'[p].at = "look" \/ req'[p].todo = req[p].todo
    BY <1>7, ImportRowEffect
  <2>3. req[p].todo # <<>>
    BY <1>7, ImportRowEffect DEF TypeOK, Refers, Import
  <2>4. Refers(p)'
    BY <2>1, <2>2, <2>3 DEF Moved, Refers, Import
  <2>5. \E x : AddsRow(x)
    BY <1>7, ImportRowEffect
  <2> QED
    BY <1>1, <1>2, <1>7, <2>1, <2>4, <2>5, AddedRow DEF Steps
<1>8. CASE KeepKey(p) \/ KeyIsLost(p)
  <2>1. Moved(p) /\ UNCHANGED <<cats, bundle, imports>> /\ req[p].op = "import" /\ req'[p] # Idle
        /\ req'[p].at = "look" /\ KeepsRows
    BY <1>8, KeyEffect
  <2>2. Refers(p)'
    BY <2>1 DEF Moved, Refers, Import
  <2> QED
    BY <1>1, <1>2, <2>1, <2>2, KeepsSteps DEF Steps
<1>9. CASE EndsEarly(p)
  <2>1. Moved(p) /\ req'[p] = Idle /\ UNCHANGED <<cats, rows, bundle, imports>>
    BY <1>9, EndsMove DEF EndsEarly
  <2> QED
    BY <1>1, <1>2, <1>3, <2>1, SameRows, KeepsSteps DEF Steps
<1> QED
  BY <1>4, <1>5, <1>6, <1>7, <1>8, <1>9 DEF BackupStep

LEMMA NextIs ==
  ASSUME [Next]_vars
  PROVE  \/ UNCHANGED vars
         \/ \E p \in Proc :
              \/ \E r \in CatalogRequests \cup BackupRequests : Begins(p, r)
              \/ CatalogStep(p)
              \/ BackupStep(p)
  BY DEF Next

LEMMA TypeInit == Init => TypeOK
<1> SUFFICES ASSUME Init PROVE TypeOK
  OBVIOUS
<1>1. rows \in Seq(Row)
  BY FirstAssumption DEF Init
<1>2. cats \in Seq(Name \cup {Blank})
  <2>1. <<Default>> \in Seq(Name \cup {Blank}) /\ FirstCats \in Seq(Name \cup {Blank})
    BY CatalogAssumption, FirstAssumption
  <2> QED
    BY <2>1 DEF Init
<1>3. bundle \in Seq(FileEntry)
  <2>1. \A kind : Entries(kind) \in Seq(FileEntry)
    BY <1>1, EntriesAre
  <2>2. bundle = Entries("channel") \o Entries("template") \o Entries("task")
    BY DEF Init
  <2> QED
    BY <2>1, <2>2
<1>4. req \in [Proc -> Request]
  BY DEF Init, Request
<1>5. \A p \in Proc : Refers(p)
  BY DEF Init, Refers, Import, Idle
<1>6. made \in Nat /\ imports \subseteq Outcome
  BY DEF Init
<1> QED
  BY <1>1, <1>2, <1>3, <1>4, <1>5, <1>6 DEF TypeOK

LEMMA TypeStep == TypeOK /\ [Next]_vars => TypeOK'
<1> SUFFICES ASSUME TypeOK, [Next]_vars PROVE TypeOK'
  OBVIOUS
<1>1. CASE UNCHANGED vars
  BY <1>1 DEF vars, TypeOK, Refers, Import
<1>2. ASSUME NEW p \in Proc, NEW r \in CatalogRequests \cup BackupRequests, Begins(p, r)
      PROVE  TypeOK'
  <2>1. /\ UNCHANGED <<cats, rows, bundle, imports>> /\ made' = made + 1
        /\ req' \in [Proc -> Request] /\ \A f \in DOMAIN r : req'[p][f] = r[f]
        /\ req'[p].op = r.op /\ req'[p].at = r.at /\ \A q \in Proc \ {p} : Stays(q)
    BY <1>2, BeginsEffect
  <2> DEFINE n == [no |-> 0, met |-> FALSE, alone |-> FALSE]
  <2>2. n \in Notes
    BY DEF Notes
  <2> HIDE DEF n
  <2>3. /\ r.op = "catdelete" => r.at = "find"
        /\ r.op \in {"export", "import"} => r \in BackupRequests
        /\ r.op = "update" => "id" \in DOMAIN r /\ r.id \in DOMAIN rows
    BY <2>2, Begun
  <2>4. r.op = "import" => r.at = "ensure"
    BY <2>2, <2>3, BackupRequestType
  <2>5. Refers(p)'
    BY <2>1, <2>3, <2>4 DEF Refers, Import
  <2>6. \A q \in Proc \ {p} : Refers(q)'
    BY <2>1 DEF TypeOK, Stays, Refers, Import
  <2> QED
    BY <2>1, <2>5, <2>6 DEF TypeOK
<1>3. ASSUME NEW p \in Proc, CatalogStep(p) \/ BackupStep(p)
      PROVE  TypeOK'
  <2>1. Steps(p)
    BY <1>3, CatalogSteps, BackupSteps
  <2>2. DOMAIN rows \subseteq DOMAIN rows'
    BY <2>1 DEF Steps, Kept
  <2>3. \A q \in Proc \ {p} : Refers(q)'
    BY <2>1, <2>2 DEF TypeOK, Steps, Moved, Refers, Import
  <2> QED
    BY <2>1, <2>3 DEF TypeOK, Steps, Moved
<1> QED
  BY <1>1, <1>2, <1>3, NextIs

\* Every request is well formed, and so are the tables, the file and the
\* records of imports.
THEOREM BackupTypes == Spec => []TypeOK
<1> QED
  BY TypeInit, TypeStep, PTL DEF Spec

-----------------------------------------------------------------------------
(* Who is served beside whom                                               *)

LEMMA BesideStep == TypeOK /\ Beside /\ [Next]_vars => Beside'
<1> SUFFICES ASSUME TypeOK, Beside, [Next]_vars PROVE Beside'
  OBVIOUS
<1>1. CASE UNCHANGED vars
  BY <1>1 DEF vars, Beside, Import
<1>2. ASSUME NEW p \in Proc, NEW r \in CatalogRequests \cup BackupRequests, Begins(p, r)
      PROVE  Beside'
  <2>1. /\ \A f \in DOMAIN r : req'[p][f] = r[f]
        /\ req'[p].op = r.op /\ req'[p] # Idle
        /\ req'[p].met = \E q \in Proc \ {p} : req[q] # Idle /\ Removes(req[q])
        /\ req'[p].alone = \A q \in Proc \ {p} : req[q] = Idle
        /\ \A q \in Proc \ {p} : Stays(q) /\ (req[q] # Idle =>
              req'[q].met = (req[q].met \/ Removes(r)) /\ req'[q].alone = FALSE)
    BY <1>2, BeginsEffect
  <2> DEFINE n == [no |-> 0, met |-> FALSE, alone |-> FALSE]
  <2>2. n \in Notes
    BY DEF Notes
  <2> HIDE DEF n
  <2>3. r.op \in {"export", "import"} => r \in BackupRequests
    BY <2>2, Begun
  <2>4. r.op = "import" =>
          "beside" \in DOMAIN r /\ r.beside = \E q \in Proc : req[q].op = "import"
    BY <2>2, <2>3, BackupRequestType
  <2>5. ASSUME NEW q \in Proc \ {p}, req'[q] # Idle
        PROVE  /\ req[q] # Idle /\ Removes(req'[q]) = Removes(req[q])
               /\ Import(q)' = (req[q].op = "import")
    BY <2>1, <2>5 DEF Stays, Removes, Import
  <2>6. ASSUME NEW q \in Proc \ {p}, req'[q] # Idle
        PROVE  /\ Removes(req'[q]) => req'[p].met
               /\ Removes(req'[p]) => req'[q].met
               /\ Import(p)' /\ Import(q)' => req'[p].beside
               /\ ~req'[p].alone /\ ~req'[q].alone
    <3>1. Removes(req'[q]) => req'[p].met
      BY <2>1, <2>5, <2>6
    <3>2. Removes(req'[p]) => req'[q].met
      BY <2>1, <2>5, <2>6 DEF Removes
    <3>3. Import(p)' /\ Import(q)' => req'[p].beside
      BY <2>1, <2>4, <2>5, <2>6 DEF Import
    <3>4. ~req'[p].alone /\ ~req'[q].alone
      BY <2>1, <2>5, <2>6
    <3> QED
      BY <3>1, <3>2, <3>3, <3>4
  <2>7. ASSUME NEW q \in Proc \ {p}, NEW s \in Proc \ {p}, q # s, req'[q] # Idle, req'[s] # Idle
        PROVE  /\ Removes(req'[s]) => req'[q].met
               /\ Import(q)' /\ Import(s)' => req'[q].beside \/ req'[s].beside
               /\ ~req'[q].alone
    <3>1. /\ Removes(req[s]) => req[q].met
          /\ Import(q) /\ Import(s) => req[q].beside \/ req[s].beside
      BY <2>5, <2>7 DEF Beside
    <3>2. Stays(q) /\ Stays(s)
      BY <2>1
    <3> QED
      BY <2>1, <2>5, <2>7, <3>1, <3>2 DEF Stays, Import
  <2> QED
    BY <2>6, <2>7 DEF Beside
<1>3. ASSUME NEW p \in Proc, CatalogStep(p) \/ BackupStep(p)
      PROVE  Beside'
  <2>1. Moved(p)
    BY <1>3, CatalogSteps, BackupSteps DEF Steps
  <2>2. ASSUME NEW q \in Proc, req'[q] # Idle
        PROVE  /\ req[q] # Idle /\ Removes(req'[q]) = Removes(req[q])
               /\ Import(q)' = Import(q) /\ req'[q].met = req[q].met /\ req'[q].alone = req[q].alone
               /\ Import(q) => req'[q].beside = req[q].beside
    BY <2>1, <2>2 DEF Moved, Removes, Import
  <2> QED
    BY <2>2 DEF Beside
<1> QED
  BY <1>1, <1>2, <1>3, NextIs

-----------------------------------------------------------------------------
(* Categories                                                              *)

\* A step that takes no name away, and after which a row relies on a category
\* only if it did before, or if its writer, who saw nobody remove a category,
\* has looked it up.
Quiet(p) ==
  /\ \A i \in DOMAIN cats : i \in DOMAIN cats' /\ cats'[i] = cats[i]
  /\ \A i \in DOMAIN rows' : rows'[i].live /\ rows'[i].sound =>
       \/ i \in DOMAIN rows /\ rows[i].live /\ rows[i].sound /\ rows'[i].cat = rows[i].cat
       \/ ~req[p].met /\ rows'[i].cat \in Pool

LEMMA QuietPool ==
  ASSUME NEW p, Quiet(p)
  PROVE  Pool \subseteq Pool'
  BY DEF Quiet, Pool

LEMMA QuietStep ==
  ASSUME TypeOK, Beside, Looked, Deletes, CategoryKnown, NEW p \in Proc, Moved(p), Quiet(p)
  PROVE  /\ CategoryKnown'
         /\ \A q \in Proc \ {p} : LookedUp(q)' /\ DeletesUnused(q)'
<1>1. CategoryKnown'
  BY QuietPool DEF CategoryKnown, Quiet, Live
<1>2. ASSUME NEW q \in Proc \ {p} PROVE LookedUp(q)'
  BY QuietPool DEF Looked, LookedUp, Moved, Import
<1>3. ASSUME NEW q \in Proc \ {p} PROVE DeletesUnused(q)'
  <2>0. req'[q] = req[q]
    BY DEF Moved
  <2>1. SUFFICES ASSUME req[q].op = "catdelete" PROVE DeletesUnused(q)'
    BY <2>0 DEF DeletesUnused
  <2>2. req[p].met
    <3>1. req[q] # Idle /\ req[p] # Idle
      BY <2>1 DEF Moved, Idle
    <3> QED
      BY <2>1, <3>1 DEF Beside, Removes
  <2>3. ASSUME NEW id \in DOMAIN cats, Unused(id) PROVE Unused(id)'
    BY <2>2, <2>3 DEF Unused, Quiet, Live
  <2>4. req[q].at # "find" => req[q].id \in DOMAIN cats
    BY <2>1 DEF TypeOK, Refers
  <2> QED
    BY <2>0, <2>3, <2>4 DEF Deletes, DeletesUnused, Quiet
<1> QED
  BY <1>1, <1>2, <1>3

\* What has no row rely on another category is quiet.
LEMMA SameIsQuiet ==
  ASSUME NEW p, rows' = rows, \A i \in DOMAIN cats : i \in DOMAIN cats' /\ cats'[i] = cats[i]
  PROVE  Quiet(p)
  BY DEF Quiet

\* A step of a request that is not about to write, nor about to delete.
LEMMA Harmless ==
  ASSUME NEW p, req'[p] = Idle \/
           (~Writes(req'[p]) /\ ~(req'[p].op = "import" /\ req'[p].at = "insert")
            /\ req'[p].op # "catdelete")
  PROVE  LookedUp(p)' /\ DeletesUnused(p)'
  BY DEF LookedUp, DeletesUnused, Import, Idle

LEMMA QuietHarmless ==
  ASSUME TypeOK, Beside, Looked, Deletes, CategoryKnown, NEW p \in Proc, Moved(p), Quiet(p),
         req'[p] = Idle \/
           (~Writes(req'[p]) /\ ~(req'[p].op = "import" /\ req'[p].at = "insert")
            /\ req'[p].op # "catdelete")
  PROVE  Looked' /\ Deletes' /\ CategoryKnown'
<1>1. /\ CategoryKnown'
      /\ \A q \in Proc \ {p} : LookedUp(q)' /\ DeletesUnused(q)'
  BY QuietStep
<1>2. LookedUp(p)' /\ DeletesUnused(p)'
  BY Harmless
<1> QED
  BY <1>1, <1>2 DEF Looked, Deletes

\* A row that a writer adds.
LEMMA AddsQuietly ==
  ASSUME TypeOK, NEW p \in Proc, NEW x, AddsRow(x), cats' = cats,
         x.sound => ~req[p].met /\ x.cat \in Pool
  PROVE  Quiet(p)
<1>1. /\ DOMAIN rows' = DOMAIN rows \cup {Len(rows) + 1} /\ rows'[Len(rows) + 1] = x
      /\ \A i \in DOMAIN rows : rows'[i] = rows[i]
  BY AddedRow
<1>2. ASSUME NEW i \in DOMAIN rows', rows'[i].live, rows'[i].sound
      PROVE  \/ i \in DOMAIN rows /\ rows[i].live /\ rows[i].sound /\ rows'[i].cat = rows[i].cat
             \/ ~req[p].met /\ rows'[i].cat \in Pool
  BY <1>1, <1>2
<1> QED
  BY <1>2 DEF Quiet

\* A row that a writer changes.
LEMMA WritesQuietly ==
  ASSUME TypeOK, Looked, NEW p \in Proc, KeepsRows, cats' = cats, req[p] # Idle, Writes(req[p]),
         \A i \in DOMAIN rows : rows'[i] = rows[i] \/ Written(i, Normalized(req[p].cat), req[p].met)
  PROVE  Quiet(p)
<1>1. DOMAIN rows' = DOMAIN rows
  BY DEF KeepsRows, TypeOK
<1>2. ~req[p].met => Normalized(req[p].cat) \in Pool
  BY DEF Looked, LookedUp
<1> QED
  BY <1>1, <1>2 DEF Quiet, Written

\* The deletion of a category: nothing relies on it, and whoever is about to
\* write knows that one is being deleted.
LEMMA RemovalStep ==
  ASSUME TypeOK, Beside, Looked, Deletes, CategoryKnown, NEW p \in Proc, Moved(p), req'[p] = Idle,
         req[p].op = "catdelete", req[p].at = "remove", rows' = rows,
         cats' = [cats EXCEPT ![req[p].id] = Blank]
  PROVE  Looked' /\ Deletes' /\ CategoryKnown'
<1> DEFINE id == req[p].id
<1>1. id \in DOMAIN cats /\ Unused(id) /\ cats \in Seq(Name \cup {Blank})
  BY DEF TypeOK, Refers, Deletes, DeletesUnused
<1>2. DOMAIN cats' = DOMAIN cats /\ cats'[id] = Blank /\ \A i \in DOMAIN cats \ {id} : cats'[i] = cats[i]
  BY <1>1
<1>3. CategoryKnown'
  <2> SUFFICES ASSUME NEW i \in DOMAIN rows, Live(i), rows[i].sound
               PROVE  rows[i].cat \in Pool'
    BY DEF CategoryKnown, Live
  <2>1. rows[i].cat \in Pool /\ rows[i].cat # cats[id]
    BY <1>1 DEF CategoryKnown, Unused
  <2>2. PICK j \in DOMAIN cats : cats[j] = rows[i].cat /\ cats[j] # Blank
    BY <2>1 DEF Pool
  <2>3. j \in DOMAIN cats' /\ cats'[j] = rows[i].cat
    BY <1>2, <2>1, <2>2
  <2> QED
    BY <2>2, <2>3 DEF Pool
<1>4. ASSUME NEW q \in Proc PROVE LookedUp(q)' /\ DeletesUnused(q)'
  <2>1. CASE q = p
    BY <2>1, Harmless
  <2>2. CASE q # p
    <3>0. req'[q] = req[q] /\ req[p] # Idle /\ Removes(req[p])
      BY <2>2 DEF Moved, Removes
    <3>1. LookedUp(q)'
      BY <2>2, <3>0 DEF Beside, LookedUp
    <3>2. ASSUME NEW k \in DOMAIN cats, Unused(k) \/ k = id PROVE Unused(k)'
      <4>1. CASE k = id
        <5>1. \A i \in DOMAIN rows : rows[i].cat # Blank
          BY CatalogAssumption, RowsOf DEF Row
        <5> QED
          BY <1>2, <4>1, <5>1 DEF Unused
      <4>2. CASE k # id
        BY <1>2, <3>2, <4>2 DEF Unused, Live
      <4> QED
        BY <4>1, <4>2
    <3>3. ASSUME req[q].op = "catdelete", req[q].at # "find" PROVE req[q].id \in DOMAIN cats
      BY <3>3 DEF TypeOK, Refers
    <3>4. DeletesUnused(q)'
      BY <1>2, <3>0, <3>2, <3>3 DEF Deletes, DeletesUnused
    <3> QED
      BY <3>1, <3>4
  <2> QED
    BY <2>1, <2>2
<1> QED
  BY <1>3, <1>4 DEF Looked, Deletes

\* A rename: the rows that had the old name have the new one, which is in the
\* pool now if the old one was; a category that is being deleted gets no row,
\* since the new name was taken before only if the old one was not there.
LEMMA RenameStep ==
  ASSUME TypeOK, Beside, Looked, Deletes, CategoryKnown, NEW p \in Proc, Moved(p), req'[p] = Idle,
         req[p].op = "rename", NEW old \in Name, NEW new \in Name, Renamed(old, new, req[p].met),
         req[p].met \in BOOLEAN
  PROVE  Looked' /\ Deletes' /\ CategoryKnown'
<1> DEFINE met == req[p].met
<1>0. ~(Exists(old) /\ Exists(new))
  BY DEF Renamed
<1>1. /\ KeepsRows
      /\ \A i \in DOMAIN rows :
           IF rows[i].cat = old THEN Recategorized(i, new, met) ELSE rows'[i] = rows[i]
      /\ Len(cats') = Len(cats) /\ cats' \in Seq(Name \cup {Blank})
      /\ \A i \in DOMAIN cats : cats'[i] = IF cats[i] = old THEN new ELSE cats[i]
  BY RenamedEffect
<1>2. DOMAIN rows' = DOMAIN rows /\ DOMAIN cats' = DOMAIN cats
  BY <1>1 DEF KeepsRows, TypeOK
<1>3. ASSUME NEW i \in DOMAIN rows, rows'[i].live, rows'[i].sound
      PROVE  /\ Live(i) /\ rows[i].sound
             /\ rows[i].cat = old => ~met /\ rows'[i].cat = new
             /\ rows[i].cat # old => rows'[i].cat = rows[i].cat
  BY <1>1, <1>3 DEF KeepsRows, Kept, Live, Recategorized
<1>b. old # Blank /\ new # Blank
  BY CatalogAssumption
<1>4. CategoryKnown'
  <2> SUFFICES ASSUME NEW i \in DOMAIN rows, rows'[i].live, rows'[i].sound
               PROVE  rows'[i].cat \in Pool'
    BY <1>2 DEF CategoryKnown, Live
  <2>1. rows[i].cat \in Pool
    BY <1>3 DEF CategoryKnown
  <2>2. PICK j \in DOMAIN cats : cats[j] = rows[i].cat /\ cats[j] # Blank
    BY <2>1 DEF Pool
  <2>3. cats'[j] = rows'[i].cat /\ j \in DOMAIN cats'
    BY <1>1, <1>2, <1>3, <2>2
  <2>4. rows'[i].cat # Blank
    BY <1>3, <1>b, <2>2
  <2> QED
    BY <2>3, <2>4 DEF Pool
<1>5. ASSUME NEW q \in Proc PROVE LookedUp(q)' /\ DeletesUnused(q)'
  <2>1. CASE q = p
    BY <2>1, Harmless
  <2>2. CASE q # p
    <3>0. req'[q] = req[q] /\ req[p] # Idle /\ Removes(req[p])
      BY <2>2 DEF Moved, Removes
    <3>1. LookedUp(q)'
      BY <2>2, <3>0 DEF Beside, LookedUp
    <3>2. SUFFICES ASSUME req[q].op = "catdelete" PROVE DeletesUnused(q)'
      BY <3>0, <3>1 DEF DeletesUnused
    <3>3. met
      <4>1. req[q] # Idle /\ Removes(req[q])
        BY <3>2 DEF Removes, Idle
      <4> QED
        BY <2>2, <3>0, <4>1 DEF Beside
    <3>4. ASSUME NEW k \in DOMAIN cats, Unused(k) \/ cats[k] = old PROVE Unused(k)'
      <4>1. SUFFICES ASSUME NEW i \in DOMAIN rows, rows'[i].live, rows'[i].sound
                     PROVE  rows'[i].cat # cats'[k]
        BY <1>2 DEF Unused, Live
      <4>2. Live(i) /\ rows[i].sound /\ rows[i].cat # old /\ rows'[i].cat = rows[i].cat
        BY <1>3, <3>3, <4>1
      <4>3. CASE cats[k] = old
        <5>1. Exists(old)
          BY <1>b, <4>3 DEF Exists, Pool
        <5>2. rows[i].cat # new
          BY <1>0, <4>2, <5>1 DEF CategoryKnown, Exists
        <5> QED
          BY <1>1, <4>2, <4>3, <5>2
      <4>4. CASE cats[k] # old
        BY <1>1, <3>4, <4>2, <4>4 DEF Unused
      <4> QED
        BY <4>3, <4>4
    <3>5. req[q].at # "find" => req[q].id \in DOMAIN cats
      BY <3>2 DEF TypeOK, Refers
    <3>6. ASSUME NEW k \in DOMAIN cats, NEW name, cats[k] = name PROVE cats'[k] = name \/ Unused(k)'
      BY <1>1, <3>4, <3>6
    <3> QED
      BY <3>0, <3>4, <3>5, <3>6 DEF Deletes, DeletesUnused
  <2> QED
    BY <2>1, <2>2
<1> QED
  BY <1>4, <1>5 DEF Looked, Deletes

LEMMA CatalogCategories ==
  ASSUME TypeOK, Beside, Looked, Deletes, CategoryKnown, NEW p \in Proc, CatalogStep(p)
  PROVE  Looked' /\ Deletes' /\ CategoryKnown'
<1>1. CASE Create(p)
  <2>1. /\ Moved(p) /\ rows' = rows /\ req[p].op = "catcreate"
        /\ cats' = cats \/ \E n \in Name : cats' = Append(cats, n)
    BY <1>1, CreateEffect
  <2>2. Quiet(p)
    BY <2>1, AppendedCats, SameIsQuiet
  <2>3. req'[p] = Idle \/ req'[p].op = "catcreate"
    BY <2>1 DEF Moved
  <2> QED
    BY <2>1, <2>2, <2>3, QuietHarmless DEF Writes
<1>2. CASE Delete(p)
  <2> DEFINE r == req[p]
             s == req'[p]
  <2>1. Moved(p) /\ rows' = rows /\ r.op = "catdelete"
    BY <1>2, DeleteEffect
  <2>2. CASE r.at = "remove" /\ s = Idle /\ cats' = [cats EXCEPT ![r.id] = Blank]
    BY <2>1, <2>2, RemovalStep
  <2>3. CASE cats' = cats /\ s = Idle
    <3>1. Quiet(p)
      BY <2>1, <2>3, SameIsQuiet
    <3> QED
      BY <2>1, <2>3, <3>1, QuietHarmless
  <2>4. CASE /\ cats' = cats /\ s # Idle
             /\ \/ s.at = "read"
                \/ s.at = "count" /\ s.id = r.id /\ s.name = cats[s.id]
                \/ r.at = "count" /\ s.at = "remove" /\ s.id = r.id /\ References(r.name) = {}
    <3>1. Quiet(p)
      BY <2>1, <2>4, SameIsQuiet
    <3>2. CategoryKnown' /\ \A q \in Proc \ {p} : LookedUp(q)' /\ DeletesUnused(q)'
      BY <2>1, <3>1, QuietStep
    <3>3. s.op = "catdelete"
      BY <2>1, <2>4 DEF Moved
    <3>4. LookedUp(p)'
      BY <3>3 DEF LookedUp, Writes, Import
    <3>5. ASSUME r.at = "count", References(r.name) = {} PROVE Unused(r.id)
      <4>1. cats[r.id] = r.name \/ Unused(r.id)
        BY <2>1, <3>5 DEF Deletes, DeletesUnused
      <4> QED
        BY <3>5, <4>1 DEF References, Unused
    <3>6. ASSUME NEW k, Unused(k) PROVE Unused(k)'
      BY <2>1, <2>4, <3>6 DEF Unused, Live
    <3>7. DeletesUnused(p)'
      BY <2>4, <3>5, <3>6 DEF DeletesUnused
    <3> QED
      BY <3>2, <3>4, <3>7 DEF Looked, Deletes
  <2>5. \/ s # Idle /\ s.at = "read" /\ cats' = cats
        \/ s # Idle /\ s.at = "count" /\ s.id = r.id /\ s.name = cats[s.id] /\ cats' = cats
        \/ r.at = "count" /\ s # Idle /\ s.at = "remove" /\ s.id = r.id /\ References(r.name) = {} /\ cats' = cats
        \/ r.at = "remove" /\ s = Idle /\ cats' = [cats EXCEPT ![r.id] = Blank]
        \/ s = Idle /\ cats' = cats
    BY <1>2, DeleteEffect
  <2> HIDE DEF r, s
  <2> QED
    BY <2>2, <2>3, <2>4, <2>5
<1>3. CASE Update(p)
  <2>1. Moved(p) /\ req[p].op = "rename"
    BY <1>3, UpdateEffect
  <2>2. CASE UNCHANGED <<cats, rows>>
    <3>1. Quiet(p)
      BY <2>2, SameIsQuiet
    <3>2. req'[p] = Idle \/ req'[p].op = "rename"
      BY <2>1 DEF Moved
    <3> QED
      BY <2>1, <3>1, <3>2, QuietHarmless DEF Writes
  <2>3. CASE ~UNCHANGED <<cats, rows>>
    <3>1. /\ req'[p] = Idle /\ Renamed(req[p].name, req[p].to, req[p].met)
          /\ req[p].name \in Name /\ req[p].to \in Name /\ req[p].met \in BOOLEAN
      BY <1>3, <2>3, UpdateEffect
    <3> QED
      BY <2>1, <3>1, RenameStep
  <2> QED
    BY <2>2, <2>3
<1>4. CASE Checks(p)
  <2>1. /\ Moved(p) /\ UNCHANGED <<cats, rows>> /\ req[p].op \in {"create", "update", "setcat"}
        /\ req'[p] = Idle \/ Exists(Normalized(req[p].cat))
    BY <1>4, ChecksEffect
  <2>2. Quiet(p)
    BY <2>1, SameIsQuiet
  <2>3. CategoryKnown' /\ \A q \in Proc \ {p} : LookedUp(q)' /\ DeletesUnused(q)'
    BY <2>1, <2>2, QuietStep
  <2>4. CASE req'[p] = Idle
    BY <2>3, <2>4, Harmless DEF Looked, Deletes
  <2>5. CASE req'[p] # Idle
    <3>1. req'[p].cat = req[p].cat /\ req'[p].op = req[p].op /\ Pool' = Pool
      BY <2>1, <2>5 DEF Moved, Pool
    <3>2. LookedUp(p)' /\ DeletesUnused(p)'
      BY <2>1, <2>5, <3>1 DEF LookedUp, DeletesUnused, Import, Exists
    <3> QED
      BY <2>3, <3>2 DEF Looked, Deletes
  <2> QED
    BY <2>4, <2>5
<1>5. CASE InsertRow(p)
  <2>1. Moved(p) /\ req'[p] = Idle /\ cats' = cats /\ req[p].op = "create" /\ req[p].at = "write"
    BY <1>5, InsertRowEffect
  <2>2. PICK x : AddsRow(x) /\ x.cat = Normalized(req[p].cat) /\ x.sound = ~req[p].met
    BY <1>5, InsertRowEffect
  <2>3. ~req[p].met => Normalized(req[p].cat) \in Pool
    BY <2>1 DEF Looked, LookedUp, Writes, Moved
  <2>4. Quiet(p)
    BY <2>1, <2>2, <2>3, AddsQuietly
  <2> QED
    BY <2>1, <2>4, QuietHarmless
<1>6. CASE UpdateRead(p)
  <2>1. /\ Moved(p) /\ UNCHANGED <<cats, rows>> /\ req[p].op = "update"
        /\ req'[p] = Idle \/ req'[p].at = "check"
    BY <1>6, UpdateReadEffect
  <2>2. Quiet(p) /\ (req'[p] = Idle \/ req'[p].op = "update")
    BY <2>1, SameIsQuiet DEF Moved
  <2> QED
    BY <2>1, <2>2, QuietHarmless DEF Writes
<1>7. CASE UpdateWrite(p)
  <2>1. /\ Moved(p) /\ req'[p] = Idle /\ cats' = cats /\ KeepsRows
        /\ req[p].op = "update" /\ req[p].at = "write"
        /\ \A i \in DOMAIN rows :
             rows'[i] = rows[i] \/ Written(i, Normalized(req[p].cat), req[p].met)
    BY <1>7, UpdateWriteEffect
  <2>2. Quiet(p)
    BY <2>1, WritesQuietly DEF Writes, Moved
  <2> QED
    BY <2>1, <2>2, QuietHarmless
<1>8. CASE BatchDelete(p)
  <2>1. /\ Moved(p) /\ req'[p] = Idle /\ cats' = cats /\ KeepsRows
        /\ \A i \in DOMAIN rows : rows'[i] = rows[i] \/ ~rows'[i].live
    BY <1>8, BatchDeleteEffect
  <2>2. DOMAIN rows' = DOMAIN rows
    BY <2>1 DEF KeepsRows, TypeOK
  <2>3. Quiet(p)
    BY <2>1, <2>2 DEF Quiet
  <2> QED
    BY <2>1, <2>3, QuietHarmless
<1>9. CASE BatchSetCategory(p)
  <2>1. /\ Moved(p) /\ req'[p] = Idle /\ cats' = cats /\ KeepsRows
        /\ req[p].op = "setcat" /\ req[p].at = "write"
        /\ \A i \in DOMAIN rows :
             rows'[i] = rows[i] \/ Written(i, Normalized(req[p].cat), req[p].met)
    BY <1>9, BatchSetCategoryEffect
  <2>2. Quiet(p)
    BY <2>1, WritesQuietly DEF Writes, Moved
  <2> QED
    BY <2>1, <2>2, QuietHarmless
<1> QED
  BY <1>1, <1>2, <1>3, <1>4, <1>5, <1>6, <1>7, <1>8, <1>9 DEF CatalogStep

LEMMA BackupCategories ==
  ASSUME TypeOK, Beside, Looked, Deletes, CategoryKnown, NEW p \in Proc, BackupStep(p)
  PROVE  Looked' /\ Deletes' /\ CategoryKnown'
<1>0. Moved(p)
  BY BackupSteps DEF Steps
<1>1. CASE Export(p)
  <2>1. UNCHANGED <<cats, rows>> /\ req[p].op = "export"
    BY <1>1, ExportEffect
  <2>2. Quiet(p) /\ (req'[p] = Idle \/ req'[p].op = "export")
    BY <1>0, <2>1, SameIsQuiet DEF Moved
  <2> QED
    BY <1>0, <2>2, QuietHarmless DEF Writes
<1>2. CASE Ensure(p)
  <2>1. /\ rows' = rows /\ req[p].op = "import" /\ req'[p].at \in {"look", "ensure"}
        /\ cats' = cats \/ \E n \in Name : cats' = Append(cats, n)
    BY <1>2, EnsureEffect
  <2>2. Quiet(p) /\ (req'[p] = Idle \/ req'[p].op = "import")
    BY <1>0, <2>1, AppendedCats, SameIsQuiet DEF Moved
  <2> QED
    BY <1>0, <2>1, <2>2, QuietHarmless DEF Writes
<1>3. CASE Look(p)
  <2>1. UNCHANGED <<cats, rows>> /\ req[p].op = "import"
    BY <1>3, LookEffect
  <2>2. Quiet(p) /\ Pool' = Pool
    BY <2>1, SameIsQuiet DEF Pool
  <2>3. CASE req'[p] = Idle
    BY <1>0, <2>2, <2>3, QuietHarmless
  <2>4. CASE req'[p] # Idle
    <3>1. /\ req'[p].op = "import" /\ req'[p].met = req[p].met
          /\ req'[p].at = "insert" => CategoryOf(Head(req'[p].todo)) \in Pool
      <4>1. req'[p].op = "import" /\ req'[p].met = req[p].met
        BY <1>0, <2>1, <2>4 DEF Moved
      <4>2. req'[p].at = "insert" => req'[p].todo = req[p].todo /\ Exists(CategoryOf(Head(req[p].todo)))
        BY <1>3, <2>4, LookEffect
      <4> QED
        BY <4>1, <4>2 DEF Exists
    <3>2. LookedUp(p)' /\ DeletesUnused(p)'
      BY <2>2, <3>1 DEF LookedUp, DeletesUnused, Writes, Import
    <3>3. CategoryKnown' /\ \A q \in Proc \ {p} : LookedUp(q)' /\ DeletesUnused(q)'
      BY <1>0, <2>2, QuietStep
    <3> QED
      BY <3>2, <3>3 DEF Looked, Deletes
  <2> QED
    BY <2>3, <2>4
<1>4. CASE ImportRow(p)
  <2>1. cats' = cats /\ req[p].op = "import" /\ req[p].at = "insert" /\ req'[p].at \in {"look", "key"}
    BY <1>4, ImportRowEffect
  <2>2. PICK x : AddsRow(x) /\ Made(x, req[p], Head(req[p].todo))
    BY <1>4, ImportRowEffect
  <2>3. ~req[p].met => CategoryOf(Head(req[p].todo)) \in Pool
    BY <1>0, <2>1 DEF Looked, LookedUp, Moved, Import
  <2>4. Quiet(p) /\ (req'[p] = Idle \/ req'[p].op = "import")
    BY <1>0, <2>1, <2>2, <2>3, AddsQuietly DEF Moved, Made
  <2> QED
    BY <1>0, <2>1, <2>4, QuietHarmless DEF Writes
<1>5. CASE KeepKey(p) \/ KeyIsLost(p)
  <2>1. /\ cats' = cats /\ req[p].op = "import" /\ req'[p].at = "look" /\ KeepsRows
        /\ \A i \in DOMAIN rows : /\ rows'[i].cat = rows[i].cat /\ rows'[i].sound = rows[i].sound
                                  /\ rows'[i].live = rows[i].live
    BY <1>5, KeyEffect
  <2>2. DOMAIN rows' = DOMAIN rows
    BY <2>1 DEF KeepsRows, TypeOK
  <2>3. Quiet(p) /\ (req'[p] = Idle \/ req'[p].op = "import")
    BY <1>0, <2>1, <2>2 DEF Quiet, Moved
  <2> QED
    BY <1>0, <2>1, <2>3, QuietHarmless DEF Writes
<1>6. CASE EndsEarly(p)
  <2>1. req'[p] = Idle /\ UNCHANGED <<cats, rows>>
    BY <1>6, EndsMove DEF EndsEarly
  <2>2. Quiet(p)
    BY <2>1, SameIsQuiet
  <2> QED
    BY <1>0, <2>1, <2>2, QuietHarmless
<1> QED
  BY <1>1, <1>2, <1>3, <1>4, <1>5, <1>6 DEF BackupStep

LEMMA CategoryInit == Init => Beside /\ Looked /\ Deletes /\ CategoryKnown
<1> SUFFICES ASSUME Init PROVE Beside /\ Looked /\ Deletes /\ CategoryKnown
  OBVIOUS
<1>1. Beside /\ Looked /\ Deletes
  BY DEF Init, Beside, Looked, LookedUp, Deletes, DeletesUnused, Idle
<1>2. CategoryKnown
  <2> SUFFICES ASSUME NEW i \in DOMAIN FirstRows, FirstRows[i].live
               PROVE  FirstRows[i].cat \in Pool
    BY DEF CategoryKnown, Live, Init
  <2>0. FirstCats \in Seq(Name \ {Default})
    BY FirstAssumption
  <2>1. FirstRows[i].cat = Default \/ \E k \in DOMAIN FirstCats : FirstCats[k] = FirstRows[i].cat
    BY FirstAssumption
  <2>2. cats = <<Default>> \o FirstCats
    BY DEF Init
  <2>3. 1 \in DOMAIN cats /\ cats[1] = Default
    BY <2>0, <2>2
  <2>4. ASSUME NEW k \in DOMAIN FirstCats
        PROVE  k + 1 \in DOMAIN cats /\ cats[k + 1] = FirstCats[k] /\ FirstCats[k] \in Name
    BY <2>0, <2>2
  <2> QED
    BY <2>1, <2>3, <2>4, CatalogAssumption DEF Pool
<1> QED
  BY <1>1, <1>2

LEMMA CategoryStep ==
  TypeOK /\ Beside /\ Looked /\ Deletes /\ CategoryKnown /\ [Next]_vars
    => Looked' /\ Deletes' /\ CategoryKnown'
<1> SUFFICES ASSUME TypeOK, Beside, Looked, Deletes, CategoryKnown, [Next]_vars
             PROVE  Looked' /\ Deletes' /\ CategoryKnown'
  OBVIOUS
<1>1. CASE UNCHANGED vars
  <2>1. CategoryKnown'
    BY <1>1 DEF vars, CategoryKnown, Live, Pool
  <2>2. \A q \in Proc : LookedUp(q)'
    BY <1>1 DEF vars, Looked, LookedUp, Pool, Import
  <2>3. \A q \in Proc : DeletesUnused(q)'
    BY <1>1 DEF vars, Deletes, DeletesUnused, Unused, Live
  <2> QED
    BY <2>1, <2>2, <2>3 DEF Looked, Deletes
<1>2. ASSUME NEW p \in Proc, NEW r \in CatalogRequests \cup BackupRequests, Begins(p, r)
      PROVE  Looked' /\ Deletes' /\ CategoryKnown'
  <2>1. /\ UNCHANGED <<cats, rows>> /\ req'[p].op = r.op /\ req'[p].at = r.at
        /\ \A q \in Proc \ {p} : Stays(q) /\ (req[q] # Idle =>
              req'[q].met = (req[q].met \/ Removes(r)))
    BY <1>2, BeginsEffect
  <2> DEFINE n == [no |-> 0, met |-> FALSE, alone |-> FALSE]
  <2>2. n \in Notes
    BY DEF Notes
  <2> HIDE DEF n
  <2>3. /\ r.op = "catdelete" => r.at = "find"
        /\ r.op \in {"create", "update", "setcat"} => r.at # "write"
        /\ r.op \in {"export", "import"} => r \in BackupRequests
    BY <2>2, Begun
  <2>4. r.op = "import" => r.at = "ensure"
    BY <2>2, <2>3, BackupRequestType
  <2>5. Pool' = Pool /\ CategoryKnown' /\ \A k : Unused(k)' = Unused(k)
    BY <2>1 DEF Pool, CategoryKnown, Live, Unused
  <2>6. LookedUp(p)' /\ DeletesUnused(p)'
    BY <2>1, <2>3, <2>4 DEF LookedUp, DeletesUnused, Writes, Import
  <2>7. ASSUME NEW q \in Proc \ {p} PROVE LookedUp(q)'
    BY <2>1, <2>5 DEF Looked, LookedUp, Stays, Writes, Import
  <2>8. ASSUME NEW q \in Proc \ {p} PROVE DeletesUnused(q)'
    BY <2>1, <2>5 DEF Deletes, DeletesUnused, Stays
  <2> QED
    BY <2>5, <2>6, <2>7, <2>8 DEF Looked, Deletes
<1>3. ASSUME NEW p \in Proc, CatalogStep(p) \/ BackupStep(p)
      PROVE  Looked' /\ Deletes' /\ CategoryKnown'
  BY <1>3, CatalogCategories, BackupCategories
<1> QED
  BY <1>1, <1>2, <1>3, NextIs

\* Categories: the row of every write that no removal of a category overlapped
\* has a category of the pool, whatever else is created, renamed, deleted or
\* imported at the same time.
THEOREM CategoriesStayKnown == Spec => []CategoryKnown
<1>1. Init => CategoryInv
  BY TypeInit, CategoryInit DEF CategoryInv
<1>2. CategoryInv /\ [Next]_vars => CategoryInv'
  BY TypeStep, BesideStep, CategoryStep DEF CategoryInv
<1>3. CategoryInv => CategoryKnown
  BY DEF CategoryInv
<1> QED
  BY <1>1, <1>2, <1>3, PTL DEF Spec

-----------------------------------------------------------------------------
(* Links                                                                   *)

\* What refers to rows goes on referring to them.
LEMMA LinksGrow ==
  ASSUME \A i \in DOMAIN rows : Kept(i)
  PROVE  /\ \A kind, tpl, chans : Linked(rows, kind, tpl, chans) => Linked(rows', kind, tpl, chans)
         /\ \A file : FileOK(rows, file) => FileOK(rows', file)
         /\ \A map, no : MapOK(rows, map, no) => MapOK(rows', map, no)
<1>1. ASSUME NEW kind, NEW tpl, NEW chans, Linked(rows, kind, tpl, chans)
      PROVE  Linked(rows', kind, tpl, chans)
  BY <1>1 DEF Linked, Kept
<1>2. ASSUME NEW file, FileOK(rows, file) PROVE FileOK(rows', file)
  BY <1>1, <1>2 DEF FileOK, Kept
<1>3. ASSUME NEW map, NEW no, MapOK(rows, map, no) PROVE MapOK(rows', map, no)
  BY <1>3 DEF MapOK, Kept
<1> QED
  BY <1>1, <1>2, <1>3

LEMMA TiesGrow ==
  ASSUME \A i \in DOMAIN rows : Kept(i), NEW r, Ties(rows, r)
  PROVE  Ties(rows', r)
  BY LinksGrow DEF Ties

\* The entries of a file are made from rows.
LEMMA EntriesOK ==
  ASSUME TypeOK, RowsLinked, NEW kind
  PROVE  FileOK(rows, Entries(kind))
<1>1. \A k \in DOMAIN Entries(kind) :
        \E i \in DOMAIN rows : rows[i].kind = kind /\ Entries(kind)[k] = Entry(i)
  BY EntriesAre DEF TypeOK
<1> QED
  BY <1>1 DEF FileOK, Entry, RowsLinked, Linked

LEMMA JoinedOK ==
  ASSUME NEW f \in Seq(FileEntry), NEW g \in Seq(FileEntry), NEW R, FileOK(R, f), FileOK(R, g)
  PROVE  FileOK(R, f \o g)
<1>1. ASSUME NEW k \in DOMAIN (f \o g)
      PROVE  \/ k \in DOMAIN f /\ (f \o g)[k] = f[k]
             \/ \E j \in DOMAIN g : (f \o g)[k] = g[j]
  <2>1. Len(f) \in Nat /\ Len(g) \in Nat /\ k \in 1 .. Len(f) + Len(g)
    OBVIOUS
  <2>2. CASE k <= Len(f)
    BY <2>1, <2>2
  <2>3. CASE k > Len(f)
    <3>1. k - Len(f) \in DOMAIN g /\ (f \o g)[k] = g[k - Len(f)]
      BY <2>1, <2>3
    <3> QED
      BY <3>1
  <2> QED
    BY <2>1, <2>2, <2>3
<1> QED
  BY <1>1 DEF FileOK

LEMMA TailOK ==
  ASSUME NEW f \in Seq(FileEntry), f # <<>>, NEW R, FileOK(R, f)
  PROVE  FileOK(R, Tail(f)) /\ Head(f).id \in DOMAIN R /\ R[Head(f).id].kind = Head(f).kind
         /\ Linked(R, Head(f).kind, Head(f).tpl, Head(f).chans)
<1>1. \A k \in DOMAIN Tail(f) : k + 1 \in DOMAIN f /\ Tail(f)[k] = f[k + 1]
  OBVIOUS
<1>2. 1 \in DOMAIN f /\ Head(f) = f[1]
  OBVIOUS
<1> QED
  BY <1>1, <1>2 DEF FileOK

\* What an import makes of a task of its file it ties to what it has made of
\* what the task was tied to.
LEMMA MadeLinked ==
  ASSUME TypeOK, NEW r \in ImportType, Ties(rows, r), r.at = "insert", r.todo # <<>>,
         Head(r.todo).kind = "task"
  PROVE  LET tpl == RemapID(r.map, Head(r.todo).tpl)
             chans == Channels(r.map, Head(r.todo))
         IN  /\ Linked(rows, "task", tpl, chans) /\ chans # {}
             /\ rows[tpl].by = r.no /\ rows[tpl].was.id = Head(r.todo).tpl
             /\ \A c \in chans : rows[c].by = r.no /\ rows[c].was.id \in Head(r.todo).chans
<1> DEFINE e == Head(r.todo)
           tpl == RemapID(r.map, e.tpl)
           chans == Channels(r.map, e)
<1>1. /\ r.todo \in Seq(FileEntry) /\ r.map \in SUBSET (Nat \X Nat) /\ r.op = "import"
  BY DEF ImportType
<1>2. FileOK(rows, r.todo) /\ MapOK(rows, r.map, r.no) /\ ~Refused(r, e) /\ chans # {}
  BY <1>1 DEF Ties
<1>3. Linked(rows, "task", e.tpl, e.chans)
  BY <1>1, <1>2, TailOK
<1>4. tpl # 0
  BY <1>2 DEF Refused
<1>5. ASSUME NEW id, RemapID(r.map, id) # 0
      PROVE  LET new == RemapID(r.map, id) IN
             /\ id \in DOMAIN rows /\ new \in DOMAIN rows /\ rows[id].kind = rows[new].kind
             /\ rows[new].by = r.no /\ rows[new].was.id = id
  <2>1. <<id, RemapID(r.map, id)>> \in r.map
    BY <1>1, <1>5, RemapType
  <2> DEFINE m == <<id, RemapID(r.map, id)>>
  <2>2. m[1] = id /\ m[2] = RemapID(r.map, id) /\ m \in r.map
    BY <2>1
  <2> HIDE DEF m
  <2>3. /\ m[1] \in DOMAIN rows /\ m[2] \in DOMAIN rows
        /\ rows[m[1]].kind = rows[m[2]].kind
        /\ rows[m[2]].by = r.no /\ rows[m[2]].was.id = m[1]
    BY <1>2, <2>2 DEF MapOK
  <2> QED
    BY <2>2, <2>3
<1>6. /\ tpl \in DOMAIN rows /\ rows[tpl].kind = "template"
      /\ rows[tpl].by = r.no /\ rows[tpl].was.id = e.tpl
  <2>1. rows[e.tpl].kind = "template"
    BY <1>3 DEF Linked
  <2> QED
    BY <1>4, <1>5, <2>1
<1>7. ASSUME NEW c \in chans
      PROVE  /\ c \in DOMAIN rows /\ rows[c].kind = "channel"
             /\ rows[c].by = r.no /\ rows[c].was.id \in e.chans
  <2>1. PICK d \in e.chans : c = RemapID(r.map, d) /\ c # 0
    BY DEF Channels
  <2>2. rows[d].kind = "channel"
    BY <1>3, <2>1 DEF Linked
  <2> QED
    BY <1>5, <2>1, <2>2
<1>8. Linked(rows, "task", tpl, chans)
  BY <1>6, <1>7 DEF Linked
<1> HIDE DEF tpl, chans, e
<1> QED
  BY <1>2, <1>6, <1>7, <1>8 DEF tpl, chans, e

\* LinksOwn of the row i among the rows R.
LinkOwn(R, i) ==
  R[i].kind = "task" /\ R[i].by # 0 =>
    /\ R[R[i].tpl].by = R[i].by /\ R[R[i].tpl].kind = "template"
    /\ R[R[i].tpl].was.id = R[i].was.tpl
    /\ R[i].chans # {}
    /\ \A j \in R[i].chans :
         R[j].by = R[i].by /\ R[j].kind = "channel" /\ R[j].was.id \in R[i].was.chans

LEMMA LinksAreOwn == LinksOwn <=> \A i \in DOMAIN rows : LinkOwn(rows, i)
  BY DEF LinksOwn, LinkOwn

LEMMA LinksKept ==
  ASSUME \A i \in DOMAIN rows : Kept(i), RowsLinked, LinksOwn
  PROVE  \A i \in DOMAIN rows : Linked(rows', rows'[i].kind, rows'[i].tpl, rows'[i].chans) /\ LinkOwn(rows', i)
<1> SUFFICES ASSUME NEW i \in DOMAIN rows
             PROVE  Linked(rows', rows'[i].kind, rows'[i].tpl, rows'[i].chans) /\ LinkOwn(rows', i)
  OBVIOUS
<1>1. Linked(rows, rows[i].kind, rows[i].tpl, rows[i].chans) /\ LinkOwn(rows, i)
  BY LinksAreOwn DEF RowsLinked
<1>2. /\ rows'[i].kind = rows[i].kind /\ rows'[i].tpl = rows[i].tpl /\ rows'[i].chans = rows[i].chans
      /\ rows'[i].by = rows[i].by /\ rows'[i].was = rows[i].was
  BY DEF Kept
<1>3. Linked(rows', rows'[i].kind, rows'[i].tpl, rows'[i].chans)
  BY <1>1, <1>2, LinksGrow
<1>4. LinkOwn(rows', i)
  <2>1. SUFFICES ASSUME rows[i].kind = "task", rows[i].by # 0 PROVE LinkOwn(rows', i)
    BY <1>2 DEF LinkOwn
  <2>2. rows[i].tpl \in DOMAIN rows /\ \A j \in rows[i].chans : j \in DOMAIN rows
    BY <1>1, <2>1 DEF Linked
  <2>3. \A j \in DOMAIN rows : rows'[j].by = rows[j].by /\ rows'[j].kind = rows[j].kind /\ rows'[j].was = rows[j].was
    BY DEF Kept
  <2> QED
    BY <1>1, <1>2, <2>1, <2>2, <2>3 DEF LinkOwn
<1> QED
  BY <1>3, <1>4

LEMMA RowLinks ==
  ASSUME TypeOK, LinksInv, NEW p \in Proc, Steps(p)
  PROVE  RowsLinked' /\ LinksOwn'
<1>0. \A i \in DOMAIN rows : Linked(rows', rows'[i].kind, rows'[i].tpl, rows'[i].chans) /\ LinkOwn(rows', i)
  BY LinksKept DEF LinksInv, Steps
<1>r. RowsLinked' <=> \A i \in DOMAIN rows' : Linked(rows', rows'[i].kind, rows'[i].tpl, rows'[i].chans)
  BY DEF RowsLinked
<1>o. LinksOwn' <=> \A i \in DOMAIN rows' : LinkOwn(rows', i)
  BY DEF LinksOwn, LinkOwn
<1>1. CASE KeepsRows
  <2>1. DOMAIN rows' = DOMAIN rows
    BY <1>1 DEF KeepsRows, TypeOK
  <2> QED
    BY <1>0, <1>r, <1>o, <2>1
<1>2. ASSUME NEW x, AddsRow(x), Linked(rows, x.kind, x.tpl, x.chans),
             LinkOwn(rows', Len(rows) + 1)
      PROVE  RowsLinked' /\ LinksOwn'
  <2>1. DOMAIN rows' = DOMAIN rows \cup {Len(rows) + 1} /\ rows'[Len(rows) + 1] = x
    BY <1>2, AddedRow
  <2>2. Linked(rows', x.kind, x.tpl, x.chans)
    BY <1>2, LinksGrow DEF Steps
  <2> QED
    BY <1>0, <1>r, <1>o, <1>2, <2>1, <2>2
<1>3. CASE InsertRow(p)
  <2>1. /\ req[p].op = "create"
        /\ \E x : /\ AddsRow(x) /\ x.kind = req[p].kind /\ x.by = 0
                  /\ x.tpl = req[p].links[1] /\ x.chans = req[p].links[2]
    <3>1. req[p].op = "create"
      BY <1>3, InsertRowEffect
    <3>2. \E x : /\ AddsRow(x) /\ x.kind = req[p].kind /\ x.cat = Normalized(req[p].cat)
                 /\ x.sound = ~req[p].met /\ x.by = 0
                 /\ x.tpl = req[p].links[1] /\ x.chans = req[p].links[2]
      BY <1>3, InsertRowEffect
    <3> QED
      BY <3>1, <3>2
  <2>2. PICK x : /\ AddsRow(x) /\ x.kind = req[p].kind /\ x.by = 0
                 /\ x.tpl = req[p].links[1] /\ x.chans = req[p].links[2]
    BY <2>1
  <2>3. Linked(rows, x.kind, x.tpl, x.chans)
    BY <2>1, <2>2 DEF LinksInv, Ties
  <2>4. rows'[Len(rows) + 1] = x
    BY <2>2, AddedRow
  <2>5. LinkOwn(rows', Len(rows) + 1)
    BY <2>2, <2>4 DEF LinkOwn
  <2> QED
    BY <1>2, <2>2, <2>3, <2>5
<1>4. CASE ImportRow(p)
  <2> DEFINE r == req[p]
             e == Head(r.todo)
  <2>1. r.op = "import" /\ r.at = "insert"
    BY <1>4, ImportRowEffect
  <2>2. PICK x : AddsRow(x) /\ Made(x, r, e)
    BY <1>4, ImportRowEffect
  <2>3. r \in ImportType /\ r.todo # <<>> /\ Ties(rows, r)
    BY <2>1, OfOp DEF TypeOK, Refers, Import, LinksInv
  <2>4. rows'[Len(rows) + 1] = x /\ \A i \in DOMAIN rows : rows'[i] = rows[i]
    BY <2>2, AddedRow
  <2>5. CASE e.kind # "task"
    <3>1. Linked(rows, x.kind, x.tpl, x.chans) /\ LinkOwn(rows', Len(rows) + 1)
      BY <2>2, <2>4, <2>5 DEF Linked, LinkOwn, Made
    <3> QED
      BY <1>2, <2>2, <3>1
  <2>6. CASE e.kind = "task"
    <3> DEFINE tpl == RemapID(r.map, e.tpl)
               chans == Channels(r.map, e)
    <3>1. /\ Linked(rows, "task", tpl, chans) /\ chans # {}
          /\ rows[tpl].by = r.no /\ rows[tpl].was.id = e.tpl
          /\ \A c \in chans : rows[c].by = r.no /\ rows[c].was.id \in e.chans
      BY <2>1, <2>3, <2>6, MadeLinked
    <3>2. x.kind = "task" /\ x.tpl = tpl /\ x.chans = chans /\ x.by = r.no /\ x.was = e
      BY <2>2, <2>6 DEF Made
    <3> HIDE DEF tpl, chans, e, r
    <3>3. tpl \in DOMAIN rows /\ rows[tpl].kind = "template"
          /\ \A c \in chans : c \in DOMAIN rows /\ rows[c].kind = "channel"
      BY <3>1 DEF Linked
    <3>4. LinkOwn(rows', Len(rows) + 1)
      BY <2>4, <3>1, <3>2, <3>3 DEF LinkOwn
    <3> QED
      BY <1>2, <2>2, <3>1, <3>2, <3>4
  <2> QED
    BY <2>5, <2>6
<1> QED
  BY <1>1, <1>3, <1>4 DEF Steps

LEMMA CatalogOps ==
  ASSUME NEW p, CatalogStep(p)
  PROVE  req[p].op \notin {"export", "import"}
  BY DEF CatalogStep, Create, Delete, Update, Checks, InsertRow, UpdateRead, UpdateWrite,
         BatchDelete, BatchSetCategory

LEMMA CatalogTies ==
  ASSUME TypeOK, LinksInv, NEW p \in Proc, CatalogStep(p)
  PROVE  Ties(rows', req'[p]) /\ FileOK(rows', bundle')
<1>1. Steps(p) /\ req[p].op \notin {"export", "import"} /\ bundle' = bundle
  BY CatalogSteps, CatalogOps DEF CatalogStep
<1>2. Ties(rows', req[p]) /\ FileOK(rows', bundle)
  BY <1>1, LinksGrow, TiesGrow DEF LinksInv, Steps
<1>3. Ties(rows', req'[p])
  BY <1>1, <1>2 DEF Ties, Steps, Moved, Idle
<1> QED
  BY <1>1, <1>2, <1>3

LEMMA BackupTies ==
  ASSUME TypeOK, LinksInv, NEW p \in Proc, BackupStep(p)
  PROVE  Ties(rows', req'[p]) /\ FileOK(rows', bundle')
<1> DEFINE r == req[p]
           s == req'[p]
<1>1. Steps(p)
  BY BackupSteps
<1>2. Ties(rows, r) /\ Ties(rows', r) /\ FileOK(rows, bundle) /\ FileOK(rows', bundle)
  BY <1>1, LinksGrow, TiesGrow DEF LinksInv, Steps
<1>3. s = Idle \/ (s # Idle /\ s.op = r.op /\ s.no = r.no /\ (r.op = "import" => s.file = r.file))
  BY <1>1 DEF Steps, Moved
<1>4. CASE s = Idle /\ bundle' = bundle
  BY <1>2, <1>4 DEF Ties, Idle
<1>5. CASE Export(p)
  <2>1. r.op = "export" /\ r.file \in Seq(FileEntry) /\ rows' = rows
    BY <1>5, ExportEffect, OfOp DEF ExportType
  <2>2. \A kind : FileOK(rows, Entries(kind)) /\ Entries(kind) \in Seq(FileEntry)
    BY EntriesOK, EntriesAre DEF LinksInv, TypeOK
  <2>3. FileOK(rows, r.file)
    BY <1>2, <2>1 DEF Ties
  <2>4. /\ FileOK(rows, r.file \o Entries("template")) /\ FileOK(rows, r.file \o Entries("task"))
    BY <2>1, <2>2, <2>3, JoinedOK
  <2>5. \/ s # Idle /\ s.file = Entries("channel") /\ bundle' = bundle
        \/ s # Idle /\ s.file = r.file \o Entries("template") /\ bundle' = bundle
        \/ s = Idle /\ bundle' = r.file \o Entries("task")
    BY <1>5, ExportEffect
  <2>6. FileOK(rows', bundle')
    BY <1>2, <2>1, <2>4, <2>5
  <2>7. s # Idle => s.op = "export" /\ FileOK(rows', s.file)
    BY <1>3, <2>1, <2>2, <2>4, <2>5
  <2> QED
    BY <2>6, <2>7 DEF Ties, Idle
<1>6. ASSUME r.op = "import", s # Idle, bundle' = bundle,
             FileOK(rows', s.todo), MapOK(rows', s.map, s.no),
             s.at = "insert" => ~Refused(s, Head(s.todo))
               /\ (Head(s.todo).kind = "task" => Channels(s.map, Head(s.todo)) # {})
      PROVE  Ties(rows', s) /\ FileOK(rows', bundle')
  BY <1>2, <1>3, <1>6 DEF Ties
<1>7. ASSUME r.op = "import"
      PROVE  /\ FileOK(rows', r.todo) /\ MapOK(rows', r.map, r.no) /\ r.todo \in Seq(FileEntry)
             /\ r.todo # <<>> => FileOK(rows', Tail(r.todo))
  <2>1. r \in ImportType
    BY <1>7, OfOp
  <2>2. FileOK(rows', r.todo) /\ MapOK(rows', r.map, r.no) /\ r.todo \in Seq(FileEntry)
    BY <1>2, <1>7, <2>1 DEF Ties, ImportType
  <2> QED
    BY <2>2, TailOK
<1>8. CASE Ensure(p)
  <2>1. /\ r.op = "import" /\ s # Idle /\ bundle' = bundle /\ s.todo = r.todo /\ s.map = r.map
        /\ s.at \in {"look", "ensure"}
    BY <1>8, EnsureEffect
  <2> QED
    BY <1>3, <1>6, <1>7, <2>1
<1>9. CASE Look(p)
  <2>1. r.op = "import" /\ bundle' = bundle
    BY <1>9, LookEffect
  <2>2. CASE s # Idle
    <3>1. s.map = r.map /\ r.todo # <<>>
      BY <1>9, <2>2, LookEffect
    <3>2. \/ s.at = "look" /\ s.todo = Tail(r.todo)
          \/ s.at = "insert" /\ s.todo = r.todo /\ ~Refused(r, Head(r.todo))
             /\ ~NoChannel(r, Head(r.todo))
      BY <1>9, <2>2, LookEffect
    <3>3. s.at = "insert" => ~Refused(s, Head(s.todo))
            /\ (Head(s.todo).kind = "task" => Channels(s.map, Head(s.todo)) # {})
      BY <3>1, <3>2 DEF Refused, NoChannel
    <3> QED
      BY <1>3, <1>6, <1>7, <2>1, <2>2, <3>1, <3>2, <3>3
  <2> QED
    BY <1>4, <2>1, <2>2
<1>10. CASE ImportRow(p)
  <2> DEFINE e == Head(r.todo)
             id == Len(rows) + 1
  <2>1. /\ r.op = "import" /\ bundle' = bundle /\ s # Idle
        /\ s.map = IF e.kind = "task" THEN r.map ELSE r.map \cup {<<e.id, id>>}
        /\ \/ s.at = "look" /\ s.todo = Tail(r.todo)
           \/ s.at = "key" /\ s.todo = r.todo
    BY <1>10, ImportRowEffect
  <2>2. PICK x : AddsRow(x) /\ Made(x, r, e)
    BY <1>10, ImportRowEffect
  <2>3. r.todo # <<>> /\ r.todo \in Seq(FileEntry) /\ FileOK(rows', r.todo)
    BY <1>7, <1>10, <2>1, ImportRowEffect DEF TypeOK, Refers, Import
  <2>4. e.id \in DOMAIN rows' /\ rows'[e.id].kind = e.kind
    BY <2>3, TailOK
  <2>5. id \in DOMAIN rows' /\ rows'[id] = x
    BY <2>2, AddedRow
  <2>6. MapOK(rows', s.map, s.no)
    <3>1. MapOK(rows', r.map, s.no) /\ s.no = r.no
      BY <1>3, <1>7, <2>1
    <3>2. e.kind # "task" => MapOK(rows', {<<e.id, id>>}, s.no)
      BY <2>2, <2>4, <2>5, <3>1 DEF MapOK, Made
    <3> HIDE DEF id, e
    <3> QED
      BY <2>1, <3>1, <3>2 DEF MapOK
  <2>7. FileOK(rows', s.todo) /\ s.at # "insert"
    BY <1>7, <2>1, <2>3
  <2> QED
    BY <1>6, <2>1, <2>6, <2>7
<1>11. CASE KeepKey(p) \/ KeyIsLost(p)
  <2>1. /\ r.op = "import" /\ bundle' = bundle /\ s # Idle /\ s.map = r.map /\ s.at = "look"
        /\ s.todo = Tail(r.todo) /\ r.at = "key"
    BY <1>11, KeyEffect
  <2>2. r.todo # <<>>
    BY <2>1 DEF TypeOK, Refers, Import
  <2> QED
    BY <1>3, <1>6, <1>7, <2>1, <2>2
<1>12. CASE EndsEarly(p)
  BY <1>4, <1>12, EndsMove DEF EndsEarly
<1> QED
  BY <1>5, <1>8, <1>9, <1>10, <1>11, <1>12 DEF BackupStep

LEMMA LinksInit == Init => LinksInv
<1> SUFFICES ASSUME Init PROVE LinksInv
  OBVIOUS
<1>0. TypeOK
  BY TypeInit
<1>1. RowsLinked
  BY FirstAssumption DEF Init, RowsLinked, Linked
<1>2. LinksOwn
  BY FirstAssumption DEF Init, LinksOwn
<1>3. FileOK(rows, bundle)
  <2>1. \A kind : FileOK(rows, Entries(kind)) /\ Entries(kind) \in Seq(FileEntry)
    BY <1>0, <1>1, EntriesOK, EntriesAre DEF TypeOK
  <2>2. FileOK(rows, Entries("channel") \o Entries("template"))
        /\ Entries("channel") \o Entries("template") \in Seq(FileEntry)
    BY <2>1, JoinedOK
  <2>3. FileOK(rows, (Entries("channel") \o Entries("template")) \o Entries("task"))
    BY <2>1, <2>2, JoinedOK
  <2>4. bundle = (Entries("channel") \o Entries("template")) \o Entries("task")
    BY DEF Init
  <2> QED
    BY <2>3, <2>4
<1>4. \A p \in Proc : Ties(rows, req[p])
  BY DEF Init, Ties, Idle
<1> QED
  BY <1>1, <1>2, <1>3, <1>4 DEF LinksInv

LEMMA LinksStep == TypeOK /\ LinksInv /\ [Next]_vars => LinksInv'
<1> SUFFICES ASSUME TypeOK, LinksInv, [Next]_vars PROVE LinksInv'
  OBVIOUS
<1>1. CASE UNCHANGED vars
  BY <1>1 DEF vars, LinksInv, RowsLinked, LinksOwn
<1>2. ASSUME NEW p \in Proc, NEW r \in CatalogRequests \cup BackupRequests, Begins(p, r)
      PROVE  LinksInv'
  <2>1. /\ UNCHANGED <<rows, bundle>> /\ \A f \in DOMAIN r : req'[p][f] = r[f]
        /\ req'[p].op = r.op /\ req'[p].at = r.at /\ req'[p].no = made + 1
        /\ \A q \in Proc \ {p} : Stays(q)
    BY <1>2, BeginsEffect
  <2> DEFINE n == [no |-> 0, met |-> FALSE, alone |-> FALSE]
  <2>2. n \in Notes
    BY DEF Notes
  <2> HIDE DEF n
  <2>3. /\ r.op = "create" =>
             {"kind", "links"} \subseteq DOMAIN r
             /\ (r.kind = "task" => r.links[1] \in Ids("template") /\ r.links[2] \subseteq Ids("channel"))
        /\ r.op \in {"export", "import"} => r \in BackupRequests
    BY <2>2, Begun
  <2>4. /\ r.op = "export" => {"file"} \subseteq DOMAIN r /\ r.file = <<>>
        /\ r.op = "import" =>
             /\ {"todo", "map", "file"} \subseteq DOMAIN r
             /\ r.at = "ensure" /\ r.file = bundle /\ r.todo = bundle /\ r.map = {}
    BY <2>2, <2>3, BackupRequestType
  <2>5. RowsLinked' /\ LinksOwn' /\ FileOK(rows', bundle')
    BY <2>1 DEF LinksInv, RowsLinked, LinksOwn
  <2>6. Ties(rows', req'[p])
    <3> DEFINE s == req'[p]
    <3>1. s.op = "create" => Linked(rows', s.kind, s.links[1], s.links[2])
      BY <2>1, <2>3 DEF Linked, Ids
    <3>2. s.op = "export" => FileOK(rows', s.file)
      BY <2>1, <2>4 DEF FileOK
    <3>3. s.op = "import" =>
            /\ FileOK(rows', s.file) /\ FileOK(rows', s.todo) /\ s.map = {} /\ s.no # 0
            /\ s.at = "ensure"
      BY <2>1, <2>4, <2>5 DEF TypeOK
    <3> QED
      BY <3>1, <3>2, <3>3 DEF Ties, MapOK
  <2>7. ASSUME NEW q \in Proc \ {p} PROVE Ties(rows', req'[q])
    <3>1. Ties(rows', req[q])
      BY <2>1 DEF LinksInv
    <3> QED
      BY <2>1, <3>1 DEF Ties, Stays, Refused
  <2> QED
    BY <2>5, <2>6, <2>7 DEF LinksInv
<1>3. ASSUME NEW p \in Proc, CatalogStep(p) \/ BackupStep(p) PROVE LinksInv'
  <2>1. Steps(p)
    BY <1>3, CatalogSteps, BackupSteps
  <2>2. RowsLinked' /\ LinksOwn'
    BY <2>1, RowLinks
  <2>3. Ties(rows', req'[p]) /\ FileOK(rows', bundle')
    BY <1>3, CatalogTies, BackupTies
  <2>4. ASSUME NEW q \in Proc \ {p} PROVE Ties(rows', req'[q])
    <3>1. Ties(rows', req[q])
      BY <2>1, TiesGrow DEF LinksInv, Steps
    <3> QED
      BY <2>1, <3>1 DEF Steps, Moved
  <2> QED
    BY <2>2, <2>3, <2>4 DEF LinksInv
<1> QED
  BY <1>1, <1>2, <1>3, NextIs

\* Links: what an import makes is tied together as it was in the file, and to
\* nothing that was here before, whatever is added and deleted meanwhile.
THEOREM ImportsTieTheirOwn == Spec => []LinksOwn
<1>1. Init => TypeOK /\ LinksInv
  BY TypeInit, LinksInit
<1>2. TypeOK /\ LinksInv /\ [Next]_vars => TypeOK' /\ LinksInv'
  BY TypeStep, LinksStep
<1>3. LinksInv => LinksOwn
  BY DEF LinksInv
<1> QED
  BY <1>1, <1>2, <1>3, PTL DEF Spec

-----------------------------------------------------------------------------
(* Imports add no row a second time                                        *)

\* When an import comes to write a row, nobody has the name, or its look-up
\* has failed.
LEMMA LookedName ==
  ASSUME TypeOK, NEW p \in Proc, BackupStep(p) \/ CatalogStep(p), ~ImportRow(p),
         req'[p].op = "import", req'[p].at = "insert"
  PROVE  /\ Look(p) /\ rows' = rows /\ req'[p].todo = req[p].todo
         /\ Conflicts(Head(req[p].todo)) => req'[p].blind
<1>1. req'[p] # Idle /\ req[p].op = "import"
  BY CatalogSteps, BackupSteps DEF Steps, Moved, Idle
<1>2. BackupStep(p) /\ ~Export(p)
  BY <1>1, CatalogOps DEF Export
<1>3. ~Ensure(p)
  BY EnsureEffect
<1>4. ~KeepKey(p) /\ ~KeyIsLost(p)
  BY KeyEffect
<1>5. ~EndsEarly(p)
  BY <1>1, EndsMove DEF EndsEarly
<1>6. Look(p)
  BY <1>2, <1>3, <1>4, <1>5 DEF BackupStep
<1>7. rows' = rows /\ req'[p].todo = req[p].todo /\ (Conflicts(Head(req[p].todo)) => req'[p].blind)
  BY <1>1, <1>6, LookEffect
<1> QED
  BY <1>6, <1>7

LEMMA NamesStep ==
  TypeOK /\ Beside /\ NameFree /\ NoDoubleImport /\ [Next]_vars => NameFree' /\ NoDoubleImport'
<1> SUFFICES ASSUME TypeOK, Beside, NameFree, NoDoubleImport, [Next]_vars
             PROVE  NameFree' /\ NoDoubleImport'
  OBVIOUS
<1>1. CASE UNCHANGED vars
  BY <1>1 DEF vars, NameFree, NoDoubleImport, Live, Import
<1>2. ASSUME NEW p \in Proc, NEW r \in CatalogRequests \cup BackupRequests, Begins(p, r)
      PROVE  NameFree' /\ NoDoubleImport'
  <2>1. /\ UNCHANGED rows
        /\ req'[p].op = r.op /\ req'[p].at = r.at
        /\ \A q \in Proc \ {p} : Stays(q)
    BY <1>2, BeginsEffect
  <2> DEFINE n == [no |-> 0, met |-> FALSE, alone |-> FALSE]
  <2>2. n \in Notes
    BY DEF Notes
  <2> HIDE DEF n
  <2>3. r.op = "import" => r \in BackupRequests
    BY <2>2, Begun
  <2>4. r.op = "import" => r.at = "ensure"
    BY <2>2, <2>3, BackupRequestType
  <2>5. NoDoubleImport'
    BY <2>1 DEF NoDoubleImport, Live
  <2>6. NameFree'
    BY <2>1, <2>4 DEF NameFree, Stays, Import, Live
  <2> QED
    BY <2>5, <2>6
<1>3. ASSUME NEW p \in Proc, CatalogStep(p) \/ BackupStep(p)
      PROVE  NameFree' /\ NoDoubleImport'
  <2>1. Steps(p)
    BY <1>3, CatalogSteps, BackupSteps
  <2>2. ASSUME NEW i \in DOMAIN rows
        PROVE  /\ rows'[i].live => Live(i)
               /\ rows'[i].kind = rows[i].kind /\ rows'[i].title = rows[i].title
               /\ rows'[i].by = rows[i].by /\ rows'[i].beside = rows[i].beside
               /\ rows'[i].blind = rows[i].blind
    BY <2>1 DEF Steps, Kept, Live
  <2>3. \A q \in Proc \ {p} : req'[q] = req[q]
    BY <2>1 DEF Steps, Moved
  <2>4. ASSUME NEW q \in Proc, req'[q].op = "import", req'[q].at = "insert", ~req'[q].beside,
               ~req'[q].blind, ~ImportRow(p),
               NEW i \in DOMAIN rows, rows'[i].live, rows'[i].by # 0,
               SameName(rows'[i], Head(req'[q].todo))
        PROVE  rows'[i].beside
    <3>1. SameName(rows[i], Head(req'[q].todo)) /\ Live(i)
      BY <2>2, <2>4 DEF SameName
    <3>2. CASE q = p
      <4>1. ~Conflicts(Head(req'[p].todo))
        BY <1>3, <2>4, <3>2, LookedName
      <4> QED
        BY <3>1, <3>2, <4>1 DEF SameName, Conflicts, Ids
    <3>3. CASE q # p
      <4>1. req'[q] = req[q]
        BY <2>3, <3>3
      <4> QED
        BY <2>2, <2>4, <3>1, <4>1 DEF NameFree, Import
    <3> QED
      BY <3>2, <3>3
  <2>5. CASE KeepsRows /\ ~ImportRow(p)
    <3>1. DOMAIN rows' = DOMAIN rows
      BY <2>5 DEF KeepsRows, TypeOK
    <3>2. NoDoubleImport'
      BY <2>2, <3>1 DEF NoDoubleImport, Live
    <3>3. NameFree'
      BY <2>4, <2>5, <3>1 DEF NameFree, Import, Live
    <3> QED
      BY <3>2, <3>3
  <2>6. CASE InsertRow(p) /\ ~ImportRow(p)
    <3>1. PICK x : AddsRow(x) /\ x.by = 0
      BY <2>6, InsertRowEffect
    <3>2. DOMAIN rows' = DOMAIN rows \cup {Len(rows) + 1} /\ rows'[Len(rows) + 1] = x
      BY <3>1, AddedRow
    <3>3. NoDoubleImport'
      BY <2>2, <3>1, <3>2 DEF NoDoubleImport, Live
    <3>4. NameFree'
      BY <2>4, <2>6, <3>1, <3>2 DEF NameFree, Import, Live
    <3> QED
      BY <3>3, <3>4
  <2>7. CASE ImportRow(p)
    <3> DEFINE r == req[p]
               e == Head(r.todo)
    <3>1. PICK x : AddsRow(x) /\ Made(x, r, e)
      BY <2>7, ImportRowEffect
    <3>2. DOMAIN rows' = DOMAIN rows \cup {Len(rows) + 1} /\ rows'[Len(rows) + 1] = x
      BY <3>1, AddedRow
    <3>3. r.op = "import" /\ r.at = "insert" /\ r # Idle /\ req'[p].at # "insert"
          /\ r.beside \in BOOLEAN /\ r.blind \in BOOLEAN
      BY <2>7, ImportRowEffect, OfOp DEF Idle, ImportType
    <3>4. x.kind = e.kind /\ x.title = e.title /\ x.beside = r.beside /\ x.blind = r.blind
      BY <3>1 DEF Made
    <3> HIDE DEF r, e
    <3>5. ASSUME NEW i \in DOMAIN rows, rows'[i].live, rows'[i].by # 0, SameName(rows'[i], x)
          PROVE  rows'[i].beside \/ x.beside \/ x.blind
      <4>1. SameName(rows[i], e) /\ Live(i) /\ rows[i].by # 0
        BY <2>2, <3>4, <3>5 DEF SameName
      <4> QED
        BY <2>2, <3>3, <3>4, <4>1 DEF NameFree, Import, r, e
    <3>6. NoDoubleImport'
      <4> SUFFICES ASSUME NEW i \in DOMAIN rows', NEW j \in DOMAIN rows', i < j,
                          rows'[i].live, rows'[j].live, rows'[i].by # 0, rows'[j].by # 0,
                          rows'[i].kind = rows'[j].kind, rows'[i].title = rows'[j].title
                   PROVE  rows'[i].beside \/ rows'[j].beside \/ rows'[j].blind
        BY DEF NoDoubleImport, Live
      <4>1. CASE j \in DOMAIN rows
        <5>1. i \in DOMAIN rows
          BY <3>2, <4>1, RowsOf
        <5> QED
          BY <2>2, <4>1, <5>1 DEF NoDoubleImport
      <4>2. CASE j = Len(rows) + 1
        <5>1. i \in DOMAIN rows
          BY <3>2, <4>2, RowsOf
        <5> QED
          BY <3>2, <3>5, <4>2, <5>1 DEF SameName
      <4> QED
        BY <3>2, <4>1, <4>2
    <3>7. NameFree'
      <4> SUFFICES ASSUME NEW q \in Proc, req'[q].op = "import", req'[q].at = "insert", ~req'[q].beside,
                          ~req'[q].blind,
                          NEW i \in DOMAIN rows', rows'[i].live, rows'[i].by # 0,
                          SameName(rows'[i], Head(req'[q].todo))
                   PROVE  rows'[i].beside
        BY DEF NameFree, Import, Live
      <4>1. q # p /\ req'[q] = req[q] /\ req[q] # Idle
        BY <2>3, <3>3 DEF Idle
      <4>2. CASE i \in DOMAIN rows
        <5>1. SameName(rows[i], Head(req[q].todo)) /\ Live(i) /\ rows[i].by # 0
          BY <2>2, <4>1, <4>2 DEF SameName
        <5> QED
          BY <2>2, <4>1, <4>2, <5>1 DEF NameFree, Import
      <4>3. CASE i = Len(rows) + 1
        <5>1. r.beside \/ req[q].beside
          BY <3>3, <4>1 DEF Beside, Import, r
        <5> QED
          BY <3>2, <3>4, <4>1, <4>3, <5>1
      <4> QED
        BY <3>2, <4>2, <4>3
    <3> QED
      BY <3>6, <3>7
  <2> QED
    BY <2>1, <2>5, <2>6, <2>7 DEF Steps
<1> QED
  BY <1>1, <1>2, <1>3, NextIs

LEMMA NamesInit == Init => NameFree /\ NoDoubleImport
<1> SUFFICES ASSUME Init PROVE NameFree /\ NoDoubleImport
  OBVIOUS
<1>1. NameFree
  BY DEF Init, NameFree, Import, Idle
<1>2. NoDoubleImport
  BY FirstAssumption DEF Init, NoDoubleImport
<1> QED
  BY <1>1, <1>2

\* Names: no two rows that imports have made and that are not deleted have the
\* same name, unless one of the imports began during another or the look-up of
\* the name failed for the later one.
THEOREM NothingImportedTwice == Spec => []NoDoubleImport
<1>1. Init => TypeOK /\ Beside /\ NameFree /\ NoDoubleImport
  BY TypeInit, CategoryInit, NamesInit
<1>2. TypeOK /\ Beside /\ NameFree /\ NoDoubleImport /\ [Next]_vars
        => TypeOK' /\ Beside' /\ NameFree' /\ NoDoubleImport'
  BY TypeStep, BesideStep, NamesStep
<1> QED
  BY <1>1, <1>2, PTL DEF Spec

-----------------------------------------------------------------------------
(* The category "default"                                                  *)

LEMMA DefaultStep == TypeOK /\ DefaultInv /\ [Next]_vars => DefaultInv'
<1> SUFFICES ASSUME TypeOK, DefaultInv, [Next]_vars PROVE DefaultInv'
  OBVIOUS
<1>1. CASE UNCHANGED vars
  BY <1>1 DEF vars, DefaultInv
<1>2. ASSUME NEW p \in Proc, NEW r \in CatalogRequests \cup BackupRequests, Begins(p, r)
      PROVE  DefaultInv'
  <2>1. /\ cats' = cats /\ \A f \in DOMAIN r : req'[p][f] = r[f]
        /\ req'[p].op = r.op /\ req'[p].at = r.at
        /\ \A q \in Proc \ {p} : Stays(q)
    BY <1>2, BeginsEffect
  <2> DEFINE n == [no |-> 0, met |-> FALSE, alone |-> FALSE]
  <2>2. n \in Notes
    BY DEF Notes
  <2> HIDE DEF n
  <2>3. r.op = "catdelete" => r.at = "find" /\ "name" \in DOMAIN r /\ r.name # Default
    BY <2>2, Begun
  <2> QED
    BY <2>1, <2>3 DEF DefaultInv, KeepsDefault, Stays
<1>3. ASSUME NEW p \in Proc, CatalogStep(p) \/ BackupStep(p) PROVE DefaultInv'
  <2>1. Steps(p)
    BY <1>3, CatalogSteps, BackupSteps
  <2>2. ASSUME 1 \in DOMAIN cats', cats'[1] = Default, KeepsDefault(req'[p]) PROVE DefaultInv'
    BY <2>1, <2>2 DEF DefaultInv, Steps, Moved
  <2>3. CASE Delete(p)
    <3> DEFINE r == req[p]
               s == req'[p]
    <3>1. KeepsDefault(r) /\ r.op = "catdelete" /\ 1 \in DOMAIN cats /\ cats[1] = Default
      BY <2>3, DeleteEffect DEF DefaultInv
    <3>2. \/ /\ r.at = "find" /\ s # Idle /\ s.at = "read" /\ s.id \in DOMAIN cats
             /\ cats[s.id] = r.name /\ cats' = cats
          \/ /\ r.at = "read" /\ s # Idle /\ s.at = "count" /\ s.id = r.id /\ cats' = cats
          \/ /\ r.at = "count" /\ s # Idle /\ s.at = "remove" /\ s.id = r.id /\ cats' = cats
          \/ r.at = "remove" /\ s = Idle /\ cats' = [cats EXCEPT ![r.id] = Blank]
          \/ s = Idle /\ cats' = cats
      BY <2>3, DeleteEffect
    <3>3. 1 \in DOMAIN cats' /\ cats'[1] = Default
      BY <3>1, <3>2 DEF KeepsDefault
    <3>4. KeepsDefault(s)
      BY <3>1, <3>2 DEF KeepsDefault, Idle
    <3> QED
      BY <2>2, <3>3, <3>4
  <2>4. CASE ~Delete(p)
    <3>1. KeepsDefault(req'[p])
      <4>1. EndsEarly(p) \/ req[p].op # "catdelete"
        BY <1>3, <2>4 DEF CatalogStep, BackupStep, Create, Update, Checks, InsertRow, UpdateRead,
             UpdateWrite, BatchDelete, BatchSetCategory, Export, Ensure, Look, ImportRow, KeepKey,
             KeyIsLost
      <4>2. EndsEarly(p) => req'[p] = Idle
        BY EndsMove DEF EndsEarly
      <4> QED
        BY <2>1, <4>1, <4>2 DEF KeepsDefault, Steps, Moved, Idle
    <3>2. 1 \in DOMAIN cats /\ cats[1] = Default
      BY DEF DefaultInv
    <3>3. 1 \in DOMAIN cats' /\ cats'[1] = Default
      <4>1. CASE Update(p)
        <5>1. CASE UNCHANGED <<cats, rows>>
          BY <3>2, <5>1
        <5>2. CASE ~UNCHANGED <<cats, rows>>
          <6>1. PICK old \in Name \ {Default}, new \in Name, met \in BOOLEAN : Renamed(old, new, met)
            BY <4>1, <5>2, UpdateEffect
          <6>2. \A i \in DOMAIN cats : i \in DOMAIN cats' /\ cats'[i] = IF cats[i] = old THEN new ELSE cats[i]
            BY <2>1, <6>1, RenamedEffect DEF Steps
          <6> QED
            BY <3>2, <6>1, <6>2
        <5> QED
          BY <5>1, <5>2
      <4>2. CASE Create(p) \/ Ensure(p)
        <5>1. cats' = cats \/ \E n \in Name : cats' = Append(cats, n)
          BY <4>2, CreateEffect, EnsureEffect
        <5> QED
          BY <3>2, <5>1, AppendedCats
      <4>3. CASE ~Update(p) /\ ~Create(p) /\ ~Ensure(p)
        <5>1. cats' = cats
          BY <1>3, <2>4, <4>3 DEF CatalogStep, BackupStep, Checks, InsertRow, UpdateRead,
             UpdateWrite, BatchDelete, BatchSetCategory, Export, Look, ImportRow, KeepKey,
             KeyIsLost, EndsEarly
        <5> QED
          BY <3>2, <5>1
      <4> QED
        BY <4>1, <4>2, <4>3
    <3> QED
      BY <2>2, <3>1, <3>3
  <2> QED
    BY <2>3, <2>4
<1> QED
  BY <1>1, <1>2, <1>3, NextIs

-----------------------------------------------------------------------------
(* The order of the entries of a file, and of the imports                  *)

LEMMA JoinedEntries ==
  ASSUME NEW f \in Seq(FileEntry), NEW g \in Seq(FileEntry)
  PROVE  /\ \A k \in DOMAIN f : k \in DOMAIN (f \o g) /\ (f \o g)[k] = f[k]
         /\ \A k \in DOMAIN (f \o g) :
              IF k <= Len(f) THEN k \in DOMAIN f /\ (f \o g)[k] = f[k]
              ELSE k - Len(f) \in DOMAIN g /\ (f \o g)[k] = g[k - Len(f)]
         /\ DOMAIN (f \o g) \subseteq Nat /\ Len(f) \in Nat
<1>1. Len(f) \in Nat /\ Len(g) \in Nat /\ DOMAIN (f \o g) = 1 .. Len(f) + Len(g)
  OBVIOUS
<1>2. \A k \in DOMAIN f : k \in DOMAIN (f \o g) /\ (f \o g)[k] = f[k]
  OBVIOUS
<1>3. ASSUME NEW k \in DOMAIN (f \o g)
      PROVE  IF k <= Len(f) THEN k \in DOMAIN f /\ (f \o g)[k] = f[k]
             ELSE k - Len(f) \in DOMAIN g /\ (f \o g)[k] = g[k - Len(f)]
  BY <1>1
<1> QED
  BY <1>1, <1>2, <1>3

\* No tasks, and then tasks only.
LEMMA TasksJoin ==
  ASSUME NEW f \in Seq(FileEntry), NEW g \in Seq(FileEntry),
         \A k \in DOMAIN f : f[k].kind # "task"
  PROVE  /\ (\A k \in DOMAIN g : g[k].kind = "task") => TasksLast(f \o g)
         /\ (\A k \in DOMAIN g : g[k].kind # "task") => \A k \in DOMAIN (f \o g) : (f \o g)[k].kind # "task"
<1>1. ASSUME \A k \in DOMAIN g : g[k].kind = "task" PROVE TasksLast(f \o g)
  <2> SUFFICES ASSUME NEW j \in DOMAIN (f \o g), NEW k \in DOMAIN (f \o g), j < k,
                      (f \o g)[j].kind = "task"
               PROVE  (f \o g)[k].kind = "task"
    BY DEF TasksLast
  <2>1. ~(j <= Len(f))
    BY JoinedEntries
  <2>2. ~(k <= Len(f))
    <3>1. j \in Nat /\ k \in Nat /\ Len(f) \in Nat
      BY JoinedEntries
    <3> QED
      BY <2>1, <3>1
  <2> QED
    BY <1>1, <2>2, JoinedEntries
<1>2. ASSUME \A k \in DOMAIN g : g[k].kind # "task", NEW k \in DOMAIN (f \o g)
      PROVE  (f \o g)[k].kind # "task"
  BY <1>2, JoinedEntries
<1> QED
  BY <1>1, <1>2

LEMMA EntriesKind ==
  ASSUME TypeOK, NEW kind
  PROVE  Entries(kind) \in Seq(FileEntry) /\ \A k \in DOMAIN Entries(kind) : Entries(kind)[k].kind = kind
<1>1. /\ Entries(kind) \in Seq(FileEntry)
      /\ \A k \in DOMAIN Entries(kind) :
           \E i \in DOMAIN rows : rows[i].kind = kind /\ Entries(kind)[k] = Entry(i)
  BY EntriesAre DEF TypeOK
<1> QED
  BY <1>1 DEF Entry

LEMMA OrderInit == Init => OrderInv
<1> SUFFICES ASSUME Init PROVE OrderInv
  OBVIOUS
<1>1. TypeOK
  BY TypeInit
<1>2. TasksLast(bundle)
  <2>1. \A kind : Entries(kind) \in Seq(FileEntry) /\ \A k \in DOMAIN Entries(kind) : Entries(kind)[k].kind = kind
    BY <1>1, EntriesKind
  <2> DEFINE f == Entries("channel") \o Entries("template")
  <2>2. f \in Seq(FileEntry) /\ \A k \in DOMAIN f : f[k].kind # "task"
    BY <2>1, TasksJoin
  <2> HIDE DEF f
  <2>3. TasksLast(f \o Entries("task"))
    BY <2>1, <2>2, TasksJoin
  <2> QED
    BY <2>3 DEF Init, f
<1>3. \A i \in DOMAIN rows : rows[i].by <= made
  BY FirstAssumption DEF Init
<1>4. \A p \in Proc : Ordered(req[p], made)
  BY DEF Init, Ordered, Idle
<1> QED
  BY <1>2, <1>3, <1>4 DEF OrderInv

LEMMA OrderStep == TypeOK /\ OrderInv /\ [Next]_vars => OrderInv'
<1> SUFFICES ASSUME TypeOK, OrderInv, [Next]_vars PROVE OrderInv'
  OBVIOUS
<1>1. CASE UNCHANGED vars
  BY <1>1 DEF vars, OrderInv
<1>2. ASSUME NEW p \in Proc, NEW r \in CatalogRequests \cup BackupRequests, Begins(p, r)
      PROVE  OrderInv'
  <2>1. /\ UNCHANGED <<rows, bundle>> /\ \A f \in DOMAIN r : req'[p][f] = r[f]
        /\ req'[p].op = r.op /\ req'[p].at = r.at /\ req'[p].no = made + 1 /\ made' = made + 1
        /\ \A q \in Proc \ {p} : Stays(q)
    BY <1>2, BeginsEffect
  <2> DEFINE n == [no |-> 0, met |-> FALSE, alone |-> FALSE]
  <2>2. n \in Notes
    BY DEF Notes
  <2> HIDE DEF n
  <2>3. r.op \in {"export", "import"} => r \in BackupRequests
    BY <2>2, Begun
  <2>4. /\ r.op = "export" => r.at = "channel"
        /\ r.op = "import" => {"file"} \subseteq DOMAIN r /\ r.file = bundle
    BY <2>2, <2>3, BackupRequestType
  <2>5. made \in Nat /\ \A i \in DOMAIN rows : rows[i].by \in Nat
    BY RowsOf DEF TypeOK, Row
  <2>6. Ordered(req'[p], made')
    BY <2>1, <2>4, <2>5 DEF OrderInv, Ordered
  <2>7. ASSUME NEW q \in Proc \ {p} PROVE Ordered(req'[q], made')
    BY <2>1, <2>5 DEF OrderInv, Ordered, Stays
  <2> QED
    BY <2>1, <2>5, <2>6, <2>7 DEF OrderInv
<1>3. ASSUME NEW p \in Proc, CatalogStep(p) \/ BackupStep(p) PROVE OrderInv'
  <2> DEFINE r == req[p]
             s == req'[p]
  <2>1. Steps(p)
    BY <1>3, CatalogSteps, BackupSteps
  <2>2. \A i \in DOMAIN rows' : rows'[i].by <= made'
    <3>0. \A i \in DOMAIN rows : rows'[i].by <= made'
      BY <2>1 DEF OrderInv, Steps, Kept
    <3>1. CASE KeepsRows
      BY <3>0, <3>1 DEF KeepsRows, TypeOK
    <3>2. CASE InsertRow(p)
      <4>1. PICK x : AddsRow(x) /\ x.by = 0
        BY <3>2, InsertRowEffect
      <4> QED
        BY <2>1, <3>0, <4>1, AddedRow DEF Steps, TypeOK
    <3>3. CASE ImportRow(p)
      <4>1. PICK x : AddsRow(x) /\ Made(x, r, Head(r.todo))
        BY <3>3, ImportRowEffect
      <4>2. x.by = r.no /\ r # Idle
        BY <2>1, <4>1 DEF Made, Steps, Moved
      <4>3. r.no <= made
        BY <4>2 DEF OrderInv, Ordered, TypeOK
      <4> QED
        BY <2>1, <3>0, <4>1, <4>2, <4>3, AddedRow DEF Steps
    <3> QED
      BY <2>1, <3>1, <3>2, <3>3 DEF Steps
  <2>3. ASSUME NEW q \in Proc \ {p} PROVE Ordered(req'[q], made')
    BY <2>1 DEF OrderInv, Steps, Moved
  <2>4. s # Idle => s.no \in 1 .. made'
    BY <2>1 DEF OrderInv, Ordered, Steps, Moved
  <2>5. s.op = "import" => TasksLast(s.file)
    BY <2>1 DEF OrderInv, Ordered, Steps, Moved, Idle
  <2>6. CASE Export(p)
    <3>1. r.op = "export" /\ r.file \in Seq(FileEntry)
      BY <2>6, ExportEffect, OfOp DEF ExportType
    <3>2. \A kind : Entries(kind) \in Seq(FileEntry) /\ \A k \in DOMAIN Entries(kind) : Entries(kind)[k].kind = kind
      BY EntriesKind
    <3>3. r.at # "channel" =>
            /\ TasksLast(r.file \o Entries("task"))
            /\ \A k \in DOMAIN (r.file \o Entries("template")) : (r.file \o Entries("template"))[k].kind # "task"
      BY <3>1, <3>2, TasksJoin DEF OrderInv, Ordered
    <3>4. \/ r.at = "channel" /\ s # Idle /\ s.file = Entries("channel") /\ bundle' = bundle
          \/ r.at = "template" /\ s # Idle /\ s.file = r.file \o Entries("template") /\ bundle' = bundle
          \/ r.at = "task" /\ s = Idle /\ bundle' = r.file \o Entries("task")
      BY <2>6, ExportEffect
    <3>5. TasksLast(bundle')
      BY <3>3, <3>4 DEF OrderInv
    <3>6. s.op = "export" => \A k \in DOMAIN s.file : s.file[k].kind # "task"
      <4>1. \A k \in DOMAIN Entries("channel") : Entries("channel")[k].kind # "task"
        BY <3>2
      <4>2. CASE s = Idle
        BY <4>2 DEF Idle
      <4>3. CASE s.file = Entries("channel")
        BY <4>1, <4>3
      <4>4. CASE r.at = "template" /\ s.file = r.file \o Entries("template")
        BY <3>3, <4>4
      <4> QED
        BY <3>4, <4>2, <4>3, <4>4
    <3> QED
      BY <2>2, <2>3, <2>4, <2>5, <3>5, <3>6 DEF OrderInv, Ordered
  <2>7. CASE ~Export(p)
    <3>1. bundle' = bundle /\ s.op # "export"
      <4>1. CASE CatalogStep(p)
        BY <2>1, <4>1, CatalogOps DEF CatalogStep, Steps, Moved, Idle
      <4>2. CASE EndsEarly(p)
        BY <4>2, EndsMove DEF EndsEarly, Idle
      <4>3. CASE ~CatalogStep(p) /\ ~EndsEarly(p)
        <5>1. bundle' = bundle /\ r.op = "import"
          BY <1>3, <2>7, <4>3 DEF BackupStep, Ensure, Look, ImportRow, KeepKey, KeyIsLost
        <5> QED
          BY <2>1, <5>1 DEF Steps, Moved, Idle
      <4> QED
        BY <4>1, <4>2, <4>3
    <3> QED
      BY <2>2, <2>3, <2>4, <2>5, <3>1 DEF OrderInv, Ordered
  <2> QED
    BY <2>6, <2>7
<1> QED
  BY <1>1, <1>2, <1>3, NextIs

-----------------------------------------------------------------------------
(* Restoring                                                               *)

LEMMA Rest ==
  ASSUME NEW f \in Seq(FileEntry), NEW n \in 0 .. Len(f)
  PROVE  LET t == SubSeq(f, n + 1, Len(f))
         IN  /\ t = <<>> => n = Len(f)
             /\ t # <<>> => /\ n + 1 \in 0 .. Len(f) /\ n + 1 \in DOMAIN f /\ Head(t) = f[n + 1]
                            /\ Tail(t) = SubSeq(f, (n + 1) + 1, Len(f))
<1> DEFINE t == SubSeq(f, n + 1, Len(f))
<1>0. Len(f) \in Nat /\ n \in Nat /\ n <= Len(f)
  OBVIOUS
<1>1. t \in Seq(FileEntry) /\ Len(t) = Len(f) - n /\ \A i \in 1 .. Len(t) : t[i] = f[n + i]
  <2>1. n + 1 \in 1 .. Len(f) + 1
    BY <1>0
  <2> QED
    BY <1>0, <2>1, SubSeqProperties
<1>2. ASSUME t = <<>> PROVE n = Len(f)
  <2> HIDE DEF t
  <2>1. Len(t) = 0
    BY <1>2
  <2> QED
    BY <1>0, <1>1, <2>1
<1>3. ASSUME t # <<>> PROVE n + 1 \in DOMAIN f /\ Head(t) = f[n + 1] /\ n + 1 \in 0 .. Len(f)
  <2>1. Len(t) >= 1 /\ Head(t) = t[1]
    BY <1>1, <1>3
  <2> QED
    BY <1>0, <1>1, <2>1
<1>4. ASSUME t # <<>> PROVE Tail(t) = SubSeq(f, (n + 1) + 1, Len(f))
  <2> DEFINE u == SubSeq(f, (n + 1) + 1, Len(f))
  <2>0. n + 1 <= Len(f)
    BY <1>0, <1>3, <1>4
  <2>1. u \in Seq(FileEntry) /\ Len(u) = Len(f) - (n + 1) /\ \A i \in 1 .. Len(u) : u[i] = f[(n + 1) + i]
    <3>1. (n + 1) + 1 \in 1 .. Len(f) + 1
      BY <1>0, <2>0
    <3> QED
      BY <1>0, <3>1, SubSeqProperties
  <2>2. Tail(t) \in Seq(FileEntry) /\ Len(Tail(t)) = Len(t) - 1 /\ \A i \in 1 .. Len(t) - 1 : Tail(t)[i] = t[i + 1]
    BY <1>1, <1>4
  <2>3. Len(Tail(t)) = Len(u)
    BY <1>0, <1>1, <2>1, <2>2
  <2>4. \A i \in 1 .. Len(u) : Tail(t)[i] = u[i]
    <3> SUFFICES ASSUME NEW i \in 1 .. Len(u) PROVE Tail(t)[i] = u[i]
      OBVIOUS
    <3>1. i \in Nat /\ i + 1 \in 1 .. Len(t) /\ i \in 1 .. Len(t) - 1
      BY <1>0, <1>1, <2>1
    <3>2. n + (i + 1) = (n + 1) + i
      BY <1>0, <3>1
    <3> QED
      BY <1>1, <2>1, <2>2, <3>1, <3>2
  <2> HIDE DEF t, u
  <2>5. Tail(t) = u
    BY <2>1, <2>2, <2>3, <2>4, SeqEqual
  <2> QED
    BY <2>5 DEF u, t
<1> QED
  BY <1>2, <1>3, <1>4

LEMMA MadeKept ==
  ASSUME \A i \in DOMAIN rows : Kept(i), NEW no, NEW e, MadeOf(rows, no, e)
  PROVE  MadeOf(rows', no, e)
  BY DEF MadeOf, Kept

\* The import has made the entry that comes next, and goes on to the one after.
LEMMA Advances ==
  ASSUME \A i \in DOMAIN rows : Kept(i), NEW r \in ImportType, NEW s,
         r.todo # <<>>, \E n \in 0 .. Len(r.file) : Through(rows, r, n),
         MadeOf(rows', r.no, Head(r.todo)),
         s.file = r.file, s.no = r.no, s.todo = Tail(r.todo), s.at # "ensure"
  PROVE  \E n \in 0 .. Len(s.file) : Through(rows', s, n)
<1>1. PICK n \in 0 .. Len(r.file) : Through(rows, r, n)
  OBVIOUS
<1>2. r.file \in Seq(FileEntry) /\ r.todo = SubSeq(r.file, n + 1, Len(r.file))
  BY <1>1 DEF ImportType, Through
<1>3. /\ n + 1 \in 0 .. Len(r.file) /\ n + 1 \in DOMAIN r.file /\ Head(r.todo) = r.file[n + 1]
      /\ Tail(r.todo) = SubSeq(r.file, (n + 1) + 1, Len(r.file))
  BY <1>2, Rest
<1>4. ASSUME NEW k \in 1 .. n + 1 PROVE MadeOf(rows', r.no, r.file[k])
  <2>1. CASE k = n + 1
    BY <1>3, <2>1
  <2>2. CASE k # n + 1
    <3>1. k \in 1 .. n
      BY <1>3, <2>2
    <3> QED
      BY <1>1, <3>1, MadeKept DEF Through
  <2> QED
    BY <2>1, <2>2
<1>5. Through(rows', s, n + 1)
  BY <1>3, <1>4 DEF Through
<1> QED
  BY <1>3, <1>5

\* What comes before a task in a file, and is none, the import has made.
LEMMA MadeBefore ==
  ASSUME NEW r \in ImportType, Undisturbed(rows, Pool, r), TasksLast(r.file), r.todo # <<>>,
         Head(r.todo).kind = "task", MapOK(rows, r.map, r.no), rows \in Seq(Row),
         NEW j \in DOMAIN r.file, r.file[j].kind # "task"
  PROVE  RemapID(r.map, r.file[j].id) # 0
<1>1. PICK n \in 0 .. Len(r.file) : Through(rows, r, n)
  BY DEF Undisturbed
<1>2. r.file \in Seq(FileEntry) /\ r.map \in SUBSET (Nat \X Nat) /\ r.todo = SubSeq(r.file, n + 1, Len(r.file))
  BY <1>1 DEF ImportType, Through
<1>3. n + 1 \in DOMAIN r.file /\ Head(r.todo) = r.file[n + 1]
  BY <1>2, Rest
<1>4. j \in 1 .. n
  <2>1. ~(n + 1 < j) /\ j # n + 1
    BY <1>3 DEF TasksLast
  <2>2. j \in Nat /\ j >= 1 /\ n \in Nat
    BY <1>2
  <2> QED
    BY <2>1, <2>2
<1>5. PICK i \in DOMAIN rows : rows[i].by = r.no /\ rows[i].was = r.file[j]
  BY <1>1, <1>4 DEF Through, MadeOf
<1>6. <<r.file[j].id, i>> \in r.map
  BY <1>5 DEF Undisturbed, OwnRow, SameName
<1> DEFINE m == CHOOSE m \in r.map : m[1] = r.file[j].id
<1>7. Mapped(r.map, r.file[j].id) /\ m \in r.map
  BY <1>6 DEF Mapped
<1>8. RemapID(r.map, r.file[j].id) = m[2]
  BY <1>7 DEF RemapID
<1> HIDE DEF m
<1>9. m[2] \in DOMAIN rows
  BY <1>7 DEF MapOK
<1> QED
  BY <1>8, <1>9

\* Nothing stops an undisturbed import, and what it leaves out it has made.
LEMMA NotStopped ==
  ASSUME TypeOK, NEW r \in ImportType, Undisturbed(rows, Pool, r), TasksLast(r.file), r.todo # <<>>,
         r.at = "look", MapOK(rows, r.map, r.no), Default \in Pool
  PROVE  /\ ~Refused(r, Head(r.todo)) /\ Exists(CategoryOf(Head(r.todo)))
         /\ Conflicts(Head(r.todo)) \/ NoChannel(r, Head(r.todo)) => MadeOf(rows, r.no, Head(r.todo))
<1> DEFINE e == Head(r.todo)
<1>1. PICK n \in 0 .. Len(r.file) : Through(rows, r, n)
  BY DEF Undisturbed
<1>2. /\ r.file \in Seq(FileEntry) /\ r.map \in SUBSET (Nat \X Nat)
      /\ r.todo = SubSeq(r.file, n + 1, Len(r.file)) /\ rows \in Seq(Row)
  BY <1>1 DEF ImportType, Through, TypeOK
<1>3. n + 1 \in DOMAIN r.file /\ e = r.file[n + 1]
  BY <1>2, Rest
<1>4. e \in FileEntry
  BY <1>2, <1>3
<1>5. \A j \in DOMAIN r.file : e.kind = "task" /\ r.file[j].kind # "task" => RemapID(r.map, r.file[j].id) # 0
  BY <1>2, MadeBefore
<1>6. ~Refused(r, e)
  <2> SUFFICES ASSUME e.kind = "task" PROVE RemapID(r.map, e.tpl) # 0
    BY DEF Refused
  <2>1. PICK j \in DOMAIN r.file : r.file[j].kind = "template" /\ r.file[j].id = e.tpl
    BY <1>3 DEF Undisturbed, Complete
  <2> QED
    BY <1>5, <2>1
<1>7. Exists(CategoryOf(e))
  <2>1. e.cat \in Pool /\ e.cat # Blank
    BY <1>3, <1>4, CatalogAssumption DEF Undisturbed, FileEntry
  <2> QED
    BY <2>1 DEF Exists, CategoryOf, Normalized
<1>8. ASSUME Conflicts(e) \/ NoChannel(r, e) PROVE MadeOf(rows, r.no, e)
  <2>1. ~NoChannel(r, e)
    <3> SUFFICES ASSUME e.kind = "task" PROVE Channels(r.map, e) # {}
      BY DEF NoChannel
    <3>1. PICK j \in DOMAIN r.file : r.file[j].kind = "channel" /\ r.file[j].id \in e.chans
      BY <1>3 DEF Undisturbed, Complete
    <3>2. RemapID(r.map, r.file[j].id) \in Channels(r.map, e)
      BY <1>5, <3>1 DEF Channels
    <3> QED
      BY <3>2
  <2>2. PICK i \in DOMAIN rows : rows[i].live /\ SameName(rows[i], e)
    BY <1>8, <2>1 DEF Conflicts, Ids, Live, SameName
  <2>3. rows[i].by = r.no
    BY <1>3, <2>2 DEF Undisturbed
  <2>4. PICK k \in DOMAIN r.file : rows[i].was = r.file[k]
    BY <2>3 DEF Undisturbed, OwnRow
  <2>5. SameName(r.file[k], e)
    <3>1. SameName(rows[i], rows[i].was)
      BY <2>3 DEF Undisturbed, OwnRow
    <3> QED
      BY <2>2, <2>4, <3>1 DEF SameName
  <2>6. r.file[k] = e
    BY <1>3, <2>5 DEF Undisturbed, Complete
  <2> QED
    BY <2>3, <2>4, <2>6 DEF MadeOf
<1> QED
  BY <1>6, <1>7, <1>8

\* A step of an import keeps what it knows, as long as no statement fails.
LEMMA UndisturbedMoves ==
  ASSUME TypeOK, LinksInv, DefaultInv, OrderInv, NEW p \in Proc, BackupStep(p),
         req[p].op = "import", req'[p] # Idle, ~req'[p].failed, Undisturbed(rows, Pool, req[p])
  PROVE  Undisturbed(rows', Pool', req'[p])
<1> DEFINE r == req[p]
           s == req'[p]
<1>1. /\ s.file = r.file /\ s.no = r.no /\ r \in ImportType /\ \A i \in DOMAIN rows : Kept(i)
      /\ s.op = "import"
  BY BackupSteps, OfOp DEF Steps, Moved
<1>2. /\ MapOK(rows, r.map, r.no) /\ TasksLast(r.file) /\ Default \in Pool
      /\ r.at \in {"insert", "key"} => r.todo # <<>>
  <2>1. Default \in Pool
    BY CatalogAssumption DEF DefaultInv, Pool
  <2> QED
    BY <2>1 DEF LinksInv, Ties, OrderInv, Ordered, TypeOK, Refers, Import
<1>3. ~Export(p) /\ ~EndsEarly(p)
  BY EndsMove DEF Export, EndsEarly
<1>m. \A no, e : MadeOf(rows, no, e) => MadeOf(rows', no, e)
  BY <1>1, MadeKept
<1>4. CASE Ensure(p)
  <2>1. /\ rows' = rows /\ s.todo = r.todo /\ s.map = r.map /\ r.at = "ensure" /\ s.at # "key"
        /\ \/ r.names = {} /\ s.names = {} /\ s.at = "look" /\ cats' = cats
           \/ \E n \in r.names : /\ n \in Name /\ s.names = r.names \ {n} /\ s.at = "ensure"
                                 /\ IF n \in Pool THEN cats' = cats ELSE cats' = Append(cats, n)
    BY <1>4, EnsureEffect
  <2>2. \A k \in DOMAIN s.file : s.file[k].cat \in Pool' \/ (s.at = "ensure" /\ s.file[k].cat \in s.names)
    <3>1. \A k \in DOMAIN r.file : r.file[k].cat \in Pool \/ r.file[k].cat \in r.names
      BY DEF Undisturbed
    <3>2. CASE cats' = cats /\ r.names = {}
      <4>1. Pool' = Pool
        BY <3>2 DEF Pool
      <4> QED
        BY <1>1, <3>1, <3>2, <4>1
    <3>3. ASSUME NEW n \in r.names, n \in Name, s.names = r.names \ {n}, s.at = "ensure",
                 IF n \in Pool THEN cats' = cats ELSE cats' = Append(cats, n)
          PROVE  \A k \in DOMAIN s.file : s.file[k].cat \in Pool' \/ (s.at = "ensure" /\ s.file[k].cat \in s.names)
      <4>1. Pool \subseteq Pool' /\ n \in Pool'
        <5>1. CASE n \in Pool
          BY <3>3, <5>1 DEF Pool
        <5>2. CASE n \notin Pool
          BY <3>3, <5>2, AppendedCats, CatalogAssumption DEF Pool
        <5> QED
          BY <5>1, <5>2
      <4> QED
        BY <1>1, <3>1, <3>3, <4>1
    <3> QED
      BY <2>1, <3>2, <3>3
  <2>3. PICK n \in 0 .. Len(r.file) : Through(rows, r, n)
    BY DEF Undisturbed
  <2>4. Through(rows', s, n)
    BY <1>1, <2>1, <2>3 DEF Through
  <2>5. \A i \in DOMAIN rows' : rows'[i].by = s.no => OwnRow(rows', s, i)
    BY <1>1, <2>1 DEF Undisturbed, OwnRow
  <2> QED
    BY <1>1, <2>1, <2>2, <2>3, <2>4, <2>5 DEF Undisturbed
<1>5. ASSUME r.at # "ensure", cats' = cats, s.at \in {"look", "insert", "key"},
             \A i \in DOMAIN rows' : rows'[i].by = r.no => OwnRow(rows', s, i),
             \A i \in DOMAIN rows', k \in DOMAIN r.file :
               rows'[i].live /\ SameName(rows'[i], r.file[k]) => rows'[i].by = r.no,
             \/ s.todo = r.todo /\ (s.at = "key" => MadeOf(rows', r.no, Head(r.todo)))
             \/ /\ s.todo = Tail(r.todo) /\ s.at = "look" /\ r.todo # <<>>
                /\ MadeOf(rows', r.no, Head(r.todo))
      PROVE  Undisturbed(rows', Pool', s)
  <2>1. \E n \in 0 .. Len(s.file) : Through(rows', s, n)
    <3>1. CASE s.todo = r.todo
      <4>1. PICK n \in 0 .. Len(r.file) : Through(rows, r, n)
        BY DEF Undisturbed
      <4>2. Through(rows', s, n)
        BY <1>1, <1>m, <1>5, <3>1, <4>1 DEF Through
      <4> QED
        BY <1>1, <4>2
    <3>2. CASE s.todo = Tail(r.todo) /\ r.todo # <<>> /\ MadeOf(rows', r.no, Head(r.todo))
      <4>1. \E n \in 0 .. Len(r.file) : Through(rows, r, n)
        BY DEF Undisturbed
      <4> QED
        BY <1>1, <1>5, <3>2, <4>1, Advances
    <3> QED
      BY <1>5, <3>1, <3>2
  <2>2. Pool' = Pool
    BY <1>5 DEF Pool
  <2>3. \A k \in DOMAIN r.file : r.file[k].cat \in Pool
    BY <1>5 DEF Undisturbed
  <2>4. Complete(r.file)
    BY DEF Undisturbed
  <2>5. s.at = "key" => MadeOf(rows', s.no, Head(s.todo))
    BY <1>1, <1>5
  <2> HIDE DEF s, r
  <2> QED
    BY <1>1, <1>5, <2>1, <2>2, <2>3, <2>4, <2>5 DEF Undisturbed
<1>6. CASE Look(p)
  <2>1. /\ UNCHANGED <<cats, rows>> /\ r.at = "look" /\ r.todo # <<>> /\ s.map = r.map
        /\ \/ /\ Conflicts(Head(r.todo)) \/ NoChannel(r, Head(r.todo))
              /\ s.at = "look" /\ s.todo = Tail(r.todo)
           \/ s.at = "insert" /\ s.todo = r.todo
    BY <1>6, LookEffect
  <2>2. Conflicts(Head(r.todo)) \/ NoChannel(r, Head(r.todo)) => MadeOf(rows, r.no, Head(r.todo))
    BY <1>1, <1>2, <2>1, NotStopped
  <2>3. /\ \A i \in DOMAIN rows' : rows'[i].by = r.no => OwnRow(rows', s, i)
        /\ \A i \in DOMAIN rows', k \in DOMAIN r.file :
             rows'[i].live /\ SameName(rows'[i], r.file[k]) => rows'[i].by = r.no
    BY <1>1, <2>1 DEF Undisturbed, OwnRow
  <2> QED
    BY <1>5, <2>1, <2>2, <2>3
<1>7. CASE ImportRow(p)
  <2> DEFINE e == Head(r.todo)
             id == Len(rows) + 1
  <2>1. /\ cats' = cats /\ r.at = "insert"
        /\ s.map = IF e.kind = "task" THEN r.map ELSE r.map \cup {<<e.id, id>>}
        /\ \/ s.at = "look" /\ s.todo = Tail(r.todo)
           \/ s.at = "key" /\ s.todo = r.todo
    BY <1>7, ImportRowEffect
  <2>2. PICK x : AddsRow(x) /\ Made(x, r, e)
    BY <1>7, ImportRowEffect
  <2>3. /\ DOMAIN rows' = DOMAIN rows \cup {id} /\ rows'[id] = x
        /\ \A i \in DOMAIN rows : rows'[i] = rows[i]
    BY <2>2, AddedRow
  <2>4. r.todo # <<>> /\ \E k \in DOMAIN r.file : e = r.file[k]
    <3>1. r.todo # <<>>
      BY <1>2, <2>1
    <3>2. PICK n \in 0 .. Len(r.file) : Through(rows, r, n)
      BY DEF Undisturbed
    <3>3. r.todo = SubSeq(r.file, n + 1, Len(r.file)) /\ r.file \in Seq(FileEntry)
      BY <1>1, <3>2 DEF Through, ImportType
    <3>4. n + 1 \in DOMAIN r.file /\ e = r.file[n + 1]
      BY <3>1, <3>3, Rest
    <3> QED
      BY <3>1, <3>4
  <2>5. MadeOf(rows', r.no, e)
    BY <2>2, <2>3 DEF MadeOf, Made
  <2>6. ASSUME NEW i \in DOMAIN rows', rows'[i].by = r.no PROVE OwnRow(rows', s, i)
    <3>1. CASE i = id
      <4>1. x.was = e /\ x.kind = e.kind /\ x.title = e.title
        BY <2>2 DEF Made
      <4>2. e.kind # "task" => <<e.id, id>> \in s.map
        BY <2>1
      <4> HIDE DEF e, id
      <4> QED
        BY <1>1, <2>3, <2>4, <3>1, <4>1, <4>2 DEF OwnRow, SameName
    <3>2. CASE i \in DOMAIN rows
      <4>1. OwnRow(rows, r, i)
        BY <2>3, <2>6, <3>2 DEF Undisturbed
      <4>2. r.map \subseteq s.map
        BY <2>1
      <4> QED
        BY <1>1, <2>3, <3>2, <4>1, <4>2 DEF OwnRow
    <3> QED
      BY <2>3, <3>1, <3>2
  <2>7. ASSUME NEW i \in DOMAIN rows', NEW k \in DOMAIN r.file, rows'[i].live, SameName(rows'[i], r.file[k])
        PROVE  rows'[i].by = r.no
    <3>1. CASE i = id
      BY <2>2, <2>3, <3>1 DEF Made
    <3>2. CASE i \in DOMAIN rows
      BY <2>3, <2>7, <3>2 DEF Undisturbed
    <3> QED
      BY <2>3, <3>1, <3>2
  <2> QED
    BY <1>5, <2>1, <2>4, <2>5, <2>6, <2>7
<1>8. CASE KeepKey(p) \/ KeyIsLost(p)
  <2>1. /\ cats' = cats /\ r.at = "key" /\ s.map = r.map /\ s.at = "look" /\ s.todo = Tail(r.todo)
        /\ KeepsRows
    BY <1>8, KeyEffect
  <2>2. r.todo # <<>> /\ MadeOf(rows', r.no, Head(r.todo))
    BY <1>2, <1>m, <2>1 DEF Undisturbed
  <2>3. DOMAIN rows' = DOMAIN rows
    BY <2>1 DEF KeepsRows, TypeOK
  <2>4. \A i \in DOMAIN rows :
          /\ rows'[i].kind = rows[i].kind /\ rows'[i].title = rows[i].title
          /\ rows'[i].by = rows[i].by /\ rows'[i].was = rows[i].was /\ (rows'[i].live => rows[i].live)
    BY <1>1 DEF Kept
  <2>5. \A i \in DOMAIN rows' : rows'[i].by = r.no => OwnRow(rows', s, i)
    BY <1>1, <2>1, <2>3, <2>4 DEF Undisturbed, OwnRow, SameName
  <2>6. \A i \in DOMAIN rows', k \in DOMAIN r.file :
          rows'[i].live /\ SameName(rows'[i], r.file[k]) => rows'[i].by = r.no
    BY <2>3, <2>4 DEF Undisturbed, SameName
  <2> QED
    BY <1>5, <2>1, <2>2, <2>5, <2>6
<1> QED
  BY <1>3, <1>4, <1>6, <1>7, <1>8 DEF BackupStep

\* An import that begins alone, with a file that could be restored in full.
LEMMA UndisturbedBegins ==
  ASSUME TypeOK, OrderInv, Restorable(bundle), NEW s,
         s.file = bundle, s.todo = bundle, s.map = {}, s.at = "ensure", s.no = made + 1,
         s.names = {bundle[i].cat : i \in DOMAIN bundle} \ {Blank}
  PROVE  Undisturbed(rows, Pool, s)
<1>0. bundle \in Seq(FileEntry) /\ made \in Nat /\ \A i \in DOMAIN rows : rows[i] \in Row
  BY RowsOf DEF TypeOK
<1> DEFINE e == {bundle[i] : i \in DOMAIN bundle}
           ids(kind) == {x.id : x \in {y \in e : y.kind = kind}}
<1>1. /\ \A x \in e, i \in DOMAIN rows : ~(Live(i) /\ rows[i].kind = x.kind /\ rows[i].title = x.title)
      /\ \A x, y \in e : x.kind = y.kind /\ x.title = y.title => x = y
      /\ \A x \in e : x.kind = "task" => x.tpl \in ids("template") /\ x.chans \cap ids("channel") # {}
  BY DEF Restorable
<1>2. Complete(bundle)
  <2>1. \A j, k \in DOMAIN bundle : SameName(bundle[j], bundle[k]) => bundle[j] = bundle[k]
    BY <1>1 DEF SameName
  <2>2. ASSUME NEW k \in DOMAIN bundle, bundle[k].kind = "task"
        PROVE  /\ \E j \in DOMAIN bundle : bundle[j].kind = "template" /\ bundle[j].id = bundle[k].tpl
               /\ \E j \in DOMAIN bundle : bundle[j].kind = "channel" /\ bundle[j].id \in bundle[k].chans
    <3>1. bundle[k].tpl \in ids("template") /\ bundle[k].chans \cap ids("channel") # {}
      BY <1>1, <2>2
    <3>2. ASSUME NEW kind, NEW id \in ids(kind)
          PROVE  \E j \in DOMAIN bundle : bundle[j].kind = kind /\ bundle[j].id = id
      OBVIOUS
    <3> HIDE DEF ids
    <3> QED
      BY <3>1, <3>2
  <2> QED
    BY <2>1, <2>2 DEF Complete
<1>3. \A i \in DOMAIN rows : rows[i].by # s.no
  BY <1>0 DEF OrderInv, Row
<1>4. \A i \in DOMAIN rows, k \in DOMAIN bundle : ~(rows[i].live /\ SameName(rows[i], bundle[k]))
  BY <1>1 DEF SameName, Live
<1>5. Through(rows, s, 0)
  <2>1. Len(bundle) \in Nat /\ bundle = SubSeq(bundle, 0 + 1, Len(bundle))
    BY <1>0
  <2> QED
    BY <2>1 DEF Through
<1>6. 0 \in 0 .. Len(bundle)
  BY <1>0
<1>7. \A k \in DOMAIN bundle : bundle[k].cat \in s.names
  <2>1. \A k \in DOMAIN bundle : bundle[k] \in FileEntry
    BY <1>0
  <2>2. \A k \in DOMAIN bundle : bundle[k].cat # Blank
    BY <2>1, CatalogAssumption DEF FileEntry
  <2> QED
    BY <2>2
<1> QED
  BY <1>2, <1>3, <1>4, <1>5, <1>6, <1>7 DEF Undisturbed

LEMMA UndisturbedStep ==
  TypeOK /\ Beside /\ LinksInv /\ DefaultInv /\ OrderInv /\ UndisturbedInv /\ [Next]_vars => UndisturbedInv'
<1> SUFFICES ASSUME TypeOK, Beside, LinksInv, DefaultInv, OrderInv, UndisturbedInv, [Next]_vars
             PROVE  UndisturbedInv'
  OBVIOUS
<1>g. UndisturbedInv' <=>
        \A q \in Proc : req'[q].op = "import" /\ req'[q].can /\ req'[q].alone /\ ~req'[q].failed =>
          Undisturbed(rows', Pool', req'[q])
  BY DEF UndisturbedInv, Import
<1>1. CASE UNCHANGED vars
  BY <1>1 DEF vars, UndisturbedInv, Import, Pool
<1>2. ASSUME NEW p \in Proc, NEW r \in CatalogRequests \cup BackupRequests, Begins(p, r)
      PROVE  UndisturbedInv'
  <2>1. /\ UNCHANGED <<rows, cats>> /\ \A f \in DOMAIN r : req'[p][f] = r[f]
        /\ req'[p].op = r.op /\ req'[p].at = r.at /\ req'[p].no = made + 1
        /\ \A q \in Proc \ {p} : Stays(q) /\ (req[q] # Idle => req'[q].alone = FALSE)
    BY <1>2, BeginsEffect
  <2> DEFINE n == [no |-> 0, met |-> FALSE, alone |-> FALSE]
  <2>2. n \in Notes
    BY DEF Notes
  <2> HIDE DEF n
  <2>3. r.op = "import" => r \in BackupRequests
    BY <2>2, Begun
  <2>4. r.op = "import" =>
          /\ {"names", "file", "todo", "map", "can"} \subseteq DOMAIN r
          /\ r.at = "ensure" /\ r.names = {bundle[i].cat : i \in DOMAIN bundle} \ {Blank}
          /\ r.file = bundle /\ r.todo = bundle /\ r.map = {}
    BY <2>2, <2>3, BackupRequestType, ZenonT(150)
  <2>c. r.op = "import" => r.can = Restorable(bundle)
    BY <2>2, <2>3, BackupRequestType, Zenon
  <2>5. ASSUME NEW q \in Proc \ {p}, req'[q].op = "import" PROVE ~req'[q].alone
    BY <2>1, <2>5 DEF Stays, Idle
  <2>6. ASSUME req'[p].op = "import", req'[p].can PROVE Undisturbed(rows', Pool', req'[p])
    <3> DEFINE s == req'[p]
    <3>1. /\ s.file = bundle /\ s.todo = bundle /\ s.map = {} /\ s.at = "ensure" /\ s.no = made + 1
          /\ s.names = {bundle[i].cat : i \in DOMAIN bundle} \ {Blank}
      BY <2>1, <2>4, <2>6
    <3>2. Restorable(bundle)
      <4>1. r.op = "import" /\ r.can
        BY <2>1, <2>4, <2>6
      <4> QED
        BY <2>c, <4>1
    <3> HIDE DEF s
    <3>3. Undisturbed(rows, Pool, s)
      BY <3>1, <3>2, UndisturbedBegins
    <3>4. rows' = rows /\ Pool' = Pool
      BY <2>1 DEF Pool
    <3> QED
      BY <3>3, <3>4 DEF s
  <2> QED
    BY <1>g, <2>5, <2>6
<1>3. ASSUME NEW p \in Proc, CatalogStep(p) \/ BackupStep(p) PROVE UndisturbedInv'
  <2>1. Steps(p)
    BY <1>3, CatalogSteps, BackupSteps
  <2>2. SUFFICES ASSUME NEW q \in Proc, req'[q].op = "import", req'[q].can, req'[q].alone, ~req'[q].failed
                 PROVE  Undisturbed(rows', Pool', req'[q])
    BY <1>g
  <2>3. q = p
    <3>1. SUFFICES ASSUME q # p PROVE FALSE
      OBVIOUS
    <3>2. req'[q] = req[q] /\ req[p] # Idle /\ req[q] # Idle
      BY <2>1, <2>2, <3>1 DEF Steps, Moved, Idle
    <3> QED
      BY <2>2, <3>1, <3>2 DEF Beside
  <2>4. /\ req'[p] # Idle /\ req[p].op = "import" /\ req[p].can /\ req[p].alone /\ ~req[p].failed
    BY <2>1, <2>2, <2>3 DEF Steps, Moved, Idle
  <2>5. Undisturbed(rows, Pool, req[p])
    BY <2>4 DEF UndisturbedInv, Import
  <2>6. BackupStep(p)
    BY <1>3, <2>4, CatalogOps
  <2> QED
    BY <2>2, <2>3, <2>4, <2>5, <2>6, UndisturbedMoves
<1> QED
  BY <1>1, <1>2, <1>3, NextIs

\* What an import that has ended and met nobody has restored.
Restored(R, m) ==
  m.can /\ m.undisturbed => m.how = "done" /\ \A k \in DOMAIN m.file : MadeOf(R, m.no, m.file[k])

LEMMA RestoresStep ==
  TypeOK /\ LinksInv /\ DefaultInv /\ OrderInv /\ UndisturbedInv /\ Restores /\ [Next]_vars => Restores'
<1> SUFFICES ASSUME TypeOK, LinksInv, DefaultInv, OrderInv, UndisturbedInv, Restores, [Next]_vars
             PROVE  Restores'
  OBVIOUS
<1>1. CASE UNCHANGED vars
  BY <1>1 DEF vars, Restores
<1>2. CASE \E p \in Proc : \E r \in CatalogRequests \cup BackupRequests : Begins(p, r)
  <2>1. UNCHANGED <<rows, imports>>
    BY <1>2 DEF Begins
  <2> QED
    BY <2>1 DEF Restores
<1>3. ASSUME NEW p \in Proc, CatalogStep(p) \/ BackupStep(p) PROVE Restores'
  <2>1. Steps(p)
    BY <1>3, CatalogSteps, BackupSteps
  <2>2. \A m \in imports : Restored(rows, m)
    BY DEF Restores, Restored, MadeOf
  <2>3. \A m \in imports : Restored(rows', m)
    BY <2>1, <2>2, MadeKept DEF Restored, Steps
  <2>4. SUFFICES ASSUME NEW m \in imports', m \notin imports PROVE Restored(rows', m)
    BY <2>3 DEF Restores, Restored, MadeOf
  <2>5. Look(p)
    BY <1>3, <2>4 DEF CatalogStep, BackupStep, Export, Ensure, ImportRow, KeepKey, KeyIsLost, EndsEarly
  <2> DEFINE r == req[p]
  <2>6. /\ r.op = "import" /\ r.at = "look" /\ UNCHANGED <<cats, rows>>
        /\ \/ r.todo = <<>> /\ imports' = imports \cup {Ended(r, "done")}
           \/ /\ r.todo # <<>> /\ imports' = imports \cup {Ended(r, "failed")}
              /\ (Refused(r, Head(r.todo)) \/ ~Exists(CategoryOf(Head(r.todo))))
           \/ imports' = imports
    BY <2>5, LookEffect
  <2>7. SUFFICES ASSUME m.can, m.undisturbed
                 PROVE  m.how = "done" /\ \A k \in DOMAIN m.file : MadeOf(rows, m.no, m.file[k])
    BY <2>6 DEF Restored
  <2>8. /\ m.no = r.no /\ m.file = r.file /\ m.can = r.can /\ m.undisturbed = (r.alone /\ ~r.failed)
        /\ m = Ended(r, "done") \/ m = Ended(r, "failed")
    BY <2>4, <2>6 DEF Ended
  <2>9. Undisturbed(rows, Pool, r) /\ r \in ImportType
    BY <2>6, <2>7, <2>8, OfOp DEF UndisturbedInv, Import
  <2>10. /\ MapOK(rows, r.map, r.no) /\ TasksLast(r.file)
    BY <2>6 DEF LinksInv, Ties, OrderInv, Ordered
  <2>11. Default \in Pool
    BY CatalogAssumption DEF DefaultInv, Pool
  <2>12. r.todo # <<>> => ~Refused(r, Head(r.todo)) /\ Exists(CategoryOf(Head(r.todo)))
    BY <2>6, <2>9, <2>10, <2>11, NotStopped
  <2>13. r.todo = <<>> /\ m = Ended(r, "done")
    BY <2>4, <2>6, <2>12
  <2>14. PICK n \in 0 .. Len(r.file) : Through(rows, r, n)
    BY <2>9 DEF Undisturbed
  <2>15. r.file \in Seq(FileEntry) /\ r.todo = SubSeq(r.file, n + 1, Len(r.file))
    BY <2>9, <2>14 DEF Through, ImportType
  <2>16. n = Len(r.file) /\ DOMAIN r.file = 1 .. n
    BY <2>13, <2>15, Rest
  <2>17. m.how = "done"
    BY <2>13 DEF Ended
  <2> QED
    BY <2>8, <2>14, <2>16, <2>17 DEF Through
<1> QED
  BY <1>1, <1>2, <1>3, NextIs

LEMMA RestoresInit == Init => DefaultInv /\ UndisturbedInv /\ Restores
<1> SUFFICES ASSUME Init PROVE DefaultInv /\ UndisturbedInv /\ Restores
  OBVIOUS
<1>1. DefaultInv
  <2>1. FirstCats \in Seq(Name \ {Default}) /\ cats = <<Default>> \o FirstCats
    BY FirstAssumption DEF Init
  <2>2. 1 \in DOMAIN cats /\ cats[1] = Default
    BY <2>1
  <2> QED
    BY <2>2 DEF Init, DefaultInv, KeepsDefault, Idle
<1>2. UndisturbedInv
  BY DEF Init, UndisturbedInv, Import, Idle
<1>3. Restores
  BY DEF Init, Restores
<1> QED
  BY <1>1, <1>2, <1>3

\* Restoring: an import of a complete file into a system without conflicting
\* names, with nobody else at work, ends well and restores every row of the
\* file, however long the file and whatever was done before.
THEOREM ImportsRestore == Spec => []Restores
<1> DEFINE I == /\ TypeOK /\ Beside /\ LinksInv /\ DefaultInv /\ OrderInv
                /\ UndisturbedInv /\ Restores
<1>1. Init => I
  BY TypeInit, CategoryInit, LinksInit, OrderInit, RestoresInit
<1>2. I /\ [Next]_vars => I'
  BY TypeStep, BesideStep, LinksStep, DefaultStep, OrderStep, UndisturbedStep, RestoresStep
<1>3. I => Restores
  OBVIOUS
<1> HIDE DEF I
<1> QED
  BY <1>1, <1>2, <1>3, PTL DEF Spec

=============================================================================
