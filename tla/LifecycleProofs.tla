--------------------------- MODULE LifecycleProofs ---------------------------
(***************************************************************************)
(* Theorems about Startup and Lifecycle, for every number of containers,   *)
(* starts, migration files and statements, and every deployment.           *)
(***************************************************************************)
EXTENDS Lifecycle, TLAPS

Places == Starting \cup {"off", "work", "bind", "failed", "serve", "drain", "defers"}

\* The types the proofs rely on.
Types ==
  /\ pc \in [Slot -> Places]
  /\ inst \in [Slot -> Nat] /\ starts \in Nat
  /\ file \in [Slot -> Nat \ {0}] /\ stmt \in [Slot -> Nat \ {0}]
  /\ beat \in [Slot -> {"none", "tick", "purge", "sleep"}]
  /\ rows = [i \in Instance |-> rows[i]]

LEMMA TypesInit == Init => Types
  BY DEF Init, Types, Places

LEMMA TypesStep == Types /\ [Next]_vars => Types'
<1> SUFFICES ASSUME Types, [Next]_vars PROVE Types'
  OBVIOUS
<1> USE DEF Types, Places, Starting, Goes, Main, startVars, beatVars, httpVars, migrationVars, keyVars, startRest
<1>1. CASE UNCHANGED vars
  BY <1>1 DEF vars
<1>2. CASE Pass
  BY <1>2 DEF Pass
<1>3. CASE LoseKey /\ UNCHANGED <<beatVars, httpVars>>
  BY <1>3 DEF LoseKey
<1>4. ASSUME NEW s \in Slot, StartStep(s), UNCHANGED <<beatVars, httpVars>> PROVE Types'
  <2>1. CASE Load(s)
    BY <1>4, <2>1 DEF Load
  <2>2. CASE AcquireLock(s)
    BY <1>4, <2>2 DEF AcquireLock
  <2>3. CASE NextFile(s)
    BY <1>4, <2>3 DEF NextFile
  <2>4. CASE ExecStmt(s)
    BY <1>4, <2>4 DEF ExecStmt, Closes, AfterStmt
  <2>5. CASE Record(s)
    BY <1>4, <2>5 DEF Record
  <2>6. CASE CheckKey(s)
    BY <1>4, <2>6 DEF CheckKey
  <2> QED
    BY <1>4, <2>1, <2>2, <2>3, <2>4, <2>5, <2>6 DEF StartStep
<1>5. ASSUME NEW s \in Slot, Beat(s) PROVE Types'
  BY <1>5 DEF Beat, Purges, Upsert, PurgeStale, Remove
<1>6. ASSUME NEW s \in Slot, StartWork(s) PROVE Types'
  BY <1>6 DEF StartWork, PurgeSameAddr
<1>7. ASSUME NEW s \in Slot, Listen(s) \/ Signal(s) \/ Defers(s) PROVE Types'
  BY <1>7 DEF Listen, Signal, Defers
<1>8. ASSUME NEW s \in Slot, Return(s) \/ FailsToListen(s) \/ Killed(s) PROVE Types'
  BY <1>8 DEF Return, FailsToListen, Killed, Exits, Gone, Closes, Remove
<1>9. ASSUME NEW s \in Slot, Request(s) \/ Answer(s) PROVE Types'
  BY <1>9 DEF Request, Answer
<1> QED
  BY <1>1, <1>2, <1>3, <1>4, <1>5, <1>6, <1>7, <1>8, <1>9 DEF Next

-----------------------------------------------------------------------------
(* The schema.  A file is recorded after all its statements, and whoever is *)
(* past a file has found it recorded or recorded it.                        *)

Migrating == {"migrate", "exec", "record"}

SchemaInv ==
  /\ \A f \in recorded \ scene.recorded : Applied(f)
  /\ \A s \in Slot :
       /\ pc[s] \in Migrating => 1 .. file[s] - 1 \subseteq recorded
       /\ pc[s] \in {"exec", "record"} => file[s] \in 1 .. Files
       /\ pc[s] = "exec" => /\ stmt[s] <= Stmts[file[s]]
                            /\ \A k \in 1 .. stmt[s] - 1 : <<file[s], k>> \in applied
       /\ pc[s] = "record" => Applied(file[s])
       /\ pc[s] \notin Migrating \cup {"off", "open"} => 1 .. Files \subseteq recorded

\* The steps that are not of a migration: who is past the migrations stays so
\* or ends; who is not, ends.
LEMMA OtherSteps ==
  ASSUME Types, [Next]_vars
  PROVE  \/ \E s \in Slot : AcquireLock(s) \/ NextFile(s) \/ ExecStmt(s) \/ Record(s)
         \/ /\ UNCHANGED <<scene, file, stmt, applied, recorded, twice>>
            /\ \/ UNCHANGED <<pc, lock, halfway>>
               \/ \E s \in Slot :
                    /\ \A t \in Slot : t = s \/ pc'[t] = pc[t]
                    /\ \/ pc'[s] = "off" /\ Gone(s)
                       \/ /\ UNCHANGED <<lock, halfway>> /\ pc[s] \notin Migrating
                          /\ \/ pc'[s] \in {"off", "open"}
                             \/ pc[s] \notin {"off", "open"} /\ pc'[s] \notin Migrating
<1> USE DEF Types, Goes, Main, startVars, migrationVars, keyVars, startRest, Migrating
<1>1. CASE UNCHANGED vars
  BY <1>1 DEF vars
<1>2. CASE Pass \/ LoseKey
  BY <1>2 DEF Pass, LoseKey
<1>3. ASSUME NEW s \in Slot, Beat(s) \/ Request(s) \/ Answer(s)
      PROVE  UNCHANGED <<scene, file, stmt, applied, recorded, twice, pc, lock, halfway>>
  BY <1>3 DEF Beat, Purges, Request, Answer
<1>4. ASSUME NEW s \in Slot,
             Load(s) \/ CheckKey(s) \/ StartWork(s) \/ Listen(s) \/ Signal(s) \/ Defers(s)
      PROVE  /\ UNCHANGED <<scene, file, stmt, applied, recorded, twice, lock, halfway>>
             /\ \A t \in Slot : t = s \/ pc'[t] = pc[t]
             /\ pc[s] \notin Migrating
             /\ \/ pc'[s] \in {"off", "open"}
                \/ pc[s] \notin {"off", "open"} /\ pc'[s] \notin Migrating
  BY <1>4 DEF Load, CheckKey, StartWork, Listen, Signal, Defers
<1>5. ASSUME NEW s \in Slot, Return(s) \/ FailsToListen(s) \/ Killed(s)
      PROVE  /\ UNCHANGED <<scene, file, stmt, applied, recorded, twice>>
             /\ pc'[s] = "off" /\ Gone(s) /\ \A t \in Slot : t = s \/ pc'[t] = pc[t]
  BY <1>5 DEF Return, FailsToListen, Killed, Exits, Gone, Closes
<1> QED
  BY <1>1, <1>2, <1>3, <1>4, <1>5 DEF Next, StartStep

LEMMA SchemaStep == Types /\ SchemaInv /\ [Next]_vars => SchemaInv'
<1> SUFFICES ASSUME Types, SchemaInv, [Next]_vars PROVE SchemaInv'
  OBVIOUS
<1>t. /\ pc \in [Slot -> Places] /\ file \in [Slot -> Nat \ {0}] /\ stmt \in [Slot -> Nat \ {0}]
      /\ Files \in Nat /\ Stmts \in [1 .. Files -> Nat \ {0}]
  BY StartupAssumption DEF Types
<1>f. /\ pc = [t \in Slot |-> pc[t]] /\ file = [t \in Slot |-> file[t]]
      /\ stmt = [t \in Slot |-> stmt[t]]
  BY <1>t
<1> USE DEF Migrating, Goes
<1>1. ASSUME NEW s \in Slot, AcquireLock(s) PROVE SchemaInv'
  <2>0. UNCHANGED <<scene, stmt, applied, recorded>>
    BY <1>1 DEF AcquireLock
  <2>1. /\ file'[s] = 1 /\ pc'[s] = "migrate"
        /\ \A t \in Slot \ {s} : pc'[t] = pc[t] /\ file'[t] = file[t]
    BY <1>1, <1>t DEF AcquireLock
  <2>2. 1 .. file'[s] - 1 = {}
    BY <2>1
  <2> QED
    BY <2>0, <2>1, <2>2 DEF SchemaInv, Applied
<1>2. ASSUME NEW s \in Slot, NextFile(s) PROVE SchemaInv'
  <2>x. \A t \in Slot \ {s} : pc'[t] = pc[t] /\ file'[t] = file[t] /\ stmt'[t] = stmt[t]
    BY <1>2, <1>t DEF NextFile
  <2>0. /\ UNCHANGED <<scene, applied, recorded>> /\ pc[s] = "migrate"
        /\ \A t \in Slot : t = s \/ (pc'[t] = pc[t] /\ file'[t] = file[t] /\ stmt'[t] = stmt[t])
    BY <1>2, <2>x DEF NextFile
  <2>1. CASE file[s] > Files /\ pc'[s] = "check"
    <3>1. 1 .. Files \subseteq recorded
      BY <1>t, <2>0, <2>1 DEF SchemaInv
    <3> QED
      BY <2>0, <2>1, <3>1 DEF SchemaInv, Applied
  <2>2. CASE file[s] \in recorded /\ file'[s] = file[s] + 1 /\ pc'[s] = "migrate"
    <3>1. 1 .. file'[s] - 1 \subseteq recorded
      BY <1>t, <2>0, <2>2 DEF SchemaInv
    <3> QED
      BY <2>0, <2>2, <3>1 DEF SchemaInv, Applied
  <2>3. CASE file[s] \in 1 .. Files /\ file'[s] = file[s] /\ stmt'[s] = 1 /\ pc'[s] = "exec"
    <3>1. 1 <= Stmts[file[s]] /\ 1 .. 1 - 1 = {}
      BY <1>t, <2>3
    <3> QED
      BY <2>0, <2>3, <3>1 DEF SchemaInv, Applied
  <2> QED
    BY <1>2, <1>t, <2>1, <2>2, <2>3 DEF NextFile
<1>3. ASSUME NEW s \in Slot, ExecStmt(s) PROVE SchemaInv'
  <2> DEFINE f == file[s]
             k == stmt[s]
  <2>x. \A t \in Slot \ {s} : pc'[t] = pc[t] /\ stmt'[t] = stmt[t]
    BY <1>3, <1>t DEF ExecStmt, Closes
  <2>0. /\ UNCHANGED <<scene, file, recorded>> /\ pc[s] = "exec" /\ applied \subseteq applied'
        /\ \A t \in Slot : t = s \/ (pc'[t] = pc[t] /\ stmt'[t] = stmt[t])
    BY <1>3, <2>x DEF ExecStmt, Closes
  <2>a. f \in 1 .. Files /\ k \in Nat \ {0} /\ Stmts[f] \in Nat
    BY <1>t, <2>0 DEF SchemaInv
  <2>1. CASE pc'[s] = "off"
    BY <2>0, <2>1 DEF SchemaInv, Applied
  <2>2. CASE applied' = applied \cup {<<f, k>>} /\ stmt'[s] = k + 1 /\ pc'[s] = AfterStmt(f, k)
    <3>1. \A j \in 1 .. k : <<f, j>> \in applied'
      BY <2>0, <2>a, <2>2 DEF SchemaInv
    <3>2. CASE k = Stmts[f]
      <4>1. pc'[s] = "record" /\ \A j \in 1 .. Stmts[f] : <<f, j>> \in applied'
        BY <2>2, <3>1, <3>2 DEF AfterStmt
      <4> QED
        BY <2>0, <2>a, <2>2, <4>1 DEF SchemaInv, Applied
    <3>3. CASE k # Stmts[f]
      <4>1. pc'[s] = "exec" /\ stmt'[s] <= Stmts[f] /\ 1 .. stmt'[s] - 1 = 1 .. k
        BY <2>0, <2>a, <2>2, <3>3 DEF AfterStmt, SchemaInv
      <4> QED
        BY <2>0, <2>a, <2>2, <3>1, <4>1 DEF SchemaInv, Applied
    <3> QED
      BY <3>2, <3>3
  <2> QED
    BY <1>3, <1>t, <2>1, <2>2 DEF ExecStmt, Closes
<1>4. ASSUME NEW s \in Slot, Record(s) PROVE SchemaInv'
  <2>x. \A t \in Slot \ {s} : pc'[t] = pc[t] /\ file'[t] = file[t]
    BY <1>4, <1>t DEF Record
  <2>1. /\ UNCHANGED <<scene, stmt, applied>> /\ pc[s] = "record" /\ pc'[s] = "migrate"
        /\ recorded' = recorded \cup {file[s]} /\ file'[s] = file[s] + 1
        /\ \A t \in Slot : t = s \/ (pc'[t] = pc[t] /\ file'[t] = file[t])
    BY <1>4, <1>t, <2>x DEF Record
  <2>2. 1 .. file'[s] - 1 \subseteq recorded' /\ Applied(file[s])
    BY <1>t, <2>1 DEF SchemaInv
  <2> QED
    BY <2>1, <2>2 DEF SchemaInv, Applied
<1>5. CASE UNCHANGED <<scene, file, stmt, applied, recorded>> /\ UNCHANGED pc
  BY <1>5 DEF SchemaInv, Applied
<1>6. ASSUME NEW s \in Slot, UNCHANGED <<scene, file, stmt, applied, recorded>>,
             \A t \in Slot : t = s \/ pc'[t] = pc[t],
             \/ pc'[s] \in {"off", "open"}
             \/ pc[s] \notin Migrating \cup {"off", "open"} /\ pc'[s] \notin Migrating
      PROVE  SchemaInv'
  BY <1>6 DEF SchemaInv, Applied
<1> QED
  BY <1>1, <1>2, <1>3, <1>4, <1>5, <1>6, OtherSteps

\* Nobody works on a schema that is not complete, for any number of replicas,
\* files and statements, wherever processes die.
THEOREM SchemaIsComplete == Spec => []SchemaComplete
<1>1. Init => Types /\ SchemaInv
  BY TypesInit DEF Init, SchemaInv, Migrating
<1>2. (Types /\ SchemaInv) /\ [Next]_vars => (Types /\ SchemaInv)'
  BY TypesStep, SchemaStep
<1>3. SchemaInv => SchemaComplete
  BY DEF SchemaInv, SchemaComplete, Starting, Migrating
<1> QED
  BY <1>1, <1>2, <1>3, PTL DEF Spec
-----------------------------------------------------------------------------
(* The lock.  A statement of a file that is not recorded was executed by the *)
(* one that holds the lock and is in that file, or a process died there.     *)

Holds(s, f, k) == file[s] = f /\ (pc[s] = "record" \/ (pc[s] = "exec" /\ k < stmt[s]))

LockInv ==
  /\ \A s \in Slot : pc[s] \in Migrating => lock = s
  /\ \A s \in Slot : pc[s] \in {"exec", "record"} => file[s] \notin recorded
  /\ \A f \in 1 .. Files, k \in Nat \ {0} :
       <<f, k>> \in applied /\ f \notin recorded => f \in halfway \/ \E s \in Slot : Holds(s, f, k)
  /\ twice \subseteq halfway

LEMMA LockStep == Types /\ SchemaInv /\ LockInv /\ [Next]_vars => LockInv'
<1> SUFFICES ASSUME Types, SchemaInv, LockInv, [Next]_vars PROVE LockInv'
  OBVIOUS
<1>t. /\ pc \in [Slot -> Places] /\ file \in [Slot -> Nat \ {0}] /\ stmt \in [Slot -> Nat \ {0}]
      /\ Files \in Nat /\ None \notin Slot
  BY StartupAssumption DEF Types
<1> USE DEF Migrating, Goes
<1>1. ASSUME NEW s \in Slot, AcquireLock(s) PROVE LockInv'
  <2>0. /\ UNCHANGED <<stmt, applied, recorded, halfway, twice>> /\ lock' = s /\ pc'[s] = "migrate"
        /\ pc[s] = "open"
    BY <1>1, <1>t DEF AcquireLock
  <2>1. \A t \in Slot \ {s} : pc'[t] = pc[t] /\ file'[t] = file[t] /\ pc[t] \notin Migrating
    BY <1>1, <1>t DEF AcquireLock, LockFree, LockInv
  <2> QED
    BY <2>0, <2>1 DEF LockInv, Holds
<1>2. ASSUME NEW s \in Slot, NextFile(s) PROVE LockInv'
  <2>0. UNCHANGED <<applied, recorded, halfway, twice>> /\ pc[s] = "migrate" /\ lock = s
    BY <1>2 DEF NextFile, LockInv
  <2>1. \A t \in Slot \ {s} : /\ pc'[t] = pc[t] /\ file'[t] = file[t] /\ stmt'[t] = stmt[t]
                             /\ pc[t] \notin Migrating
    BY <1>2, <2>0, <1>t DEF NextFile, LockInv
  <2>2. \/ pc'[s] = "check"
        \/ pc'[s] = "migrate" /\ lock' = s
        \/ pc'[s] = "exec" /\ lock' = s /\ file'[s] \notin recorded
    BY <1>2, <2>0, <1>t DEF NextFile
  <2>3. \A f \in 1 .. Files, k \in Nat \ {0} : <<f, k>> \in applied /\ f \notin recorded => f \in halfway
    BY <2>0, <2>1 DEF LockInv, Holds
  <2> QED
    BY <2>0, <2>1, <2>2, <2>3 DEF LockInv
<1>3. ASSUME NEW s \in Slot, ExecStmt(s) PROVE LockInv'
  <2> DEFINE f == file[s]
             k == stmt[s]
  <2>0. UNCHANGED <<file, recorded>> /\ pc[s] = "exec" /\ lock = s /\ f \notin recorded
    BY <1>3 DEF ExecStmt, LockInv
  <2>1. \A t \in Slot \ {s} : pc'[t] = pc[t] /\ stmt'[t] = stmt[t] /\ pc[t] \notin Migrating
    BY <1>3, <2>0, <1>t DEF ExecStmt, Closes, LockInv
  <2>a. f \in 1 .. Files /\ k \in Nat \ {0}
    BY <1>t, <2>0 DEF SchemaInv
  <2>2. CASE <<f, k>> \in applied
    <3>1. /\ UNCHANGED <<applied, halfway>> /\ twice' = twice \cup {f} /\ pc'[s] = "off"
      BY <1>3, <1>t, <2>2 DEF ExecStmt, Closes
    <3>2. \A t \in Slot : ~Holds(t, f, k)
      BY <2>0, <2>1, <2>a DEF Holds
    <3>3. f \in halfway
      BY <2>0, <2>2, <2>a, <3>2 DEF LockInv
    <3>4. \A g \in 1 .. Files, j \in Nat \ {0} : <<g, j>> \in applied /\ g \notin recorded => g \in halfway
      BY <2>0, <2>1, <3>3 DEF LockInv, Holds
    <3> QED
      BY <2>0, <2>1, <3>1, <3>3, <3>4 DEF LockInv
  <2>3. CASE <<f, k>> \notin applied
    <3>1. /\ UNCHANGED <<lock, halfway, twice>> /\ applied' = applied \cup {<<f, k>>}
          /\ stmt'[s] = k + 1 /\ pc'[s] \in {"exec", "record"}
      BY <1>3, <1>t, <2>3 DEF ExecStmt, AfterStmt
    <3>2. \A g \in 1 .. Files, j \in Nat \ {0} :
            <<g, j>> \in applied' /\ g \notin recorded => g \in halfway \/ \E t \in Slot : Holds(t, g, j)'
      <4> SUFFICES ASSUME NEW g \in 1 .. Files, NEW j \in Nat \ {0},
                          <<g, j>> \in applied', g \notin recorded, g \notin halfway
                   PROVE  Holds(s, g, j)'
        OBVIOUS
      <4>1. \/ g = f /\ j = k
            \/ \E t \in Slot : Holds(t, g, j)
        BY <3>1 DEF LockInv
      <4>2. g = f /\ (j = k \/ j < k)
        BY <2>0, <2>1, <4>1 DEF Holds
      <4> QED
        BY <2>0, <2>a, <3>1, <4>2 DEF Holds
    <3> QED
      BY <2>0, <2>1, <3>1, <3>2 DEF LockInv
  <2> QED
    BY <2>2, <2>3
<1>4. ASSUME NEW s \in Slot, Record(s) PROVE LockInv'
  <2>0. /\ UNCHANGED <<lock, applied, halfway, twice>> /\ pc[s] = "record" /\ pc'[s] = "migrate"
        /\ recorded' = recorded \cup {file[s]} /\ lock = s
    BY <1>4, <1>t DEF Record, LockInv
  <2>1. \A t \in Slot \ {s} : pc'[t] = pc[t] /\ file'[t] = file[t] /\ pc[t] \notin Migrating
    BY <1>4, <2>0, <1>t DEF Record, LockInv
  <2>2. \A f \in 1 .. Files, k \in Nat \ {0} : <<f, k>> \in applied /\ f \notin recorded' => f \in halfway
    BY <2>0, <2>1 DEF LockInv, Holds
  <2> QED
    BY <2>0, <2>1, <2>2 DEF LockInv
<1>5. CASE UNCHANGED <<file, stmt, applied, recorded, twice, pc, lock, halfway>>
  BY <1>5 DEF LockInv, Holds
<1>6. ASSUME NEW s \in Slot, UNCHANGED <<file, stmt, applied, recorded, twice, lock, halfway>>,
             \A t \in Slot : t = s \/ pc'[t] = pc[t],
             pc[s] \notin Migrating, pc'[s] \notin Migrating
      PROVE  LockInv'
  BY <1>6 DEF LockInv, Holds
<1>7. ASSUME NEW s \in Slot, UNCHANGED <<file, stmt, applied, recorded, twice>>,
             \A t \in Slot : t = s \/ pc'[t] = pc[t],
             pc'[s] = "off", Gone(s)
      PROVE  LockInv'
  <2>1. /\ halfway \subseteq halfway' /\ (pc[s] \in {"exec", "record"} => file[s] \in halfway')
        /\ \A t \in Slot \ {s} : lock = t => lock' = t
    BY <1>7 DEF Gone, Closes
  <2>2. \A f \in 1 .. Files, k \in Nat \ {0} :
          <<f, k>> \in applied /\ f \notin recorded => f \in halfway' \/ \E t \in Slot \ {s} : Holds(t, f, k)
    BY <2>1 DEF LockInv, Holds
  <2>3. \A f, k : \A t \in Slot \ {s} : Holds(t, f, k) => Holds(t, f, k)'
    BY <1>7 DEF Holds
  <2> QED
    BY <1>7, <2>1, <2>2, <2>3 DEF LockInv
<1> QED
  <2>1. \A t \in {"off", "open"} : t \notin Migrating
    OBVIOUS
  <2> QED
    BY <1>1, <1>2, <1>3, <1>4, <1>5, <1>6, <1>7, <2>1, OtherSteps

\* A statement fails as a duplicate only where a process had died: two
\* processes that start beside each other never execute one file both.
THEOREM OnlyCrashesStick == Spec => []StuckByCrashOnly
<1>1. Init => Types /\ SchemaInv /\ LockInv
  BY TypesInit DEF Init, SchemaInv, LockInv, Migrating
<1>2. (Types /\ SchemaInv /\ LockInv) /\ [Next]_vars => (Types /\ SchemaInv /\ LockInv)'
  BY TypesStep, SchemaStep, LockStep
<1>3. LockInv => StuckByCrashOnly
  BY DEF LockInv, StuckByCrashOnly
<1> QED
  BY <1>1, <1>2, <1>3, PTL DEF Spec
-----------------------------------------------------------------------------
(* The rows.  A row that is shown has a heartbeat goroutine that will remove *)
(* it, or belongs to an instance that could not.                            *)

RowInv ==
  /\ \A s \in Slot : Beating(s) => pc[s] \in {"bind", "serve", "drain", "failed"}
  /\ \A i \in Instance : Shown(i) => i \in unclean \/ \E s \in Slot : Beating(s) /\ inst[s] = i

LEMMA RowStep == Types /\ RowInv /\ [Next]_vars => RowInv'
<1> SUFFICES ASSUME Types, RowInv, [Next]_vars PROVE RowInv'
  OBVIOUS
<1>t. /\ pc \in [Slot -> Places] /\ inst \in [Slot -> Nat]
      /\ beat \in [Slot -> {"none", "tick", "purge", "sleep"}]
      /\ rows = [i \in Instance |-> rows[i]]
  BY DEF Types
<1> USE DEF Goes, Main, Beating, Shown, startVars, startRest, beatVars, httpVars
<1>1. CASE UNCHANGED vars
  BY <1>1 DEF vars, RowInv
<1>2. CASE Pass
  BY <1>2, <1>t DEF Pass, Older, RowInv
<1>3. CASE LoseKey /\ UNCHANGED <<beatVars, httpVars>>
  BY <1>3 DEF LoseKey, RowInv
<1>4. ASSUME NEW s \in Slot, StartStep(s), UNCHANGED <<beatVars, httpVars>> PROVE RowInv'
  <2>1. pc[s] \in Starting \cup {"off"} /\ UNCHANGED <<rows, beat, unclean>>
    BY <1>4 DEF StartStep, Load, AcquireLock, NextFile, ExecStmt, Record, CheckKey, Starting
  <2>2. ~Beating(s)
    BY <2>1 DEF RowInv, Starting
  <2>3. /\ \A t \in Slot \ {s} : pc'[t] = pc[t]
        /\ \A t \in Slot \ {s} : inst'[t] = inst[t]
    BY <1>4, <1>t DEF StartStep, Load, AcquireLock, NextFile, ExecStmt, Record, CheckKey, Closes
  <2> QED
    BY <2>1, <2>2, <2>3 DEF RowInv
<1>5. ASSUME NEW s \in Slot, Beat(s) PROVE RowInv'
  <2>0. UNCHANGED <<pc, inst>> /\ Beating(s) /\ \A t \in Slot \ {s} : beat'[t] = beat[t]
    BY <1>5, <1>t DEF Beat, Purges
  <2>1. CASE beat'[s] # "none" /\ unclean' = unclean /\ \A i \in Instance \ {inst[s]} : Shown(i)' => Shown(i)
    BY <2>0, <2>1 DEF RowInv
  <2>2. CASE /\ beat'[s] = "none" /\ unclean \subseteq unclean'
             /\ \A i \in Instance : Shown(i)' => Shown(i)
             /\ inst[s] \in Instance => inst[s] \in unclean' \/ ~Shown(inst[s])'
    BY <2>0, <2>2 DEF RowInv
  <2>3. CASE beat[s] \in {"tick", "purge"} \/ (beat[s] = "sleep" /\ beat'[s] = "tick")
    <3>1. beat'[s] # "none" /\ unclean' = unclean
      BY <1>5, <1>t, <2>3 DEF Beat, Purges
    <3>2. \A i \in Instance \ {inst[s]} : Shown(i)' => Shown(i)
      BY <1>5, <1>t, <2>3 DEF Beat, Purges, Upsert, PurgeStale
    <3> QED
      BY <2>1, <3>1, <3>2
  <2>4. CASE beat[s] = "sleep" /\ beat'[s] = "none"
    <3>1. unclean \subseteq unclean' /\ (rows' = Remove(s) \/ (rows' = rows /\ inst[s] \in unclean'))
      BY <1>5, <1>t, <2>4 DEF Beat, Purges
    <3>2. /\ \A i \in Instance : Shown(i)' => Shown(i)
          /\ inst[s] \in Instance => inst[s] \in unclean' \/ ~Shown(inst[s])'
      BY <1>t, <2>0, <3>1 DEF Remove
    <3> QED
      BY <2>2, <2>4, <3>1, <3>2
  <2> QED
    BY <1>5, <1>t, <2>3, <2>4 DEF Beat, Purges
<1>6. ASSUME NEW s \in Slot, StartWork(s) PROVE RowInv'
  <2>1. /\ UNCHANGED <<inst, unclean>> /\ pc'[s] = "bind" /\ beat'[s] = "tick" /\ pc[s] = "work"
        /\ \A t \in Slot \ {s} : pc'[t] = pc[t]
    BY <1>6, <1>t DEF StartWork
  <2>2. /\ \A t \in Slot \ {s} : beat'[t] = beat[t]
        /\ \A i \in Instance : Shown(i)' => Shown(i)
    BY <1>6, <1>t DEF StartWork, PurgeSameAddr
  <2> QED
    BY <2>1, <2>2 DEF RowInv
<1>7. ASSUME NEW s \in Slot, Listen(s) \/ Signal(s) \/ Defers(s) PROVE RowInv'
  <2>1. /\ UNCHANGED <<inst, unclean, rows, beat>>
        /\ \A t \in Slot \ {s} : pc'[t] = pc[t]
        /\ pc'[s] \in {"failed", "serve", "drain"} \/ ~Beating(s)
    BY <1>7, <1>t DEF Listen, Signal, Defers, BeatEnded
  <2> QED
    BY <2>1 DEF RowInv
<1>8. ASSUME NEW s \in Slot, Return(s) \/ FailsToListen(s) \/ Killed(s) PROVE RowInv'
  <2>1. /\ inst' = inst /\ pc'[s] = "off" /\ beat'[s] = "none" /\ unclean \subseteq unclean'
        /\ \A t \in Slot \ {s} : pc'[t] = pc[t] /\ beat'[t] = beat[t]
    BY <1>8, <1>t DEF Return, FailsToListen, Killed, Exits, Gone, Closes
  <2>2. \A i \in Instance : Shown(i)' => Shown(i)
    BY <1>8, <1>t DEF Return, FailsToListen, Killed, Remove
  <2>3. ~Beating(s) \/ inst[s] \in unclean'
    BY <1>8 DEF Return, FailsToListen, Killed, BeatEnded, RowInv
  <2> QED
    BY <2>1, <2>2, <2>3 DEF RowInv
<1>9. ASSUME NEW s \in Slot, Request(s) \/ Answer(s) PROVE RowInv'
  BY <1>9 DEF Request, Answer, RowInv
<1> QED
  BY <1>1, <1>2, <1>3, <1>4, <1>5, <1>6, <1>7, <1>8, <1>9 DEF Next

\* A replica that has ended in good order is never shown again.
THEOREM NobodyIsLeftBehind == Spec => []GoneIsGone
<1>1. Init => Types /\ RowInv
  BY TypesInit DEF Init, RowInv, Shown, Beating
<1>2. (Types /\ RowInv) /\ [Next]_vars => (Types /\ RowInv)'
  BY TypesStep, RowStep
<1>3. RowInv => GoneIsGone
  BY DEF RowInv, GoneIsGone, Alive
<1> QED
  BY <1>1, <1>2, <1>3, PTL DEF Spec
-----------------------------------------------------------------------------
(* The key.  Of the keys that are not doubtful there is one: all processes    *)
(* have it, and it is that of the key files.  A process that has chosen it   *)
(* anew and not checked it yet has nobody with such a key beside it, and no   *)
(* file but its own has its key.  What the table holds is encrypted with it,   *)
(* unless it is new and waits for the check.                               *)

Vols == {Volume(s) : s \in Slot}

GivenOnly ==
  given => /\ \A v \in Vols : keyFile[v] = None
           /\ sealed \subseteq {GivenKey}
           /\ \A s \in Up : key[s] = GivenKey /\ ~auto[s]

OneKey ==
  /\ \A s, t \in Up : key[s] \notin doubtful /\ key[t] \notin doubtful => key[s] = key[t]
  /\ \A v \in Vols, s \in Up :
       keyFile[v] # None /\ keyFile[v] \notin doubtful /\ key[s] \notin doubtful => key[s] = keyFile[v]
  /\ \A v, w \in Vols :
       /\ keyFile[v] # None /\ keyFile[v] \notin doubtful
       /\ keyFile[w] # None /\ keyFile[w] \notin doubtful
       => keyFile[v] = keyFile[w]

FreshAlone ==
  \A s \in Up : Fresh(s) /\ key[s] \notin doubtful =>
    /\ \A t \in Up : t = s \/ key[t] \in doubtful
    /\ \A v \in Vols : keyFile[v] # None /\ keyFile[v] = key[s] => v = Volume(s)

SealedByKey ==
  \A s \in Up, k \in sealed : k \notin doubtful /\ key[s] \notin doubtful => Fresh(s) \/ k = key[s]

SealedByFile ==
  \A v \in Vols, k \in sealed : keyFile[v] # None /\ k \notin doubtful /\ keyFile[v] \notin doubtful =>
    k = keyFile[v] \/ \E s \in Up : Fresh(s) /\ key[s] = keyFile[v]

KeyInv ==
  /\ scene \in Scenes /\ auto \in [Slot -> BOOLEAN]
  /\ key = [s \in Slot |-> key[s]] /\ keyFile = [v \in Vols |-> keyFile[v]]
  /\ \A s \in inflight : s \in Slot /\ pc[s] \notin Starting \cup {"off"}
  /\ GivenOnly /\ OneKey /\ FreshAlone /\ SealedByKey /\ SealedByFile

\* A process moves on, and is neither at the start nor at the end of its start.
LEMMA KeyMoves ==
  ASSUME Types, KeyInv, UNCHANGED <<scene, keyVars, doubtful>>,
         NEW s \in Slot, \A t \in Slot : t = s \/ pc'[t] = pc[t],
         pc[s] # "off" /\ pc'[s] # "off", pc[s] \in Starting <=> pc'[s] \in Starting,
         inflight' = inflight
  PROVE  KeyInv'
<1>1. UNCHANGED <<scene, key, auto, keyFile, given, sealed, doubtful>> /\ Vols' = Vols
  BY DEF keyVars, Vols, Volume
<1>2. Up' = Up /\ \A t \in Slot : (Fresh(t)' <=> Fresh(t)) /\ Volume(t)' = Volume(t)
  BY <1>1 DEF Up, Fresh, Volume
<1>3. GivenOnly' /\ OneKey' /\ SealedByKey'
  BY <1>1, <1>2 DEF KeyInv, GivenOnly, OneKey, SealedByKey, Up
<1>4. FreshAlone' /\ SealedByFile'
  BY <1>1, <1>2 DEF KeyInv, FreshAlone, SealedByFile, Up
<1> QED
  BY <1>1, <1>3, <1>4 DEF KeyInv

\* A process ends, or gives its new key up; its key file may stay, or go, and
\* the key is doubtful if it was new and its file stays.
LEMMA KeyEnds ==
  ASSUME Types, KeyInv, UNCHANGED <<scene, key, auto, given, sealed>>,
         NEW s \in Up, pc'[s] = "off", \A t \in Slot \ {s} : pc'[t] = pc[t],
         doubtful \subseteq doubtful', keyFile' = [v \in Vols |-> keyFile'[v]],
         \A v \in Vols : keyFile'[v] = keyFile[v] \/ keyFile'[v] = None,
         Fresh(s) => key[s] \in doubtful' \/ keyFile'[Volume(s)] = None,
         inflight' \subseteq inflight \ {s}
  PROVE  KeyInv'
<1>1. /\ Vols' = Vols /\ \A t \in Slot : Volume(t)' = Volume(t)
      /\ \A k : k \notin doubtful' => k \notin doubtful
  BY DEF Vols, Volume
<1>2. /\ Up' = Up \ {s} /\ s \in Slot
      /\ \A t \in Up' : t \in Up /\ (Fresh(t)' <=> Fresh(t))
  BY DEF Up, Fresh
<1>3. GivenOnly' /\ OneKey'
  BY <1>1, <1>2 DEF KeyInv, GivenOnly, OneKey
<1>4. SealedByKey'
  BY <1>1, <1>2 DEF KeyInv, SealedByKey
<1>5. FreshAlone'
  <2> SUFFICES ASSUME NEW t \in Up', Fresh(t)', key'[t] \notin doubtful'
               PROVE  /\ \A u \in Up' : u = t \/ key'[u] \in doubtful'
                      /\ \A v \in Vols : keyFile'[v] # None /\ keyFile'[v] = key'[t] => v = Volume(t)
    BY <1>1, <1>2 DEF FreshAlone, Up
  <2>1. /\ \A u \in Up : u = t \/ key[u] \in doubtful
        /\ \A v \in Vols : keyFile[v] # None /\ keyFile[v] = key[t] => v = Volume(t)
    BY <1>1, <1>2 DEF KeyInv, FreshAlone
  <2> QED
    BY <1>1, <1>2, <2>1
<1>6. SealedByFile'
  <2> SUFFICES ASSUME NEW v \in Vols, NEW k \in sealed, keyFile'[v] # None, k \notin doubtful',
                      keyFile'[v] \notin doubtful', k # keyFile'[v]
               PROVE  \E t \in Up' : Fresh(t)' /\ key[t] = keyFile'[v]
    BY <1>1 DEF SealedByFile
  <2>1. keyFile'[v] = keyFile[v]
    OBVIOUS
  <2>2. PICK t \in Up : Fresh(t) /\ key[t] = keyFile[v]
    BY <1>1, <2>1 DEF KeyInv, SealedByFile
  <2>3. t # s
    <3> SUFFICES ASSUME t = s PROVE FALSE
      OBVIOUS
    <3>1. key[s] \notin doubtful' /\ key[s] \notin doubtful
      BY <1>1, <2>1, <2>2
    <3>2. v = Volume(s)
      BY <2>1, <2>2, <3>1 DEF KeyInv, FreshAlone
    <3> QED
      BY <2>2, <3>1, <3>2
  <2> QED
    BY <1>2, <2>1, <2>2, <2>3
<1> QED
  BY <1>1, <1>2, <1>3, <1>4, <1>5, <1>6 DEF KeyInv

LEMMA KeyCloses ==
  ASSUME Types, KeyInv, UNCHANGED <<scene, key, auto, keyFile, given, sealed>>,
         NEW s \in Up, Closes(s), inflight' \subseteq inflight \ {s}
  PROVE  KeyInv'
<1>1. pc'[s] = "off" /\ \A t \in Slot \ {s} : pc'[t] = pc[t]
  BY DEF Closes, Goes, Types, Up
<1>2. doubtful \subseteq doubtful' /\ (Fresh(s) => key[s] \in doubtful')
  BY DEF Closes
<1>3. keyFile' = [v \in Vols |-> keyFile'[v]]
  BY DEF KeyInv
<1> QED
  BY <1>1, <1>2, <1>3, KeyEnds

\* What a start leaves as it is.
LEMMA KeyLoad ==
  ASSUME Types, KeyInv, NEW s \in Slot, Load(s), inflight' = inflight
  PROVE  KeyInv'
<1> DEFINE v == Volume(s)
<1>1. /\ UNCHANGED <<scene, given, sealed>> /\ Vols' = Vols /\ pc'[s] = "open"
      /\ pc[s] = "off" /\ v \in Vols /\ doubtful \subseteq doubtful'
      /\ \A t \in Slot : Volume(t)' = Volume(t)
  BY DEF Load, TakesFile, Generates, Goes, Vols, Volume, Types
<1>2. /\ \A t \in Slot \ {s} : pc'[t] = pc[t] /\ key'[t] = key[t] /\ auto'[t] = auto[t]
      /\ auto' \in [Slot -> BOOLEAN] /\ key' = [t \in Slot |-> key'[t]]
  BY DEF Load, TakesFile, Generates, Goes, KeyInv, Types
<1>3. starts' # None
  BY StartupAssumption DEF Load, KeyInv, Types
<1>5. s \notin Up /\ Up' = Up \cup {s} /\ \A t \in Up : t \in Slot \ {s} /\ (Fresh(t)' <=> Fresh(t))
  BY <1>1, <1>2 DEF Up, Fresh
<1>6. \A k : k \notin doubtful' => k \notin doubtful
  BY <1>1
<1>7. \A t \in inflight : t \in Slot \ {s}
  BY <1>1 DEF KeyInv
<1>d. keyFile = [w \in Vols |-> keyFile[w]] /\ DOMAIN keyFile = Vols
  BY DEF KeyInv
<1>8. CASE /\ given /\ key' = [key EXCEPT ![s] = GivenKey] /\ auto' = [auto EXCEPT ![s] = FALSE]
           /\ UNCHANGED <<keyFile, doubtful>>
  <2>1. key'[s] = GivenKey /\ auto'[s] = FALSE
    BY <1>8 DEF KeyInv
  <2>2. /\ \A w \in Vols : keyFile[w] = None
        /\ sealed \subseteq {GivenKey} /\ \A t \in Up : key[t] = GivenKey /\ ~auto[t]
    BY <1>8 DEF KeyInv, GivenOnly
  <2>3. \A t \in Up' : key'[t] = GivenKey /\ ~auto'[t] /\ ~Fresh(t)'
    BY <1>2, <1>5, <2>1, <2>2 DEF Fresh
  <2>4. GivenOnly' /\ OneKey' /\ FreshAlone' /\ SealedByKey' /\ SealedByFile'
    BY <1>1, <1>8, <2>2, <2>3 DEF GivenOnly, OneKey, FreshAlone, SealedByKey, SealedByFile
  <2> QED
    BY <1>1, <1>2, <1>7, <1>8, <1>d, <2>4 DEF KeyInv
<1>9. CASE ~given /\ TakesFile(s)
  <2> DEFINE k == keyFile[v]
  <2>1. k # None /\ key'[s] = k /\ auto'[s] = FALSE /\ keyFile' = keyFile /\ ~Fresh(s)'
    BY <1>9 DEF TakesFile, KeyInv, Fresh
  <2>2. ASSUME NEW t \in Up, Fresh(t), key[t] \notin doubtful' PROVE key[t] # k
    <3> SUFFICES ASSUME key[t] = k PROVE FALSE
      OBVIOUS
    <3>1. \E u \in Slot : Fresh(u) /\ key[u] = k
      BY <1>5, <2>2
    <3>2. k \in doubtful'
      BY <1>9, <3>1 DEF TakesFile
    <3> QED
      BY <2>2, <3>2
  <2> HIDE DEF k
  <2>k. keyFile[v] = k
    BY DEF k
  <2> HIDE DEF v
  <2>3. OneKey'
    <3>1. \A t \in Up : k \notin doubtful' /\ key[t] \notin doubtful' => key[t] = k
      BY <1>1, <1>6, <2>1, <2>k DEF KeyInv, OneKey
    <3>2. \A w \in Vols : keyFile[w] # None /\ keyFile[w] \notin doubtful' /\ k \notin doubtful' => keyFile[w] = k
      BY <1>1, <1>6, <2>1, <2>k DEF KeyInv, OneKey
    <3>3. \A t \in Up' : t = s \/ (t \in Up /\ key'[t] = key[t])
      BY <1>2, <1>5
    <3>4. \A t, u \in Up : key[t] \notin doubtful' /\ key[u] \notin doubtful' => key[t] = key[u]
      BY <1>6 DEF KeyInv, OneKey
    <3>5. \A w \in Vols, t \in Up :
            keyFile[w] # None /\ keyFile[w] \notin doubtful' /\ key[t] \notin doubtful' => key[t] = keyFile[w]
      BY <1>6 DEF KeyInv, OneKey
    <3>6. \A w, x \in Vols :
            keyFile[w] # None /\ keyFile[w] \notin doubtful' /\ keyFile[x] # None /\ keyFile[x] \notin doubtful'
            => keyFile[w] = keyFile[x]
      BY <1>6 DEF KeyInv, OneKey
    <3> QED
      BY <1>1, <2>1, <3>1, <3>2, <3>3, <3>4, <3>5, <3>6 DEF OneKey
  <2>4. FreshAlone'
    <3> SUFFICES ASSUME NEW t \in Up, Fresh(t), key[t] \notin doubtful'
                 PROVE  /\ \A u \in Up' : u = t \/ key'[u] \in doubtful'
                        /\ \A w \in Vols : keyFile[w] # None /\ keyFile[w] = key[t] => w = Volume(t)
      BY <1>1, <1>2, <1>5, <2>1 DEF FreshAlone
    <3>1. /\ \A u \in Up : u = t \/ key[u] \in doubtful
          /\ \A w \in Vols : keyFile[w] # None /\ keyFile[w] = key[t] => w = Volume(t)
      BY <1>6 DEF KeyInv, FreshAlone
    <3>2. key'[s] \in doubtful'
      <4> SUFFICES ASSUME k \notin doubtful' PROVE FALSE
        BY <2>1
      <4>1. key[t] = k
        BY <1>1, <1>6, <2>1, <2>k DEF KeyInv, OneKey
      <4> QED
        BY <2>2, <4>1
    <3>3. \A u \in Up' : u = s \/ (u \in Up /\ key'[u] = key[u])
      BY <1>2, <1>5
    <3> QED
      BY <1>6, <3>1, <3>2, <3>3
  <2>5. \A c \in sealed : c \notin doubtful' /\ k \notin doubtful' => c = k
    <3> SUFFICES ASSUME NEW c \in sealed, c \notin doubtful', k \notin doubtful', c # k PROVE FALSE
      OBVIOUS
    <3>1. PICK t \in Up : Fresh(t) /\ key[t] = k
      BY <1>1, <1>6, <2>1, <2>k DEF KeyInv, SealedByFile
    <3> QED
      BY <2>2, <3>1
  <2>6. SealedByKey'
    <3>1. \A t \in Up, c \in sealed : c \notin doubtful' /\ key[t] \notin doubtful' => Fresh(t) \/ c = key[t]
      BY <1>6 DEF KeyInv, SealedByKey
    <3> QED
      BY <1>1, <1>2, <1>5, <2>1, <2>5, <3>1 DEF SealedByKey
  <2>7. SealedByFile'
    <3>1. \A w \in Vols, c \in sealed : keyFile[w] # None /\ c \notin doubtful' /\ keyFile[w] \notin doubtful' =>
            c = keyFile[w] \/ \E t \in Up : Fresh(t) /\ key[t] = keyFile[w]
      BY <1>6 DEF KeyInv, SealedByFile
    <3>2. \A t \in Up : t \in Up' /\ (Fresh(t)' <=> Fresh(t)) /\ key'[t] = key[t]
      BY <1>2, <1>5
    <3> QED
      BY <1>1, <2>1, <3>1, <3>2 DEF SealedByFile
  <2> QED
    BY <1>1, <1>2, <1>7, <1>9, <1>d, <2>1, <2>3, <2>4, <2>6, <2>7 DEF KeyInv, GivenOnly
<1>10. CASE ~given /\ Generates(s)
  <2> DEFINE k == starts'
  <2>1. key'[s] = k /\ auto'[s] = TRUE /\ Fresh(s)'
    BY <1>1, <1>10 DEF Generates, KeyInv, Fresh, Starting
  <2>2. /\ keyFile' = [w \in Vols |-> keyFile'[w]]
        /\ keyFile'[v] \in {k, None, keyFile[v]}
        /\ \A w \in Vols \ {v} : keyFile'[w] = keyFile[w]
    BY <1>1, <1>10, <1>d DEF Generates, Stored
  <2>3. k \in doubtful' \/ (Up = {} /\ \A w \in Vols : keyFile[w] = None)
    BY <1>10, <1>d DEF Generates
  <2> HIDE DEF k
  <2>4. /\ \A t \in Up' : t = s \/ (t \in Up /\ key'[t] = key[t])
        /\ \A t \in Up : t \in Up' /\ key'[t] = key[t] /\ t # s
    BY <1>2, <1>5
  <2>n. k # None
    BY <1>3 DEF k
  <2>v. \A w \in Vols : keyFile'[w] \in {k, None, keyFile[w]} /\ (w # v => keyFile'[w] = keyFile[w])
    BY <2>2
  <2>5. CASE k \in doubtful'
    <3>1. /\ \A t \in Up' : key'[t] \notin doubtful' => t \in Up /\ key[t] \notin doubtful /\ key'[t] = key[t]
          /\ \A w \in Vols : keyFile'[w] # None /\ keyFile'[w] \notin doubtful' =>
               keyFile'[w] = keyFile[w] /\ keyFile[w] \notin doubtful
      BY <1>6, <2>1, <2>4, <2>5, <2>v
    <3> HIDE DEF v
    <3>2. OneKey'
      BY <1>1, <3>1 DEF KeyInv, OneKey
    <3>3. FreshAlone'
      <4> SUFFICES ASSUME NEW t \in Up', Fresh(t)', key'[t] \notin doubtful'
                   PROVE  /\ \A u \in Up' : u = t \/ key'[u] \in doubtful'
                          /\ \A w \in Vols : keyFile'[w] # None /\ keyFile'[w] = key'[t] => w = Volume(t)
        BY <1>1, <1>5 DEF FreshAlone, Up
      <4>1. t \in Up /\ Fresh(t) /\ key'[t] = key[t] /\ key[t] \notin doubtful
        BY <1>5, <3>1
      <4>2. /\ \A u \in Up : u = t \/ key[u] \in doubtful
            /\ \A w \in Vols : keyFile[w] # None /\ keyFile[w] = key[t] => w = Volume(t)
        BY <4>1 DEF KeyInv, FreshAlone
      <4> QED
        BY <3>1, <4>1, <4>2
    <3>4. SealedByKey'
      BY <1>1, <1>5, <1>6, <3>1 DEF KeyInv, SealedByKey
    <3>5. SealedByFile'
      <4> SUFFICES ASSUME NEW w \in Vols, NEW c \in sealed, keyFile'[w] # None,
                          c \notin doubtful', keyFile'[w] \notin doubtful', c # keyFile'[w]
                   PROVE  \E t \in Up' : Fresh(t)' /\ key'[t] = keyFile'[w]
        BY <1>1 DEF SealedByFile
      <4>1. PICK t \in Up : Fresh(t) /\ key[t] = keyFile[w]
        BY <1>6, <3>1 DEF KeyInv, SealedByFile
      <4> QED
        BY <1>5, <2>4, <3>1, <4>1
    <3> QED
      BY <1>1, <1>2, <1>7, <1>10, <2>2, <3>2, <3>3, <3>4, <3>5 DEF KeyInv, GivenOnly
  <2>6. CASE Up = {} /\ \A w \in Vols : keyFile[w] = None
    <3>1. Up' = {s}
      BY <1>5, <2>6
    <3>2. \A w \in Vols : keyFile'[w] # None => w = v /\ keyFile'[w] = k
      BY <2>6, <2>v
    <3>3. OneKey' /\ SealedByKey' /\ SealedByFile'
      BY <1>1, <2>1, <3>1, <3>2 DEF OneKey, SealedByKey, SealedByFile
    <3>4. FreshAlone'
      BY <1>1, <2>1, <3>1, <3>2 DEF FreshAlone
    <3> QED
      BY <1>1, <1>2, <1>7, <1>10, <2>2, <3>3, <3>4 DEF KeyInv, GivenOnly
  <2> QED
    BY <2>3, <2>5, <2>6
<1> QED
  BY <1>8, <1>9, <1>10 DEF Load

LEMMA KeyCheck ==
  ASSUME Types, KeyInv, NEW s \in Slot, CheckKey(s), inflight' = inflight
  PROVE  KeyInv'
<1> DEFINE v == Volume(s)
<1>1. /\ UNCHANGED <<scene, key, auto, given, sealed>> /\ Vols' = Vols
      /\ pc[s] = "check" /\ pc'[s] \in {"off", "work"} /\ s \in Up /\ v \in Vols
      /\ \A t \in Slot \ {s} : pc'[t] = pc[t]
  BY DEF CheckKey, Goes, Types, Up, Vols, Volume
<1>2. (\A t \in Slot : Volume(t)' = Volume(t)) /\ (Fresh(s) <=> auto[s]) /\ ~Fresh(s)'
  BY <1>1 DEF Volume, Fresh, Starting
<1>3. \A t \in Slot \ {s} : (t \in Up' <=> t \in Up) /\ (Fresh(t)' <=> Fresh(t))
  BY <1>1 DEF Up, Fresh
<1>i. \A t \in inflight : t \in Slot \ {s}
  BY <1>1 DEF KeyInv, Starting
<1>4. CASE Refuses(s)
  <2>1. pc'[s] = "off" /\ doubtful \subseteq doubtful'
    BY <1>4 DEF CheckKey, Goes, Types
  <2>2. \/ keyFile' = [keyFile EXCEPT ![v] = None]
        \/ keyFile' = keyFile /\ key[s] \in doubtful'
    BY <1>4 DEF CheckKey, RemoveFile
  <2>3. keyFile = [w \in Vols |-> keyFile[w]]
    BY DEF KeyInv
  <2>4. /\ keyFile' = [w \in Vols |-> keyFile'[w]]
        /\ \A w \in Vols : keyFile'[w] = keyFile[w] \/ keyFile'[w] = None
        /\ key[s] \in doubtful' \/ keyFile'[v] = None
    BY <1>1, <2>2, <2>3
  <2> QED
    BY <1>1, <1>i, <2>1, <2>4, KeyEnds
<1>5. CASE ~Refuses(s)
  <2>1. pc'[s] = "work" /\ keyFile' = keyFile /\ Up' = Up /\ doubtful' = doubtful
    BY <1>1, <1>5 DEF CheckKey, Goes, Types, Up
  <2>2. sealed = {} \/ ~Fresh(s)
    BY <1>2, <1>5 DEF Refuses
  <2>3. GivenOnly' /\ OneKey'
    BY <1>1, <2>1 DEF KeyInv, GivenOnly, OneKey
  <2>4. \A t \in Up : Fresh(t)' => Fresh(t)
    BY <1>2, <1>3 DEF Up
  <2>5. FreshAlone'
    BY <1>1, <1>2, <2>1, <2>4 DEF KeyInv, FreshAlone, Up
  <2>6. SealedByKey' /\ SealedByFile'
    <3>1. CASE sealed = {}
      BY <1>1, <3>1 DEF SealedByKey, SealedByFile
    <3>2. CASE ~Fresh(s)
      <4>1. \A t \in Up : Fresh(t)' <=> Fresh(t)
        BY <1>2, <1>3, <3>2 DEF Up
      <4> QED
        BY <1>1, <2>1, <4>1 DEF KeyInv, SealedByKey, SealedByFile
    <3> QED
      BY <2>2, <3>1, <3>2
  <2> QED
    BY <1>1, <1>i, <2>1, <2>3, <2>5, <2>6 DEF KeyInv, Starting
<1> QED
  BY <1>4, <1>5

LEMMA KeyLost == Types /\ KeyInv /\ LoseKey /\ inflight' = inflight => KeyInv'
<1> SUFFICES ASSUME Types, KeyInv, LoseKey, inflight' = inflight PROVE KeyInv'
  OBVIOUS
<1>1. /\ UNCHANGED <<scene, pc, key, auto, sealed, doubtful>> /\ ~given' /\ Up' = Up /\ Vols' = Vols
      /\ keyFile' = [v \in Vols |-> None]
  BY DEF LoseKey, KeyInv, Up, Vols, Volume
<1>2. \A t \in Slot : (Fresh(t)' <=> Fresh(t)) /\ Volume(t)' = Volume(t)
  BY <1>1 DEF Fresh, Volume
<1>3. GivenOnly' /\ OneKey' /\ SealedByFile'
  BY <1>1 DEF KeyInv, GivenOnly, OneKey, SealedByFile
<1>4. FreshAlone' /\ SealedByKey'
  BY <1>1, <1>2 DEF KeyInv, FreshAlone, SealedByKey, Up
<1> QED
  BY <1>1, <1>3, <1>4 DEF KeyInv

LEMMA KeyAnswer ==
  ASSUME Types, KeyInv, NEW s \in Slot, Answer(s)
  PROVE  KeyInv'
<1>1. /\ UNCHANGED <<scene, pc, key, auto, keyFile, given, doubtful>> /\ Up' = Up /\ Vols' = Vols
      /\ sealed' \subseteq sealed \cup {key[s]} /\ inflight' \subseteq inflight /\ s \in Up /\ ~Fresh(s)
  BY DEF Answer, KeyInv, Up, Vols, Volume, Fresh
<1>2. \A t \in Slot : (Fresh(t)' <=> Fresh(t)) /\ Volume(t)' = Volume(t)
  BY <1>1 DEF Fresh, Volume
<1>3. GivenOnly' /\ OneKey'
  BY <1>1 DEF KeyInv, GivenOnly, OneKey
<1>4. FreshAlone'
  BY <1>1, <1>2 DEF KeyInv, FreshAlone, Up
<1>5. SealedByKey'
  <2>1. \A t \in Up : key[s] \notin doubtful /\ key[t] \notin doubtful => key[s] = key[t]
    BY <1>1 DEF KeyInv, OneKey
  <2> QED
    BY <1>1, <1>2, <2>1 DEF KeyInv, SealedByKey, Up
<1>6. SealedByFile'
  <2>1. \A v \in Vols : keyFile[v] # None /\ keyFile[v] \notin doubtful /\ key[s] \notin doubtful => key[s] = keyFile[v]
    BY <1>1 DEF KeyInv, OneKey
  <2> QED
    BY <1>1, <1>2, <2>1 DEF KeyInv, SealedByFile, Up
<1> QED
  BY <1>1, <1>3, <1>4, <1>5, <1>6 DEF KeyInv

LEMMA KeyStep == Types /\ KeyInv /\ [Next]_vars => KeyInv'
<1> SUFFICES ASSUME Types, KeyInv, [Next]_vars PROVE KeyInv'
  OBVIOUS
<1> USE DEF Goes, Main, startVars, startRest, beatVars, httpVars
<1>1. CASE UNCHANGED <<scene, pc, key, auto, keyFile, given, sealed, doubtful>> /\ inflight' \subseteq inflight
  BY <1>1 DEF KeyInv, GivenOnly, OneKey, FreshAlone, SealedByKey, SealedByFile, Up, Vols,
               Volume, Fresh
<1>2. CASE LoseKey /\ UNCHANGED <<beatVars, httpVars>>
  BY <1>2, KeyLost
<1>3. ASSUME NEW s \in Slot, StartStep(s), UNCHANGED <<beatVars, httpVars>> PROVE KeyInv'
  <2>1. CASE AcquireLock(s) \/ NextFile(s) \/ Record(s)
    <3>1. /\ UNCHANGED <<scene, keyVars, doubtful>> /\ \A t \in Slot : t = s \/ pc'[t] = pc[t]
          /\ pc[s] \in Starting /\ pc'[s] \in Starting
      BY <2>1 DEF AcquireLock, NextFile, Record, Starting, Types
    <3> QED
      BY <1>3, <3>1, KeyMoves DEF Starting
  <2>2. CASE ExecStmt(s)
    <3>1. UNCHANGED <<scene, keyVars>> /\ \A t \in Slot : t = s \/ pc'[t] = pc[t]
      BY <2>2 DEF ExecStmt, Closes, Types
    <3>2. CASE Closes(s)
      <4>1. pc[s] \in Starting /\ s \in Up
        BY <2>2 DEF ExecStmt, Starting, Up
      <4>2. inflight' \subseteq inflight \ {s}
        BY <1>3, <4>1 DEF KeyInv
      <4> QED
        BY <3>1, <3>2, <4>1, <4>2, KeyCloses DEF keyVars
    <3>3. CASE doubtful' = doubtful /\ pc[s] \in Starting /\ pc'[s] \in Starting
      BY <1>3, <3>1, <3>3, KeyMoves DEF Starting
    <3> QED
      BY <2>2, <3>2, <3>3 DEF ExecStmt, AfterStmt, Starting, Types
  <2> QED
    BY <1>3, <2>1, <2>2, KeyLoad, KeyCheck DEF StartStep
<1>4. ASSUME NEW s \in Slot, StartWork(s) \/ Listen(s) \/ Signal(s) \/ Defers(s) PROVE KeyInv'
  <2>1. /\ UNCHANGED <<scene, keyVars, doubtful, inflight>> /\ \A t \in Slot : t = s \/ pc'[t] = pc[t]
        /\ pc[s] # "off" /\ pc'[s] # "off" /\ pc[s] \notin Starting /\ pc'[s] \notin Starting
    BY <1>4 DEF StartWork, Listen, Signal, Defers, Starting, Types
  <2> QED
    BY <2>1, KeyMoves
<1>5. ASSUME NEW s \in Slot, Return(s) \/ FailsToListen(s) \/ Killed(s) PROVE KeyInv'
  <2>1. Exits(s)
    BY <1>5 DEF Return, FailsToListen, Killed
  <2>2. /\ UNCHANGED <<scene, key, auto, keyFile, given, sealed>> /\ Closes(s)
        /\ inflight' \subseteq inflight \ {s} /\ s \in Up
    BY <1>5, <2>1 DEF Exits, Gone, keyVars, Return, FailsToListen, Killed, Up
  <2> QED
    BY <2>2, KeyCloses
<1>6. ASSUME NEW s \in Slot, Request(s) PROVE KeyInv'
  <2>1. /\ UNCHANGED <<scene, pc, key, auto, keyFile, given, sealed, doubtful>>
        /\ inflight' = inflight \cup {s} /\ pc[s] = "serve"
    BY <1>6 DEF Request, keyVars
  <2>2. /\ Up' = Up /\ Vols' = Vols
        /\ \A t \in Slot : (Fresh(t)' <=> Fresh(t)) /\ Volume(t)' = Volume(t)
    BY <2>1 DEF Up, Vols, Volume, Fresh
  <2>3. GivenOnly' /\ OneKey' /\ SealedByKey'
    BY <2>1, <2>2 DEF KeyInv, GivenOnly, OneKey, SealedByKey, Up
  <2>4. FreshAlone' /\ SealedByFile'
    BY <2>1, <2>2 DEF KeyInv, FreshAlone, SealedByFile, Up
  <2> QED
    BY <2>1, <2>2, <2>3, <2>4 DEF KeyInv, Starting
<1>7. Pass => UNCHANGED <<scene, pc, key, auto, keyFile, given, sealed, doubtful>> /\ inflight' \subseteq inflight
  BY DEF Pass, keyVars
<1>8. \A s \in Slot : Beat(s) =>
        UNCHANGED <<scene, pc, key, auto, keyFile, given, sealed, doubtful>> /\ inflight' \subseteq inflight
  BY DEF Beat, Purges, keyVars
<1>9. UNCHANGED vars =>
        UNCHANGED <<scene, pc, key, auto, keyFile, given, sealed, doubtful>> /\ inflight' \subseteq inflight
  BY DEF vars, keyVars
<1> QED
  BY <1>1, <1>2, <1>3, <1>4, <1>5, <1>6, <1>7, <1>8, <1>9, KeyAnswer DEF Next

\* What one replica has encrypted, every replica that serves can decrypt, unless
\* one of the two keys is doubtful, for any number of containers, volumes,
\* starts, losses of the key and errors of disks.
THEOREM EveryKeyReads == Spec => []KeyReads
<1>1. Init => Types /\ KeyInv
  <2>1. Init => KeyInv
    BY DEF Init, KeyInv, GivenOnly, OneKey, FreshAlone, SealedByKey, SealedByFile, Vols, Volume, Up
  <2> QED
    BY <2>1, TypesInit
<1>2. (Types /\ KeyInv) /\ [Next]_vars => (Types /\ KeyInv)'
  BY TypesStep, KeyStep
<1>3. KeyInv => KeyReads
  BY DEF KeyInv, SealedByKey, KeyReads, Up, Fresh, Starting
<1> QED
  BY <1>1, <1>2, <1>3, PTL DEF Spec
-----------------------------------------------------------------------------
(* The purge.  An instance has one slot, and its row is not older than the   *)
(* difference of the clocks and one interval: the clocks do not go on until  *)
(* every heartbeat has had its tick.                                        *)

Row == [addr : {scene.addr[s] : s \in Slot}, age : Nat]
Beats(s) == Beating(s) /\ inst[s] \notin faint /\ Shown(inst[s])

InstInv ==
  /\ scene \in Scenes /\ starts <= scene.starts
  /\ \A s \in Slot : pc[s] # "off" => inst[s] \in Instance /\ inst[s] <= starts
  /\ \A s, t \in Slot : pc[s] # "off" /\ pc[t] # "off" /\ inst[s] = inst[t] => s = t
  /\ \A i \in unclean : i \in Nat /\ i <= starts
  /\ \A s \in Slot : pc[s] \in Starting \cup {"work"} => inst[s] \notin unclean

AgeInv ==
  /\ since \in [Slot -> 0 .. 1]
  /\ \A i \in Instance : Shown(i) => rows[i] \in Row
  /\ \A s \in Slot : Beats(s) => rows[inst[s]].age <= scene.lag[s] + since[s]

LEMMA InstStep == Types /\ RowInv /\ InstInv /\ [Next]_vars => InstInv'
<1> SUFFICES ASSUME Types, RowInv, InstInv, [Next]_vars PROVE InstInv'
  OBVIOUS
<1> USE DEF Goes, Main, startVars, startRest, beatVars, httpVars
<1>1. CASE UNCHANGED <<scene, starts, inst, pc, unclean>>
  BY <1>1 DEF InstInv
<1>2. ASSUME NEW s \in Slot, Load(s), unclean' = unclean PROVE InstInv'
  <2>1. /\ scene' = scene /\ starts' = starts + 1 /\ starts \in Nat /\ starts' \in Instance
        /\ starts' <= scene.starts
    BY <1>2, StartupAssumption DEF Load, Types, InstInv, Instance
  <2>2. /\ inst'[s] = starts' /\ \A t \in Slot \ {s} : pc'[t] = pc[t] /\ inst'[t] = inst[t]
    BY <1>2 DEF Load, Types
  <2>3. \A t \in Slot : inst[t] \in Nat
    BY DEF Types
  <2>4. \A t \in Slot \ {s} : pc'[t] # "off" => inst'[t] # inst'[s] /\ inst'[t] <= starts'
    BY <2>1, <2>2, <2>3 DEF InstInv
  <2>5. starts' \notin unclean /\ \A i \in unclean : i \in Nat /\ i <= starts'
    BY <2>1 DEF InstInv
  <2> QED
    BY <1>2, <2>1, <2>2, <2>4, <2>5 DEF InstInv
<1>3. ASSUME NEW s \in Slot, UNCHANGED <<scene, starts, inst>>,
             \A t \in Slot : t = s \/ pc'[t] = pc[t],
             pc[s] # "off",
             pc'[s] \in Starting \cup {"work"} => pc[s] \in Starting \cup {"work"} /\ unclean' = unclean,
             unclean' \subseteq unclean \cup {inst[s]}
      PROVE  InstInv'
  <2>1. inst[s] \in Nat /\ inst[s] <= starts
    BY <1>3 DEF InstInv, Types
  <2>2. \A t \in Slot : pc'[t] # "off" => pc[t] # "off"
    BY <1>3
  <2>3. \A t \in Slot \ {s} : pc[t] \in Starting \cup {"work"} => inst[t] # inst[s]
    BY <1>3 DEF InstInv, Starting
  <2> QED
    BY <1>3, <2>1, <2>2, <2>3 DEF InstInv
<1>4. ASSUME NEW s \in Slot, StartStep(s), unclean' = unclean PROVE InstInv'
  <2>1. CASE AcquireLock(s) \/ NextFile(s) \/ ExecStmt(s) \/ Record(s) \/ CheckKey(s)
    <3>1. /\ UNCHANGED <<scene, starts, inst>> /\ pc[s] \in Starting
          /\ \A t \in Slot : t = s \/ pc'[t] = pc[t]
      BY <2>1 DEF AcquireLock, NextFile, ExecStmt, Record, CheckKey, Closes, Starting, Types
    <3> QED
      BY <1>3, <1>4, <3>1 DEF Starting
  <2> QED
    BY <1>2, <1>4, <2>1 DEF StartStep
<1>5. ASSUME NEW s \in Slot, StartWork(s) \/ Listen(s) \/ Signal(s) \/ Defers(s) PROVE InstInv'
  <2>1. /\ UNCHANGED <<scene, starts, inst, unclean>> /\ pc[s] # "off"
        /\ \A t \in Slot : t = s \/ pc'[t] = pc[t]
        /\ pc'[s] \notin Starting \cup {"work"}
    BY <1>5 DEF StartWork, Listen, Signal, Defers, Starting, Types
  <2> QED
    BY <1>3, <2>1
<1>6. ASSUME NEW s \in Slot, Return(s) \/ FailsToListen(s) \/ Killed(s) PROVE InstInv'
  <2>1. /\ UNCHANGED <<scene, starts, inst>> /\ pc[s] # "off" /\ pc'[s] = "off"
        /\ \A t \in Slot : t = s \/ pc'[t] = pc[t]
        /\ unclean' \subseteq unclean \cup {inst[s]}
    BY <1>6 DEF Return, FailsToListen, Killed, Exits, Gone, Closes, Types
  <2> QED
    BY <1>3, <2>1 DEF Starting
<1>7. ASSUME NEW s \in Slot, Beat(s) PROVE InstInv'
  <2>1. /\ UNCHANGED <<scene, starts, inst, pc>> /\ Beating(s)
        /\ unclean' \subseteq unclean \cup {inst[s]}
    BY <1>7 DEF Beat, Purges, Beating
  <2>2. pc[s] \in {"bind", "serve", "drain", "failed"}
    BY <1>7, <2>1 DEF RowInv
  <2> QED
    BY <1>3, <2>1, <2>2 DEF Starting
<1>8. Pass \/ LoseKey \/ UNCHANGED vars => UNCHANGED <<scene, starts, inst, pc>>
  BY DEF Pass, LoseKey, vars
<1>9. /\ (Pass \/ UNCHANGED vars \/ UNCHANGED <<beatVars, httpVars>>) => unclean' = unclean
      /\ \A s \in Slot : Request(s) \/ Answer(s) => UNCHANGED <<scene, starts, inst, pc, unclean>>
  BY DEF Pass, vars, Request, Answer
<1> QED
  BY <1>1, <1>4, <1>5, <1>6, <1>7, <1>8, <1>9 DEF Next

\* What the steps of one slot do to the rows of the others: they take some away.
LEMMA RowsOfOthers ==
  ASSUME Types, NEW s \in Slot, Beat(s) \/ StartWork(s) \/ FailsToListen(s),
         NEW i \in Instance \ {inst[s]}
  PROVE  rows'[i] \in {rows[i], None}
<1>t. rows = [j \in Instance |-> rows[j]]
  BY DEF Types
<1>1. CASE Beat(s)
  BY <1>1, <1>t DEF Beat, Purges, Upsert, PurgeStale, Remove
<1>2. CASE StartWork(s) \/ FailsToListen(s)
  BY <1>2, <1>t DEF StartWork, FailsToListen, PurgeSameAddr, Remove
<1> QED
  BY <1>1, <1>2
\* A step that changes rows of one instance only, and takes others away.
LEMMA AgeOfOne ==
  ASSUME Types, RowInv, InstInv, AgeInv, scene' = scene, inst' = inst,
         NEW s \in Slot, Beating(s) \/ pc[s] # "off",
         \A t \in Slot \ {s} : beat'[t] = beat[t] /\ since'[t] = since[t],
         since' \in [Slot -> 0 .. 1], faint \subseteq faint',
         \A i \in Instance \ {inst[s]} : rows'[i] \in {rows[i], None},
         Shown(inst[s])' => rows'[inst[s]] \in Row,
         Beats(s)' => rows'[inst[s]].age <= scene.lag[s] + since'[s]
  PROVE  AgeInv'
<1>1. Row' = Row
  BY DEF Row
<1>2. \A i \in Instance : Shown(i)' => rows'[i] \in Row
  BY DEF AgeInv, Shown
<1>3. ASSUME NEW t \in Slot \ {s}, Beats(t)'
      PROVE  rows'[inst[t]].age <= scene.lag[t] + since'[t]
  <2>1. Beating(t) /\ pc[t] # "off" /\ pc[s] # "off"
    BY <1>3 DEF Beats, Beating, RowInv
  <2>2. inst[t] \in Instance \ {inst[s]}
    BY <2>1 DEF InstInv
  <2>3. rows'[inst[t]] = rows[inst[t]] /\ Beats(t)
    BY <1>3, <2>1, <2>2 DEF Beats, Shown
  <2> QED
    BY <2>3 DEF AgeInv
<1> QED
  BY <1>1, <1>2, <1>3 DEF AgeInv

LEMMA AgeStep == Types /\ RowInv /\ InstInv /\ AgeInv /\ [Next]_vars => AgeInv'
<1> SUFFICES ASSUME Types, RowInv, InstInv, AgeInv, [Next]_vars PROVE AgeInv'
  OBVIOUS
<1> USE DEF Goes, Main, startVars, startRest, beatVars, httpVars
<1>t. /\ beat \in [Slot -> {"none", "tick", "purge", "sleep"}] /\ since \in [Slot -> 0 .. 1]
      /\ rows = [i \in Instance |-> rows[i]]
  BY DEF Types, AgeInv
<1>l. \A s \in Slot : scene.lag[s] \in Nat
  BY LifecycleAssumption DEF InstInv
<1>1. CASE UNCHANGED <<scene, rows, beat, since, faint, inst>>
  BY <1>1 DEF AgeInv, Beats, Beating, Shown, Row
<1>2. CASE Pass
  <2>1. UNCHANGED <<scene, beat, faint, inst>> /\ since' \in [Slot -> 0 .. 1] /\ Row' = Row
    BY <1>2 DEF Pass, Row
  <2>2. \A i \in Instance : Shown(i)' => /\ Shown(i) /\ rows'[i] \in Row
                                        /\ rows'[i].age <= rows[i].age + 1
    <3>1. ASSUME NEW i \in Instance, Shown(i)' PROVE Shown(i) /\ rows'[i] = Older(rows[i])
      BY <1>2, <3>1 DEF Pass, Older, Shown
    <3>2. ASSUME NEW r \in Row, r # None PROVE Older(r) \in Row /\ Older(r).age <= r.age + 1
      BY <3>2 DEF Older, Row
    <3> QED
      BY <3>1, <3>2 DEF AgeInv, Shown
  <2>3. ASSUME NEW s \in Slot, Beats(s)' PROVE rows'[inst[s]].age <= scene.lag[s] + since'[s]
    <3>1. Beating(s) /\ since[s] = 0 /\ since'[s] = 1 /\ inst[s] \in Instance
      BY <1>2, <2>1, <2>3 DEF Pass, Beats, Beating, RowInv, InstInv
    <3>2. Beats(s) /\ rows[inst[s]].age <= scene.lag[s] /\ rows[inst[s]] \in Row
      BY <1>l, <2>1, <2>2, <2>3, <3>1 DEF Beats, AgeInv
    <3>3. rows'[inst[s]] \in Row /\ rows'[inst[s]].age <= rows[inst[s]].age + 1
      BY <2>1, <2>2, <2>3, <3>1 DEF Beats, Shown
    <3> QED
      BY <1>l, <3>1, <3>2, <3>3 DEF Row
  <2> QED
    BY <2>1, <2>2, <2>3 DEF AgeInv
<1>3. ASSUME NEW s \in Slot, Load(s), UNCHANGED <<beatVars, httpVars>> PROVE AgeInv'
  <2>1. ~Beating(s)
    BY <1>3 DEF Load, RowInv
  <2>2. scene' = scene /\ Row' = Row /\ \A t \in Slot \ {s} : inst'[t] = inst[t]
    BY <1>3 DEF Load, Types, Row
  <2> QED
    BY <1>3, <2>1, <2>2 DEF AgeInv, Beats, Beating, Shown
<1>4. ASSUME NEW s \in Slot, Beat(s) PROVE AgeInv'
  <2>1. /\ scene' = scene /\ inst' = inst /\ Beating(s) /\ faint \subseteq faint'
        /\ \A i \in Instance \ {inst[s]} : rows'[i] \in {rows[i], None}
    BY <1>4, RowsOfOthers DEF Beat, Purges, Beating
  <2>2. /\ \A t \in Slot \ {s} : beat'[t] = beat[t] /\ since'[t] = since[t]
        /\ since' \in [Slot -> 0 .. 1]
    BY <1>4, <1>t DEF Beat, Purges
  <2>3. inst[s] \in Instance
    BY <2>1 DEF RowInv, InstInv
  <2>4. CASE rows' = Upsert(s) /\ since'[s] = 0
    <3>1. rows'[inst[s]] = [addr |-> scene.addr[s], age |-> scene.lag[s]]
      BY <1>t, <2>3, <2>4 DEF Upsert, Addr
    <3>2. rows'[inst[s]] \in Row /\ rows'[inst[s]].age <= scene.lag[s] + since'[s]
      BY <1>l, <2>4, <3>1 DEF Row
    <3> QED
      BY <2>1, <2>2, <3>2, AgeOfOne
  <2>5. CASE rows'[inst[s]] \in {rows[inst[s]], None} /\ (beat'[s] = "none" \/ since'[s] = since[s] \/ inst[s] \in faint')
    <3>1. Shown(inst[s])' => rows'[inst[s]] = rows[inst[s]] /\ Shown(inst[s])
      BY <2>1, <2>5 DEF Shown
    <3>2. Beats(s)' => Beats(s) /\ since'[s] = since[s]
      BY <2>1, <2>5, <3>1 DEF Beats, Beating
    <3>3. Shown(inst[s])' => rows'[inst[s]] \in Row
      BY <2>3, <3>1 DEF AgeInv
    <3>4. Beats(s)' => rows'[inst[s]].age <= scene.lag[s] + since'[s]
      BY <2>1, <3>1, <3>2 DEF Beats, AgeInv
    <3> QED
      BY <2>1, <2>2, <3>3, <3>4, AgeOfOne
  <2>6. \/ rows' = Upsert(s) /\ since'[s] = 0
        \/ rows' = rows /\ inst[s] \in faint'
        \/ rows' = PurgeStale(s) /\ since' = since
        \/ rows' = rows /\ since' = since
        \/ rows' \in {Remove(s), rows} /\ beat'[s] = "none"
    BY <1>4, <1>t DEF Beat, Purges
  <2>7. PurgeStale(s)[inst[s]] \in {rows[inst[s]], None} /\ Remove(s)[inst[s]] = None
    BY <1>t, <2>3 DEF PurgeStale, Remove
  <2> QED
    BY <2>4, <2>5, <2>6, <2>7
<1>5. ASSUME NEW s \in Slot, StartWork(s) PROVE AgeInv'
  <2>1. /\ scene' = scene /\ inst' = inst /\ pc[s] = "work" /\ faint' = faint
        /\ \A i \in Instance \ {inst[s]} : rows'[i] \in {rows[i], None}
    BY <1>5, RowsOfOthers DEF StartWork
  <2>2. /\ \A t \in Slot \ {s} : beat'[t] = beat[t] /\ since'[t] = since[t]
        /\ since' \in [Slot -> 0 .. 1]
    BY <1>5, <1>t DEF StartWork
  <2>3. inst[s] \in Instance /\ ~Shown(inst[s])
    <3>1. inst[s] \in Instance /\ inst[s] \notin unclean /\ ~Beating(s)
      BY <2>1 DEF InstInv, RowInv
    <3>2. \A t \in Slot : Beating(t) => inst[t] # inst[s]
      BY <2>1, <3>1 DEF InstInv, RowInv
    <3> QED
      BY <3>1, <3>2 DEF RowInv
  <2>4. ~Shown(inst[s])'
    BY <1>5, <1>t, <2>1, <2>3 DEF StartWork, PurgeSameAddr, Shown
  <2> QED
    BY <2>1, <2>2, <2>4, AgeOfOne DEF Beats
<1>6. ASSUME NEW s \in Slot, Return(s) \/ FailsToListen(s) \/ Killed(s) PROVE AgeInv'
  <2>1. /\ scene' = scene /\ inst' = inst /\ pc[s] # "off" /\ faint' = faint /\ beat'[s] = "none"
        /\ \A t \in Slot \ {s} : beat'[t] = beat[t] /\ since'[t] = since[t]
        /\ since' \in [Slot -> 0 .. 1]
    BY <1>6, <1>t DEF Return, FailsToListen, Killed, Exits, Gone, Closes
  <2>2. \A i \in Instance : rows'[i] \in {rows[i], None}
    BY <1>6, <1>t DEF Return, FailsToListen, Killed, Remove
  <2>3. Shown(inst[s])' => rows'[inst[s]] \in Row
    BY <2>1, <2>2 DEF Shown, InstInv, AgeInv
  <2>4. ~Beats(s)'
    BY <2>1 DEF Beats, Beating
  <2> QED
    BY <2>1, <2>2, <2>3, <2>4, AgeOfOne
<1>7. ASSUME NEW s \in Slot, AcquireLock(s) \/ NextFile(s) \/ ExecStmt(s) \/ Record(s) \/ CheckKey(s)
      PROVE  UNCHANGED <<scene, inst>>
  BY <1>7 DEF AcquireLock, NextFile, ExecStmt, Record, CheckKey
<1>8. ASSUME NEW s \in Slot,
             Listen(s) \/ Signal(s) \/ Defers(s) \/ Request(s) \/ Answer(s)
      PROVE  UNCHANGED <<scene, rows, beat, since, faint, inst>>
  BY <1>8 DEF Listen, Signal, Defers, Request, Answer
<1>9. (UNCHANGED vars \/ LoseKey => UNCHANGED <<scene, inst>>) /\ (UNCHANGED vars => UNCHANGED <<rows, beat, since, faint>>)
  BY DEF vars, LoseKey
<1> QED
  BY <1>1, <1>2, <1>3, <1>4, <1>5, <1>6, <1>7, <1>8, <1>9 DEF Next, StartStep
LEMMA PurgeStep ==
  ASSUME Types, RowInv, InstInv, AgeInv, [Next]_vars,
         NEW s \in Slot, beat[s] = "purge", beat'[s] = "sleep",
         NEW t \in Slot, Beats(t)
  PROVE  rows'[inst[t]] # None
<1> USE DEF startVars, startRest, beatVars, httpVars
<1>t. beat \in [Slot -> {"none", "tick", "purge", "sleep"}] /\ rows = [i \in Instance |-> rows[i]]
  BY DEF Types
<1>1. beat' # beat
  OBVIOUS
<1>2. \A u \in Slot : ~Return(u) /\ ~FailsToListen(u) /\ ~Killed(u) /\ ~StartWork(u)
  BY <1>t DEF Return, FailsToListen, Killed, Exits, StartWork
<1>3. \A u \in Slot : Beat(u) => u = s
  BY <1>t DEF Beat, Purges
<1>4. Beat(s)
  BY <1>1, <1>2, <1>3 DEF Next, vars, Pass, Listen, Signal, Defers, Request, Answer
<1>5. rows' = PurgeStale(s) \/ rows' = rows
  BY <1>4 DEF Beat, Purges
<1>6. inst[t] \in Instance /\ rows[inst[t]] \in Row /\ Shown(inst[t])
  BY DEF Beats, RowInv, InstInv, AgeInv
<1>7. rows[inst[t]].age <= scene.lag[t] + since[t] /\ since[t] \in 0 .. 1
  BY DEF AgeInv
<1>8. ~(rows[inst[t]].age >= Window)
  <2>1. scene.lag[t] \in 0 .. Window - 2 /\ rows[inst[t]].age \in Nat /\ Window \in Nat
    BY <1>6, LifecycleAssumption DEF InstInv, Row
  <2> QED
    BY <1>7, <2>1
<1>9. rows'[inst[t]] = rows[inst[t]]
  BY <1>5, <1>6, <1>8 DEF PurgeStale, Stale
<1> QED
  BY <1>6, <1>9 DEF Shown

\* PurgeStale removes no replica that is alive and reaches the database, as
\* long as the clocks are closer than the window less two intervals.
THEOREM TheLivingStay == Spec => PurgesTheDead
<1>1. Init => Types /\ RowInv /\ InstInv /\ AgeInv
  <2>1. Init => RowInv /\ InstInv /\ AgeInv
    <3>1. Init => RowInv
      BY DEF Init, RowInv, Shown, Beating
    <3>2. Init => InstInv
      BY StartupAssumption DEF Init, InstInv, Starting
    <3>3. Init => AgeInv
      BY DEF Init, AgeInv, Beats, Beating, Shown
    <3> QED
      BY <3>1, <3>2, <3>3
  <2> QED
    BY <2>1, TypesInit
<1>2. (Types /\ RowInv /\ InstInv /\ AgeInv) /\ [Next]_vars => (Types /\ RowInv /\ InstInv /\ AgeInv)'
  BY TypesStep, RowStep, InstStep, AgeStep
<1>3. Types /\ RowInv /\ InstInv /\ AgeInv /\ [Next]_vars =>
        [\A s \in Slot : beat[s] = "purge" /\ beat'[s] = "sleep" =>
           \A t \in Slot : Beating(t) /\ inst[t] \notin faint /\ Shown(inst[t]) => rows'[inst[t]] # None]_vars
  BY PurgeStep DEF Beats
<1> QED
  BY <1>1, <1>2, <1>3, PTL DEF Spec, PurgesTheDead
=============================================================================
