------------------------------ MODULE Startup ------------------------------
(***************************************************************************)
(* How a replica starts (cmd/server/main.go): the configuration with the   *)
(* encryption key, the migrations of the schema under a lock of the         *)
(* database, the check of the key against the rows there are, the workers.   *)
(* A process can die at every step: log.Fatal, a kill, a lost connection.    *)
(* Each start is an instance of its own.                                     *)
(***************************************************************************)
EXTENDS Naturals, FiniteSets

CONSTANTS
  Slot,        \* where a process can run, one at a time: a container
  Scenes,      \* the deployments: host:port and volume of each slot, the
               \* migrations recorded, whether ENCRYPT_KEY is configured,
               \* whether disks fail
  Files,       \* migration files 1 .. Files
  Stmts,       \* statements of each
  None,        \* no key, no holder of the lock
  GivenKey,    \* the key that ENCRYPT_KEY configures
  MaxStarts    \* bound; those of a scene are slots and starts

ASSUME StartupAssumption ==
  /\ {Files, MaxStarts} \subseteq Nat /\ Stmts \in [1 .. Files -> Nat \ {0}]
  /\ None \notin Slot /\ GivenKey \notin 1 .. MaxStarts /\ None \notin 1 .. MaxStarts
  /\ \A c \in Scenes : c.starts \in 0 .. MaxStarts

VARIABLES
  scene,
  pc,          \* where each slot's process is
  inst,        \* its instance: the number of the start
  key, auto,   \* its key, and whether it has generated it
  file, stmt,  \* the migration file and statement it is at
  starts,
  lock,        \* the slot whose connection holds notice_migrate
  applied, recorded,   \* statements that took effect; schema_migrations
  keyFile, given,      \* the key file of each volume; ENCRYPT_KEY is set
  sealed,      \* keys with which the channels in the table are encrypted
  halfway,     \* history: files inside which a process has died
  twice,       \* history: files that failed on a statement applied before
  doubtful     \* history: generated keys that no check has cleared, see KeyReads

migrationVars == <<file, stmt, lock, applied, recorded, halfway, twice>>
keyVars == <<key, auto, keyFile, given, sealed>>
startVars == <<scene, pc, inst, starts, migrationVars, keyVars, doubtful>>

Volume(s) == scene.volume[s]
Addr(s)   == scene.addr[s]
Up        == {s \in Slot : pc[s] # "off"}

\* The steps of main between the configuration and the check of the key.
Starting == {"open", "migrate", "exec", "record", "check"}

Goes(s, to) == pc' = [pc EXCEPT ![s] = to]

-----------------------------------------------------------------------------
(* config.Load: ENCRYPT_KEY, or the key file, or a new key, written at once. *)

\* A process with a new key that it has not checked yet.
Fresh(s) == pc[s] \in Starting /\ auto[s]

\* What can be in a key file after it is written, or removed (None): the error
\* is ignored, and a file that is cut short holds no key.
Stored(v, k) ==
  {[keyFile EXCEPT ![v] = x] : x \in {k} \cup (IF scene.disk THEN {None, keyFile[v]} ELSE {})}

\* History: the key comes from a file whose writer has yet to check it.
TakesFile(s) ==
  LET k == keyFile[Volume(s)] IN
  /\ k # None /\ key' = [key EXCEPT ![s] = k] /\ auto' = [auto EXCEPT ![s] = FALSE]
  /\ doubtful' = IF \E t \in Slot : Fresh(t) /\ key[t] = k THEN doubtful \cup {k} ELSE doubtful
  /\ UNCHANGED keyFile

\* A file that cannot be read is as good as none.  History: the new key comes
\* beside other processes or other key files.
Generates(s) ==
  /\ keyFile[Volume(s)] = None \/ scene.disk
  /\ key' = [key EXCEPT ![s] = starts'] /\ auto' = [auto EXCEPT ![s] = TRUE]
  /\ keyFile' \in Stored(Volume(s), starts')
  /\ doubtful' = IF Up # {} \/ \E w \in DOMAIN keyFile : keyFile[w] # None
                 THEN doubtful \cup {starts'} ELSE doubtful

Load(s) ==
  /\ pc[s] = "off" /\ s \in scene.slots /\ starts < scene.starts
  /\ starts' = starts + 1 /\ inst' = [inst EXCEPT ![s] = starts']
  /\ \/ /\ given /\ key' = [key EXCEPT ![s] = GivenKey] /\ auto' = [auto EXCEPT ![s] = FALSE]
        /\ UNCHANGED <<keyFile, doubtful>>
     \/ ~given /\ (TakesFile(s) \/ Generates(s))
  /\ Goes(s, "open")
  /\ UNCHANGED <<scene, given, sealed, migrationVars>>

\* The operator takes the key away: the variable, and the files.
LoseKey ==
  /\ given \/ \E v \in DOMAIN keyFile : keyFile[v] # None
  /\ given' = FALSE /\ keyFile' = [v \in DOMAIN keyFile |-> None]
  /\ UNCHANGED <<scene, pc, inst, starts, migrationVars, key, auto, sealed, doubtful>>

-----------------------------------------------------------------------------
(* Migrate: file after file on the one connection that holds the lock.      *)

\* GET_LOCK answers 1.  (A wait that times out ends the process.)
LockFree_Unasked == TRUE
LockFree == lock = None

AcquireLock(s) ==
  /\ pc[s] = "open" /\ LockFree
  /\ lock' = s /\ file' = [file EXCEPT ![s] = 1] /\ Goes(s, "migrate")
  /\ UNCHANGED <<scene, inst, starts, stmt, applied, recorded, halfway, twice, keyVars, doubtful>>

\* The next file: done already, to be executed, or there is none.
NextFile(s) ==
  /\ pc[s] = "migrate"
  /\ \/ /\ file[s] > Files /\ lock' = (IF lock = s THEN None ELSE lock) /\ Goes(s, "check")
        /\ UNCHANGED <<file, stmt>>
     \/ /\ file[s] \in recorded /\ file' = [file EXCEPT ![s] = @ + 1]
        /\ UNCHANGED <<pc, stmt, lock>>
     \/ /\ file[s] \in (1 .. Files) \ recorded /\ stmt' = [stmt EXCEPT ![s] = 1] /\ Goes(s, "exec")
        /\ UNCHANGED <<file, lock>>
  /\ UNCHANGED <<scene, inst, starts, applied, recorded, halfway, twice, keyVars, doubtful>>

Applied(f) == \A k \in 1 .. Stmts[f] : <<f, k>> \in applied

\* A process ends: its connections close, and with them the lock.  History: it
\* may leave a key behind that it has not checked; it dies inside a file.
Closes(s) ==
  /\ Goes(s, "off") /\ lock' = IF lock = s THEN None ELSE lock
  /\ doubtful' = IF Fresh(s) THEN doubtful \cup {key[s]} ELSE doubtful

Gone(s) ==
  /\ Closes(s)
  /\ halfway' = IF pc[s] \in {"exec", "record"} THEN halfway \cup {file[s]} ELSE halfway

\* All statements of a file, then the record of it.
AfterStmt_FirstOnly(f, k) == "record"
AfterStmt(f, k) == IF k = Stmts[f] THEN "record" ELSE "exec"

\* ALTER TABLE and the like: a second time, it fails.
ExecStmt(s) ==
  LET f == file[s]  k == stmt[s] IN
  /\ pc[s] = "exec"
  /\ \/ /\ <<f, k>> \in applied /\ twice' = twice \cup {f} /\ Closes(s)
        /\ UNCHANGED <<applied, stmt, halfway>>
     \/ /\ <<f, k>> \notin applied /\ applied' = applied \cup {<<f, k>>}
        /\ stmt' = [stmt EXCEPT ![s] = k + 1]
        /\ Goes(s, AfterStmt(f, k))
        /\ UNCHANGED <<lock, halfway, twice, doubtful>>
  /\ UNCHANGED <<scene, inst, starts, file, recorded, keyVars>>

Record(s) ==
  /\ pc[s] = "record"
  /\ recorded' = recorded \cup {file[s]} /\ file' = [file EXCEPT ![s] = @ + 1] /\ Goes(s, "migrate")
  /\ UNCHANGED <<scene, inst, starts, stmt, lock, applied, halfway, twice, keyVars, doubtful>>

-----------------------------------------------------------------------------
(* checkEncryptKeyPresence.                                                 *)

\* CountEncrypted counts the channels that are not deleted (and no secrets of
\* two-factor authentication, which the same key encrypts).
Refuses(s) == auto[s] /\ sealed # {}

\* The key that was generated is no good to the next start.
RemoveFile_Forgotten(s) == keyFile
RemoveFile(s) == [keyFile EXCEPT ![Volume(s)] = None]

\* History: the error of the removal is ignored, and the key stays behind.
CheckKey(s) ==
  /\ pc[s] = "check"
  /\ \/ ~Refuses(s) /\ Goes(s, "work") /\ UNCHANGED <<keyFile, doubtful>>
     \/ Refuses(s) /\ Goes(s, "off") /\ keyFile' = RemoveFile(s) /\ UNCHANGED doubtful
     \/ /\ Refuses(s) /\ scene.disk /\ Goes(s, "off")
        /\ doubtful' = doubtful \cup {key[s]} /\ UNCHANGED keyFile
  /\ UNCHANGED <<scene, inst, starts, migrationVars, key, auto, given, sealed>>

StartStep(s) ==
  Load(s) \/ AcquireLock(s) \/ NextFile(s) \/ ExecStmt(s) \/ Record(s) \/ CheckKey(s)
=============================================================================
