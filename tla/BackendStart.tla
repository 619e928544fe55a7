---------------------------- MODULE BackendStart ----------------------------
(***************************************************************************)
(* Backend processes between `node server.js` and their exit, next to each *)
(* other on one database and one volume: a restart, a rolling update, two  *)
(* processes by mistake.  A process applies the migrations it ships under  *)
(* an advisory lock, listens, loads the LTI tool key on first use, and is  *)
(* signalled or killed at any point.                                       *)
(***************************************************************************)
EXTENDS Naturals

CONSTANTS
    Instances,   \* backend processes
    Files,       \* Files[b]: the numbered migrations that the image of b ships
    None

ASSUME BackendStartAssumption ==
    /\ Files \in [Instances -> SUBSET Nat]
    /\ {None, "absent", "empty"} \cap Instances = {}

VARIABLES
    pc,       \* how far the start of a process is
    ending,   \* shuttingDown: the pool is ending
    lock,     \* the session that holds the advisory lock
    known,    \* the migrations a process takes for applied
    applied,  \* schema_migrations: each file's effects and its name commit together
    keyFile,  \* LTI_TOOL_KEY_FILE on the volume: absent, created but not written, or whose key
    keyPc,    \* how far loadPem is
    key       \* the key a process publishes and signs with: the memoised load

startVars == <<pc, ending, lock, known, applied>>
keyVars == <<keyFile, keyPc, key>>
backendVars == <<startVars, keyVars>>

Phases == {"down", "started", "waiting", "migrating", "migrated", "listening"}

StartInit ==
    /\ pc = [b \in Instances |-> "down"]
    /\ ending = [b \in Instances |-> FALSE]
    /\ lock = None
    /\ known = [b \in Instances |-> {}]
    /\ applied = {}
    /\ keyFile = "absent"
    /\ keyPc = [b \in Instances |-> "idle"]
    /\ key = [b \in Instances |-> None]

(* A process whose pool is ending still listens until its last connection closes. *)
Serves(b) == pc[b] = "listening" /\ ~ending[b]

-----------------------------------------------------------------------------
(* bootstrap and runMigrations *)

Started(b) ==
    /\ pc[b] = "down"
    /\ pc' = [pc EXCEPT ![b] = "started"]
    /\ UNCHANGED <<ending, lock, known, applied, keyVars>>

(* An ended pool gives out no client. *)
AsksForLock(b) ==
    /\ pc[b] = "started" /\ ~ending[b]
    /\ pc' = [pc EXCEPT ![b] = "waiting"]
    /\ UNCHANGED <<ending, lock, known, applied, keyVars>>

LockTaken(b) == lock = None /\ lock' = b

(* The list of applied files is read once, under the lock. *)
Migrates(b) ==
    /\ pc[b] = "waiting"
    /\ LockTaken(b)
    /\ pc' = [pc EXCEPT ![b] = "migrating"]
    /\ known' = [known EXCEPT ![b] = applied]
    /\ UNCHANGED <<ending, applied, keyVars>>

Todo(b) == Files[b] \ known[b]

NextFile(b, f) == f \in Todo(b) /\ \A g \in Todo(b) : f <= g

(* One file in one transaction; the primary key refuses a name that is there already. *)
Applied(b) ==
    /\ pc[b] = "migrating"
    /\ \E f \in Files[b] :
          /\ NextFile(b, f) /\ f \notin applied
          /\ applied' = applied \cup {f}
          /\ known' = [known EXCEPT ![b] = @ \cup {f}]
    /\ UNCHANGED <<pc, ending, lock, keyVars>>

Unlocked(b) ==
    /\ pc[b] = "migrating" /\ Todo(b) = {}
    /\ lock' = IF lock = b THEN None ELSE lock
    /\ pc' = [pc EXCEPT ![b] = "migrated"]
    /\ UNCHANGED <<ending, known, applied, keyVars>>

(* Slip: bootstrap does not await the migrations. *)
HasStarted(b) == pc[b] \notin {"down", "listening"}

MayListen(b) == pc[b] = "migrated"

Listens(b) ==
    /\ MayListen(b)
    /\ pc' = [pc EXCEPT ![b] = "listening"]
    /\ UNCHANGED <<ending, lock, known, applied, keyVars>>

(* SIGTERM or SIGINT, at any point; the second one is ignored. *)
Signalled(b) ==
    /\ pc[b] # "down" /\ ~ending[b]
    /\ ending' = [ending EXCEPT ![b] = TRUE]
    /\ UNCHANGED <<pc, lock, known, applied, keyVars>>

(* A migration or any other await of bootstrap fails, the shutdown is complete or forced, *)
(* or the process is killed: its session ends with it, its open transaction with that.    *)
Exits(b) ==
    /\ pc[b] # "down"
    /\ pc' = [pc EXCEPT ![b] = "down"]
    /\ ending' = [ending EXCEPT ![b] = FALSE]
    /\ lock' = IF lock = b THEN None ELSE lock
    /\ known' = [known EXCEPT ![b] = {}]
    /\ keyPc' = [keyPc EXCEPT ![b] = "idle"]
    /\ key' = [key EXCEPT ![b] = None]
    /\ UNCHANGED <<applied, keyFile>>

-----------------------------------------------------------------------------
(* The tool key (lti/keys.js), loaded by the first LTI request that needs it. *)

KeyStep(b, from, to) ==
    /\ keyPc[b] = from
    /\ keyPc' = [keyPc EXCEPT ![b] = to]
    /\ UNCHANGED startVars

(* A load that fails is not remembered: the next request tries again. *)
Loads(b) == key' = IF keyFile \in Instances THEN [key EXCEPT ![b] = keyFile] ELSE key

KeyRead(b) ==
    /\ Serves(b) /\ key[b] = None
    /\ keyFile # "absent"
    /\ KeyStep(b, "idle", "idle")
    /\ Loads(b)
    /\ UNCHANGED keyFile

KeyMissing(b) ==
    /\ Serves(b) /\ key[b] = None
    /\ keyFile = "absent"
    /\ KeyStep(b, "idle", "generated")
    /\ UNCHANGED <<keyFile, key>>

(* Slip: the file of another process is overwritten. *)
AnyFile == TRUE

MayCreate == keyFile = "absent"

(* writeFile with flag "wx" creates the file, then writes it. *)
KeyCreated(b) ==
    /\ MayCreate
    /\ KeyStep(b, "generated", "writing")
    /\ keyFile' = "empty"
    /\ UNCHANGED key

KeyExists(b) ==
    /\ ~MayCreate
    /\ KeyStep(b, "generated", "reading")
    /\ UNCHANGED <<keyFile, key>>

KeyWritten(b) ==
    /\ KeyStep(b, "writing", "reading")
    /\ keyFile' = b
    /\ UNCHANGED key

(* What is used is what the file says, whoever wrote it. *)
KeyReread(b) ==
    /\ KeyStep(b, "reading", "idle")
    /\ Loads(b)
    /\ UNCHANGED keyFile

StartNext ==
    \E b \in Instances :
       \/ Started(b) \/ AsksForLock(b) \/ Migrates(b) \/ Applied(b) \/ Unlocked(b)
       \/ Listens(b) \/ Signalled(b) \/ Exits(b)
       \/ KeyRead(b) \/ KeyMissing(b) \/ KeyCreated(b) \/ KeyExists(b) \/ KeyWritten(b) \/ KeyReread(b)

-----------------------------------------------------------------------------
StartTypeOK ==
    /\ pc \in [Instances -> Phases]
    /\ ending \in [Instances -> BOOLEAN]
    /\ lock \in Instances \cup {None}
    /\ known \in [Instances -> SUBSET UNION {Files[b] : b \in Instances}]
    /\ applied \subseteq UNION {Files[b] : b \in Instances}
    /\ keyFile \in Instances \cup {"absent", "empty"}
    /\ keyPc \in [Instances -> {"idle", "generated", "writing", "reading"}]
    /\ key \in [Instances -> Instances \cup {None}]

(* No request meets a schema older than the code that answers it, whatever  *)
(* starts, fails and exits were before; and a process that migrates never   *)
(* comes to a file another one has applied meanwhile, which would fail its  *)
(* start.                                                                   *)
SchemaIsReady ==
    /\ \A b \in Instances : pc[b] = "listening" => Files[b] \subseteq applied
    /\ \A b \in Instances : pc[b] = "migrating" => Todo(b) \cap applied = {}

(* All processes publish and sign with the key of the file: two that start  *)
(* on an empty volume cannot each go on with a key of their own.            *)
OneToolKey == \A b \in Instances : key[b] \in {None, keyFile}

=============================================================================
