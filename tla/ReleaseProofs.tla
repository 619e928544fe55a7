---------------------------- MODULE ReleaseProofs ----------------------------
(***************************************************************************)
(* Theorems about ReleaseTools and the backends it runs against, for any   *)
(* processes, images, scenarios and releases and with every interleaving   *)
(* of starts, scripts and other people: the schema and the tool key are    *)
(* the served ones, and what the scripts report is in the catalog.         *)
(***************************************************************************)
EXTENDS ReleaseTools, TLAPS

Shipped == UNION {Files[b] : b \in Instances}

(* What a process has when it is past a stage; a process that migrates is alone. *)
SchemaGood ==
    /\ \A b \in Instances : pc[b] \in {"migrated", "listening"} => Files[b] \subseteq applied
    /\ \A b \in Instances : pc[b] = "migrating" => lock = b /\ known[b] = applied

(* A key is in use only once the file has it, and one process writes the file. *)
KeyGood ==
    /\ \A b \in Instances : key[b] # None => keyFile \in Instances /\ key[b] = keyFile
    /\ \A b \in Instances : keyPc[b] = "writing" => keyFile = "empty"
    /\ \A b, c \in Instances : keyPc[b] = "writing" /\ keyPc[c] = "writing" => b = c

BackendGood == StartTypeOK /\ SchemaGood /\ KeyGood

-----------------------------------------------------------------------------
(* The start of a process. *)

LEMMA StartParts ==
    ASSUME StartTypeOK
    PROVE  /\ pc \in [Instances -> Phases] /\ ending \in [Instances -> BOOLEAN]
           /\ lock \in Instances \cup {None} /\ known \in [Instances -> SUBSET Shipped]
           /\ applied \subseteq Shipped
           /\ keyFile \in Instances \cup {"absent", "empty"}
           /\ keyPc \in [Instances -> {"idle", "generated", "writing", "reading"}]
           /\ key \in [Instances -> Instances \cup {None}]
BY DEF StartTypeOK, Shipped

(* Steps of the start proper leave the key alone. *)
LEMMA KeyAlone == ASSUME KeyGood, UNCHANGED keyVars PROVE KeyGood'
BY DEF KeyGood, keyVars

LEMMA StartSteps ==
    ASSUME BackendGood, NEW b \in Instances,
           \/ Started(b) \/ AsksForLock(b) \/ Migrates(b) \/ Applied(b) \/ Unlocked(b)
           \/ Listens(b) \/ Signalled(b)
    PROVE  BackendGood'
<1>1. UNCHANGED keyVars /\ KeyGood'
  BY KeyAlone DEF BackendGood, Started, AsksForLock, Migrates, Applied, Unlocked, Listens, Signalled
<1>2. StartTypeOK /\ SchemaGood
  BY DEF BackendGood
<1>3. CASE Started(b) \/ AsksForLock(b) \/ Signalled(b)
  <2>1. StartTypeOK'
    BY <1>1, <1>2, <1>3 DEF StartTypeOK, Started, AsksForLock, Signalled, keyVars, Phases
  <2>2. SchemaGood'
    BY <1>2, <1>3, StartParts DEF SchemaGood, Started, AsksForLock, Signalled
  <2> QED
    BY <1>1, <2>1, <2>2 DEF BackendGood
<1>4. CASE Migrates(b)
  <2>1. /\ pc' = [pc EXCEPT ![b] = "migrating"] /\ known' = [known EXCEPT ![b] = applied]
        /\ lock = None /\ lock' = b /\ ending' = ending /\ applied' = applied
    BY <1>4 DEF Migrates, LockTaken
  <2>2. StartTypeOK'
    BY <1>1, <1>2, <2>1 DEF StartTypeOK, keyVars, Phases
  <2>3. \A c \in Instances : pc[c] # "migrating"
    BY <1>2, <2>1, BackendStartAssumption DEF SchemaGood
  <2>4. SchemaGood'
    BY <1>2, <2>1, <2>3, StartParts DEF SchemaGood
  <2> QED
    BY <1>1, <2>2, <2>4 DEF BackendGood
<1>5. CASE Applied(b)
  <2>1. /\ pc[b] = "migrating" /\ UNCHANGED <<pc, ending, lock>>
        /\ \E f \in Files[b] : applied' = applied \cup {f} /\ known' = [known EXCEPT ![b] = known[b] \cup {f}]
    BY <1>5 DEF Applied
  <2>2. PICK f \in Files[b] :
          applied' = applied \cup {f} /\ known' = [known EXCEPT ![b] = known[b] \cup {f}]
    BY <2>1
  <2>3. known' \in [Instances -> SUBSET Shipped] /\ applied' \subseteq Shipped
    BY <1>2, <2>2, StartParts DEF Shipped
  <2>4. StartTypeOK'
    BY <1>1, <1>2, <2>1, <2>3 DEF StartTypeOK, keyVars, Shipped
  <2>5. \A c \in Instances : pc[c] = "migrating" => c = b
    BY <1>2, <2>1 DEF SchemaGood
  <2>6. SchemaGood'
    BY <1>2, <2>1, <2>2, <2>5, StartParts DEF SchemaGood
  <2> QED
    BY <1>1, <2>4, <2>6 DEF BackendGood
<1>6. CASE Unlocked(b)
  <2>1. /\ pc[b] = "migrating" /\ Todo(b) = {} /\ pc' = [pc EXCEPT ![b] = "migrated"]
        /\ lock' \in {lock, None} /\ UNCHANGED <<ending, known, applied>>
    BY <1>6 DEF Unlocked
  <2>2. StartTypeOK'
    BY <1>1, <1>2, <2>1 DEF StartTypeOK, keyVars, Phases
  <2>3. \A c \in Instances : pc[c] = "migrating" => c = b
    BY <1>2, <2>1 DEF SchemaGood
  <2>4. Files[b] \subseteq applied
    BY <1>2, <2>1 DEF SchemaGood, Todo
  <2>5. SchemaGood'
    BY <1>2, <2>1, <2>3, <2>4, StartParts DEF SchemaGood
  <2> QED
    BY <1>1, <2>2, <2>5 DEF BackendGood
<1>7. CASE Listens(b)
  <2>1. /\ pc[b] = "migrated" /\ pc' = [pc EXCEPT ![b] = "listening"]
        /\ UNCHANGED <<ending, lock, known, applied>>
    BY <1>7 DEF Listens, MayListen
  <2>2. StartTypeOK'
    BY <1>1, <1>2, <2>1 DEF StartTypeOK, keyVars, Phases
  <2>3. SchemaGood'
    BY <1>2, <2>1, StartParts DEF SchemaGood
  <2> QED
    BY <1>1, <2>2, <2>3 DEF BackendGood
<1> QED
  BY <1>3, <1>4, <1>5, <1>6, <1>7

LEMMA ExitsStep ==
    ASSUME BackendGood, NEW b \in Instances, Exits(b)
    PROVE  BackendGood'
<1>1. /\ pc' = [pc EXCEPT ![b] = "down"] /\ ending' = [ending EXCEPT ![b] = FALSE]
      /\ lock' = (IF lock = b THEN None ELSE lock) /\ known' = [known EXCEPT ![b] = {}]
      /\ keyPc' = [keyPc EXCEPT ![b] = "idle"] /\ key' = [key EXCEPT ![b] = None]
      /\ UNCHANGED <<applied, keyFile>>
  BY DEF Exits
<1>2. StartTypeOK /\ SchemaGood /\ KeyGood
  BY DEF BackendGood
<1>3. StartTypeOK'
  BY <1>1, <1>2, StartParts DEF StartTypeOK, Phases, Shipped
<1>4. SchemaGood'
  BY <1>1, <1>2, StartParts DEF SchemaGood
<1>5. KeyGood'
  BY <1>1, <1>2, StartParts DEF KeyGood
<1> QED
  BY <1>3, <1>4, <1>5 DEF BackendGood

LEMMA KeySteps ==
    ASSUME BackendGood, NEW b \in Instances,
           KeyRead(b) \/ KeyMissing(b) \/ KeyCreated(b) \/ KeyExists(b) \/ KeyWritten(b) \/ KeyReread(b)
    PROVE  BackendGood'
<1>1. UNCHANGED startVars
  BY DEF KeyRead, KeyMissing, KeyCreated, KeyExists, KeyWritten, KeyReread, KeyStep
<1>2. StartTypeOK /\ SchemaGood /\ KeyGood
  BY DEF BackendGood
<1>3. SchemaGood'
  BY <1>1, <1>2 DEF SchemaGood, startVars
<1> SUFFICES StartTypeOK' /\ KeyGood'
  BY <1>3 DEF BackendGood
<1>4. CASE KeyRead(b) \/ KeyReread(b)
  <2>1. /\ keyFile' = keyFile /\ keyPc' = [keyPc EXCEPT ![b] = "idle"]
        /\ key' = IF keyFile \in Instances THEN [key EXCEPT ![b] = keyFile] ELSE key
    BY <1>4 DEF KeyRead, KeyReread, KeyStep, Loads
  <2>2. StartTypeOK'
    BY <1>1, <1>2, <2>1 DEF StartTypeOK, startVars
  <2>3. KeyGood'
    BY <1>2, <2>1, StartParts DEF KeyGood
  <2> QED
    BY <2>2, <2>3
<1>5. CASE KeyMissing(b) \/ KeyExists(b)
  <2>1. UNCHANGED <<keyFile, key>> /\ keyPc' \in {[keyPc EXCEPT ![b] = "generated"], [keyPc EXCEPT ![b] = "reading"]}
    BY <1>5 DEF KeyMissing, KeyExists, KeyStep
  <2>2. StartTypeOK'
    BY <1>1, <1>2, <2>1 DEF StartTypeOK, startVars
  <2>3. KeyGood'
    BY <1>2, <2>1, StartParts DEF KeyGood
  <2> QED
    BY <2>2, <2>3
<1>6. CASE KeyCreated(b)
  <2>1. keyFile = "absent" /\ keyFile' = "empty" /\ key' = key /\ keyPc' = [keyPc EXCEPT ![b] = "writing"]
    BY <1>6 DEF KeyCreated, MayCreate, KeyStep
  <2>2. StartTypeOK'
    BY <1>1, <1>2, <2>1 DEF StartTypeOK, startVars
  <2>3. (\A c \in Instances : key[c] = None) /\ \A c \in Instances : keyPc[c] # "writing"
    BY <1>2, <2>1, BackendStartAssumption DEF KeyGood
  <2>4. KeyGood'
    BY <2>1, <2>3, <1>2, StartParts DEF KeyGood
  <2> QED
    BY <2>2, <2>4
<1>7. CASE KeyWritten(b)
  <2>1. keyPc[b] = "writing" /\ keyFile' = b /\ key' = key /\ keyPc' = [keyPc EXCEPT ![b] = "reading"]
    BY <1>7 DEF KeyWritten, KeyStep
  <2>2. StartTypeOK'
    BY <1>1, <1>2, <2>1 DEF StartTypeOK, startVars
  <2>3. (\A c \in Instances : key[c] = None) /\ \A c \in Instances : keyPc[c] = "writing" => c = b
    BY <1>2, <2>1, BackendStartAssumption DEF KeyGood
  <2>4. KeyGood'
    BY <2>1, <2>3, <1>2, StartParts DEF KeyGood
  <2> QED
    BY <2>2, <2>4
<1> QED
  BY <1>4, <1>5, <1>6, <1>7

LEMMA BackendSteps ==
    ASSUME BackendGood, StartNext \/ UNCHANGED backendVars
    PROVE  BackendGood'
<1>1. CASE StartNext
  BY <1>1, StartSteps, ExitsStep, KeySteps DEF StartNext
<1>2. CASE UNCHANGED backendVars
  BY <1>2 DEF backendVars, startVars, keyVars, BackendGood, StartTypeOK, SchemaGood, KeyGood
<1> QED
  BY <1>1, <1>2

-----------------------------------------------------------------------------
(* The rows: what each call of the admin API leaves. *)

RowsGood == rows \in [Scenarios -> Rows] /\ \A s \in Scenarios : rows[s].status = "absent" => rows[s] = NoRow

(* What publishing looks at is left as it was. *)
Keeps(s) == rows'[s].status = rows[s].status /\ rows'[s].bytes = rows[s].bytes

LEMMA Becoming ==
    ASSUME RowsGood, NEW s \in Scenarios, NEW row \in Rows, row.status = "absent" => row = NoRow, Becomes(s, row)
    PROVE  RowsGood' /\ rows'[s] = row /\ \A x \in Scenarios \ {s} : rows'[x] = rows[x]
BY DEF RowsGood, Becomes

LEMMA FirstRows ==
    /\ NoRow \in Rows /\ NewRow \in Rows
    /\ NoRow.status = "absent" /\ NoRow.bytes = "none" /\ NoRow.manifest = FALSE
    /\ NewRow.status = "draft" /\ NewRow.bytes = "none" /\ NewRow.manifest = FALSE
BY DEF Rows, NoRow, NewRow

LEMMA StatusSet ==
    ASSUME RowsGood, NEW s \in Scenarios, NEW v \in {"draft", "review", "rejected", "published"},
           Becomes(s, [rows[s] EXCEPT !.status = v])
    PROVE  /\ RowsGood' /\ \A x \in Scenarios \ {s} : rows'[x] = rows[x]
           /\ rows'[s].status = v /\ rows'[s].bytes = rows[s].bytes /\ rows'[s].manifest = rows[s].manifest
<1> DEFINE row == [rows[s] EXCEPT !.status = v]
<1>1. /\ row \in Rows /\ row.status = v /\ row.bytes = rows[s].bytes /\ row.manifest = rows[s].manifest
      /\ Becomes(s, row)
  BY DEF RowsGood, Rows
<1> HIDE DEF row
<1> QED
  BY <1>1, Becoming

LEMMA BytesSet ==
    ASSUME RowsGood, NEW s \in Scenarios, NEW v \in {"other", "release"}, Exists(s),
           Becomes(s, [rows[s] EXCEPT !.bytes = v])
    PROVE  /\ RowsGood' /\ \A x \in Scenarios \ {s} : rows'[x] = rows[x]
           /\ rows'[s].status = rows[s].status /\ rows'[s].bytes = v /\ rows'[s].manifest = rows[s].manifest
<1> DEFINE row == [rows[s] EXCEPT !.bytes = v]
<1>1. /\ row \in Rows /\ row.bytes = v /\ row.status = rows[s].status /\ row.manifest = rows[s].manifest
      /\ Becomes(s, row) /\ rows[s].status # "absent"
  BY DEF RowsGood, Rows, Exists
<1> HIDE DEF row
<1> QED
  BY <1>1, Becoming

LEMMA ManifestSet ==
    ASSUME RowsGood, NEW s \in Scenarios, Exists(s), Becomes(s, [rows[s] EXCEPT !.manifest = TRUE])
    PROVE  /\ RowsGood' /\ \A x \in Scenarios \ {s} : rows'[x] = rows[x]
           /\ rows'[s].status = rows[s].status /\ rows'[s].bytes = rows[s].bytes
<1> DEFINE row == [rows[s] EXCEPT !.manifest = TRUE]
<1>1. /\ row \in Rows /\ row.bytes = rows[s].bytes /\ row.status = rows[s].status
      /\ Becomes(s, row) /\ rows[s].status # "absent"
  BY DEF RowsGood, Rows, Exists
<1> HIDE DEF row
<1> QED
  BY <1>1, Becoming

(* A call that changes s: the other rows stay, and no manifest is registered. *)
Call(s) ==
    \/ Create(s) \/ Update(s) \/ Upload(s, "release") \/ Upload(s, "other") \/ Approve(s)
    \/ Unpublish(s) \/ Delete(s) \/ SentForReview(s) \/ Rejected(s) \/ UNCHANGED rows

LEMMA CallRows ==
    ASSUME RowsGood, NEW s \in Scenarios, Call(s)
    PROVE  /\ RowsGood' /\ (rows'[s].manifest => rows[s].manifest)
           /\ \A x \in Scenarios \ {s} : rows'[x] = rows[x]
<1>1. CASE Create(s) \/ Delete(s)
  <2>1. PICK row \in {NewRow, NoRow} : Becomes(s, row)
    BY <1>1 DEF Create, Delete
  <2>2. RowsGood' /\ rows'[s] = row /\ \A x \in Scenarios \ {s} : rows'[x] = rows[x]
    BY <2>1, FirstRows, Becoming
  <2>3. ~rows'[s].manifest
    BY <2>2, FirstRows
  <2> QED
    BY <2>2, <2>3
<1>2. CASE Update(s) \/ UNCHANGED rows
  BY <1>2 DEF Update, RowsGood
<1>3. CASE Upload(s, "release") \/ Upload(s, "other")
  <2>1. PICK v \in {"other", "release"} : Exists(s) /\ Becomes(s, [rows[s] EXCEPT !.bytes = v])
    BY <1>3 DEF Upload
  <2> QED
    BY <2>1, BytesSet
<1>4. CASE Approve(s) \/ Unpublish(s) \/ SentForReview(s) \/ Rejected(s)
  <2>1. PICK v \in {"draft", "review", "rejected", "published"} : Becomes(s, [rows[s] EXCEPT !.status = v])
    BY <1>4 DEF Approve, Unpublish, SentForReview, Rejected
  <2> QED
    BY <2>1, StatusSet
<1> QED
  BY <1>1, <1>2, <1>3, <1>4 DEF Call

(* What the publisher's own calls leave. *)
LEMMA PublisherCallRows ==
    ASSUME RowsGood, NEW s \in Scenarios
    PROVE  /\ Create(s) => rows[s] = NoRow /\ rows'[s] = NewRow
           /\ Update(s) => rows[s] # NoRow /\ rows'[s] = rows[s]
           /\ Upload(s, "release") => rows'[s].bytes = "release" /\ rows'[s].status = rows[s].status
           /\ Approve(s) => rows'[s].bytes = rows[s].bytes /\ rows'[s].status = "published"
           /\ Unpublish(s) => rows'[s].bytes = rows[s].bytes /\ rows'[s].status = "draft"
<1>1. ASSUME Create(s) PROVE rows[s] = NoRow /\ rows'[s] = NewRow
  BY <1>1, FirstRows, Becoming DEF Create, Exists
<1>2. ASSUME Upload(s, "release") PROVE rows'[s].bytes = "release" /\ rows'[s].status = rows[s].status
  BY <1>2, BytesSet DEF Upload
<1>3. ASSUME Approve(s) PROVE rows'[s].bytes = rows[s].bytes /\ rows'[s].status = "published"
  BY <1>3, StatusSet DEF Approve
<1>4. ASSUME Unpublish(s) PROVE rows'[s].bytes = rows[s].bytes /\ rows'[s].status = "draft"
  BY <1>4, StatusSet DEF Unpublish
<1>5. Update(s) => rows[s] # NoRow /\ rows'[s] = rows[s]
  BY DEF Update, Exists
<1> QED
  BY <1>1, <1>2, <1>3, <1>4, <1>5

LEMMA RegisterRows ==
    ASSUME RowsGood, NEW s \in Scenarios, Register(s) \/ UNCHANGED rows
    PROVE  /\ RowsGood' /\ \A x \in Scenarios : Keeps(x) /\ (rows'[x] = NoRow => rows[x] = NoRow)
           /\ \A x \in Scenarios \ {s} : rows'[x] = rows[x]
<1>1. CASE Register(s)
  <2>1. /\ RowsGood' /\ \A x \in Scenarios \ {s} : rows'[x] = rows[x]
        /\ rows'[s].status = rows[s].status /\ rows'[s].bytes = rows[s].bytes
    BY <1>1, ManifestSet DEF Register
  <2>2. rows'[s] = NoRow => rows[s] = NoRow
    BY <2>1, FirstRows DEF RowsGood
  <2> QED
    BY <2>1, <2>2 DEF Keeps
<1>2. CASE UNCHANGED rows
  BY <1>2 DEF RowsGood, Keeps
<1> QED
  BY <1>1, <1>2

-----------------------------------------------------------------------------
(* publish-release: what a row is at each place of a run, unless others changed it. *)

PublisherTypes ==
    /\ publisher \in [at : {"rest", "next", "row", "upload", "move", "prune", "ok", "failed"},
                      id : Scenarios \cup {None}, list : [Scenarios -> Rows],
                      todo : SUBSET Scenarios, done : SUBSET Scenarios, problems : BOOLEAN]
    /\ changed \subseteq Scenarios /\ others \in Nat

(* The status of a row that the run has created or found. *)
Made(s) == IF publisher.list[s] = NoRow THEN "draft" ELSE publisher.list[s].status

AsListed(s) == rows[s].status = publisher.list[s].status
Uploaded(s) == rows[s].status = Made(s) /\ rows[s].bytes = "release" /\ NeedsMove(s)
Result(s) == rows[s].bytes = "release" /\ (rows[s].status = "published" <=> s \in Public)

Ahead ==
    publisher.at \in {"next", "row", "upload", "move"} =>
        publisher.todo \subseteq InRelease \ publisher.done /\ \A s \in publisher.todo \ changed : AsListed(s)
Underway ==
    publisher.at \in {"row", "upload", "move"} =>
        /\ publisher.id \in InRelease \ (publisher.todo \cup publisher.done)
        /\ publisher.id \notin changed =>
              /\ publisher.at = "row" => AsListed(publisher.id)
              /\ publisher.at = "upload" => rows[publisher.id].status = Made(publisher.id)
              /\ publisher.at = "move" => Uploaded(publisher.id)
Behind ==
    /\ publisher.done \subseteq InRelease
    /\ \A s \in publisher.done \ changed : Result(s)
    /\ publisher.at = "prune" => publisher.todo \subseteq ReplacedBy(publisher.done)

PublisherGood == PublisherTypes /\ Ahead /\ Underway /\ Behind

(* Steps of anybody else: what changes a row of the release says so. *)
LEMMA PublisherUndisturbed ==
    ASSUME PublisherGood, publisher' = publisher, changed \subseteq changed', changed' \subseteq Scenarios,
           others' \in Nat, \A s \in InRelease \ changed' : Keeps(s)
    PROVE  PublisherGood'
<1>1. PublisherTypes'
  BY DEF PublisherGood, PublisherTypes
<1>2. Ahead'
  BY DEF PublisherGood, Ahead, AsListed, Keeps
<1>3. Underway'
  BY DEF PublisherGood, Underway, AsListed, Made, Uploaded, NeedsMove, WasPublished, Keeps, Public
<1>4. Behind'
  BY DEF PublisherGood, Behind, Result, Keeps, Public, ReplacedBy
<1> QED
  BY <1>1, <1>2, <1>3, <1>4 DEF PublisherGood

LEMMA PublisherQuietSteps ==
    ASSUME PublisherGood, RowsGood,
           \/ \E only \in Selections : PublisherStarts(only)
           \/ \E s \in Scenarios : ArchiveTaken(s)
           \/ PublisherPrunes \/ PublisherReports \/ PublisherStops
    PROVE  PublisherGood' /\ rows' = rows /\ others' = others
<1> USE DEF PublisherGood
<1>1. CASE PublisherStops
  <2>1. publisher' = Rest /\ changed' = {} /\ rows' = rows /\ others' = others
    BY <1>1 DEF PublisherStops
  <2>2. NoList \in [Scenarios -> Rows]
    BY FirstRows DEF NoList
  <2>3. PublisherTypes'
    BY <2>1, <2>2 DEF PublisherTypes, Rest
  <2> QED
    BY <2>1, <2>3 DEF Rest, Ahead, Underway, Behind
<1>2. ASSUME NEW only \in Selections, PublisherStarts(only)
      PROVE  PublisherGood' /\ rows' = rows /\ others' = others
  <2>1. /\ publisher' = [at |-> "next", id |-> None, list |-> rows, todo |-> only, done |-> {}, problems |-> FALSE]
        /\ changed' = {} /\ rows' = rows /\ others' = others
    BY <1>2 DEF PublisherStarts, Rest
  <2>2. only \subseteq InRelease /\ InRelease \subseteq Scenarios
    BY ReleaseToolsAssumption DEF Selections
  <2>3. PublisherTypes'
    BY <2>1, <2>2 DEF PublisherTypes, RowsGood
  <2>4. Ahead' /\ Underway' /\ Behind'
    BY <2>1, <2>2 DEF Ahead, Underway, Behind, AsListed
  <2> QED
    BY <2>1, <2>3, <2>4
<1>3. ASSUME NEW s \in Scenarios, ArchiveTaken(s)
      PROVE  PublisherGood' /\ rows' = rows /\ others' = others
  <2>1. /\ publisher.at = "next" /\ s \in publisher.todo
        /\ rows' = rows /\ others' = others /\ changed' = changed
        /\ \/ publisher' = [publisher EXCEPT !.at = "row", !.id = s, !.todo = publisher.todo \ {s}]
           \/ publisher' = [publisher EXCEPT !.problems = TRUE, !.todo = publisher.todo \ {s}]
    BY <1>3 DEF ArchiveTaken
  <2>2. PublisherTypes'
    BY <2>1 DEF PublisherTypes
  <2>3. /\ publisher'.at \in {"row", "next"} /\ (publisher'.at = "row" => publisher'.id = s)
        /\ publisher'.todo = publisher.todo \ {s} /\ publisher'.done = publisher.done
        /\ publisher'.list = publisher.list
    BY <2>1 DEF PublisherTypes
  <2>4. Ahead'
    BY <2>1, <2>3 DEF Ahead, AsListed
  <2>5. Underway'
    BY <2>1, <2>3 DEF Ahead, Underway, AsListed
  <2>6. Behind'
    BY <2>1, <2>3 DEF Behind, Result, Public
  <2> QED
    BY <2>1, <2>2, <2>4, <2>5, <2>6
<1>4. CASE PublisherPrunes
  <2>1. PICK prune \in {Superseded, {}} : publisher' = [publisher EXCEPT !.at = "prune", !.todo = prune]
    BY <1>4 DEF PublisherPrunes
  <2>2. rows' = rows /\ others' = others /\ changed' = changed
    BY <1>4 DEF PublisherPrunes
  <2>3. prune \subseteq ReplacedBy(publisher.done)
    BY <2>1 DEF Superseded
  <2>4. ReplacedBy(publisher.done) \subseteq Scenarios
    BY ReleaseToolsAssumption DEF ReplacedBy, Behind
  <2>5. PublisherTypes'
    BY <2>1, <2>2, <2>3, <2>4 DEF PublisherTypes
  <2>6. publisher'.at = "prune" /\ publisher'.todo = prune /\ publisher'.done = publisher.done
    BY <2>1 DEF PublisherTypes
  <2>7. Ahead' /\ Underway' /\ Behind'
    BY <2>2, <2>3, <2>6 DEF Ahead, Underway, Behind, Result, Public, ReplacedBy
  <2> QED
    BY <2>2, <2>5, <2>7
<1>5. CASE PublisherReports
  <2>1. /\ rows' = rows /\ others' = others /\ changed' = changed
        /\ publisher' \in {[publisher EXCEPT !.at = "failed", !.list = NoList], [publisher EXCEPT !.at = "ok", !.list = NoList]}
    BY <1>5 DEF PublisherReports
  <2>2. NoList \in [Scenarios -> Rows]
    BY FirstRows DEF NoList
  <2>3. PublisherTypes'
    BY <2>1, <2>2 DEF PublisherTypes
  <2>4. publisher'.at \in {"failed", "ok"} /\ publisher'.done = publisher.done
    BY <2>1 DEF PublisherTypes
  <2>5. Ahead' /\ Underway' /\ Behind'
    BY <2>1, <2>4 DEF Ahead, Underway, Behind, Result, Public
  <2> QED
    BY <2>1, <2>3, <2>5
<1> QED
  BY <1>1, <1>2, <1>3, <1>4, <1>5

(* The publisher's call changes the row in hand and no other. *)
LEMMA InHand ==
    ASSUME PublisherGood, RowsGood, publisher.at \in {"row", "upload", "move"}, Call(publisher.id)
    PROVE  /\ RowsGood' /\ publisher.id \in Scenarios
           /\ \A x \in Scenarios \ {publisher.id} : rows'[x] = rows[x]
           /\ rows'[publisher.id].manifest => rows[publisher.id].manifest
<1>1. publisher.id \in Scenarios
  BY ReleaseToolsAssumption DEF PublisherGood, Underway
<1> QED
  BY <1>1, CallRows

LEMMA CallIsDone ==
    ASSUME PublisherGood, RowsGood, PublisherCalls
    PROVE  /\ PublisherGood' /\ others' = others
           /\ publisher.at \in {"row", "upload", "move"} /\ Call(publisher.id)
           /\ rows'[publisher.id] # NoRow \/ rows[publisher.id] = NoRow
<1> DEFINE id == publisher.id
<1> USE DEF PublisherGood
<1>1. changed' = changed /\ others' = others
  BY DEF PublisherCalls
<1>2. ASSUME NEW to \in {"upload", "move"}, publisher' = After(to)
      PROVE  publisher' = [publisher EXCEPT !.at = to]
  BY <1>2 DEF After
<1>3. CASE publisher.at = "row" /\ Done(RowCall(id)) /\ publisher' = After("upload")
  <2>1. publisher' = [publisher EXCEPT !.at = "upload"]
    BY <1>2, <1>3
  <2>2. (Create(id) /\ publisher.list[id] = NoRow) \/ (Update(id) /\ publisher.list[id] # NoRow)
    BY <1>3 DEF Done, RowCall
  <2>3. /\ RowsGood' /\ id \in Scenarios /\ Call(id)
        /\ \A x \in Scenarios \ {id} : rows'[x] = rows[x]
    BY <1>3, <2>2, InHand DEF Call
  <2>4. /\ id \notin changed => rows'[id].status = Made(id)
        /\ rows'[id] # NoRow
    BY <1>3, <2>2, <2>3, PublisherCallRows, FirstRows DEF Made, Underway, AsListed
  <2>5. PublisherTypes'
    BY <1>1, <2>1 DEF PublisherTypes
  <2>6. /\ publisher'.at = "upload" /\ publisher'.id = id /\ publisher'.todo = publisher.todo
        /\ publisher'.done = publisher.done /\ publisher'.list = publisher.list
    BY <2>1 DEF PublisherTypes
  <2>7. id \in InRelease \ (publisher.todo \cup publisher.done)
    BY <1>3 DEF Underway
  <2>8. Ahead' /\ Underway' /\ Behind'
    BY <1>1, <1>3, <2>3, <2>4, <2>6, <2>7, ReleaseToolsAssumption
       DEF Ahead, Underway, Behind, AsListed, Made, Result, Public
  <2> QED
    BY <1>1, <1>3, <2>3, <2>4, <2>5, <2>8
<1>4. ASSUME Call(id), publisher.at \in {"upload", "move"}, publisher' = After("next"),
             id \notin changed => rows'[id].bytes = "release" /\ (rows'[id].status = "published" <=> id \in Public),
             rows'[id] # NoRow \/ rows[id] = NoRow
      PROVE  PublisherGood'
  <2>1. publisher' = [publisher EXCEPT !.at = "next", !.id = None, !.done = publisher.done \cup {id}]
    BY <1>4 DEF After
  <2>2. RowsGood' /\ id \in Scenarios /\ \A x \in Scenarios \ {id} : rows'[x] = rows[x]
    BY <1>4, InHand
  <2>3. PublisherTypes'
    BY <1>1, <2>1, <2>2 DEF PublisherTypes
  <2>4. /\ publisher'.at = "next" /\ publisher'.todo = publisher.todo
        /\ publisher'.done = publisher.done \cup {id} /\ publisher'.list = publisher.list
    BY <2>1 DEF PublisherTypes
  <2>5. id \in InRelease \ (publisher.todo \cup publisher.done)
    BY <1>4 DEF Underway
  <2>6. Ahead' /\ Underway'
    BY <1>1, <1>4, <2>2, <2>4, <2>5, ReleaseToolsAssumption DEF Ahead, Underway, AsListed
  <2>7. Behind'
    BY <1>1, <1>4, <2>2, <2>4, <2>5, ReleaseToolsAssumption DEF Behind, Result, Public
  <2> QED
    BY <2>3, <2>6, <2>7
<1>5. CASE publisher.at = "upload" /\ Done(Upload(id, "release")) /\ publisher' = After(IF NeedsMove(id) THEN "move" ELSE "next")
  <2>1. Call(id) /\ Upload(id, "release")
    BY <1>5 DEF Done, Call
  <2>2. RowsGood' /\ id \in Scenarios /\ \A x \in Scenarios \ {id} : rows'[x] = rows[x]
    BY <1>5, <2>1, InHand
  <2>3. rows'[id].bytes = "release" /\ rows'[id].status = rows[id].status /\ rows'[id] # NoRow
    BY <2>1, <2>2, PublisherCallRows, FirstRows
  <2>4. id \notin changed => rows'[id].status = Made(id)
    BY <1>5, <2>3 DEF Underway
  <2>5. CASE NeedsMove(id)
    <3>1. publisher' = [publisher EXCEPT !.at = "move"]
      BY <1>2, <1>5, <2>5
    <3>2. PublisherTypes'
      BY <1>1, <3>1 DEF PublisherTypes
    <3>3. /\ publisher'.at = "move" /\ publisher'.id = id /\ publisher'.todo = publisher.todo
          /\ publisher'.done = publisher.done /\ publisher'.list = publisher.list
      BY <3>1 DEF PublisherTypes
    <3>4. id \in InRelease \ (publisher.todo \cup publisher.done)
      BY <1>5 DEF Underway
    <3>5. Ahead' /\ Behind'
      BY <1>1, <1>5, <2>2, <3>3, <3>4, ReleaseToolsAssumption DEF Ahead, Behind, AsListed, Result, Public
    <3>6. NeedsMove(id)'
      BY <2>5, <3>3 DEF NeedsMove, WasPublished, Public
    <3>7. id \notin changed => Uploaded(publisher.id)'
      BY <2>3, <2>4, <3>3, <3>6 DEF Uploaded, Made
    <3>8. Underway'
      BY <1>1, <3>3, <3>4, <3>7 DEF Underway
    <3> QED
      BY <1>1, <1>5, <2>1, <2>3, <3>2, <3>5, <3>8
  <2>6. CASE ~NeedsMove(id)
    <3>1. publisher' = After("next")
      BY <1>5, <2>6
    <3>2. id \in Public <=> publisher.list[id].status = "published"
      BY <2>6 DEF NeedsMove, WasPublished
    <3>3. id \notin changed => (rows'[id].status = "published" <=> id \in Public)
      BY <2>4, <3>2, FirstRows DEF Made
    <3>4. id \notin changed => rows'[id].bytes = "release" /\ (rows'[id].status = "published" <=> id \in Public)
      BY <2>3, <3>3
    <3> QED
      BY <1>1, <1>4, <1>5, <2>1, <2>3, <3>1, <3>4
  <2> QED
    BY <2>5, <2>6
<1>6. CASE publisher.at = "move" /\ Done(MoveCall(id)) /\ publisher' = After("next")
  <2>1. Call(id) /\ ((id \in Public /\ Approve(id)) \/ (id \notin Public /\ Unpublish(id)))
    BY <1>6 DEF Done, MoveCall, Call
  <2>2. id \in Scenarios
    BY <1>6, <2>1, InHand
  <2>3. /\ rows'[id].bytes = rows[id].bytes
        /\ rows'[id].status = (IF id \in Public THEN "published" ELSE "draft")
    BY <2>1, <2>2, PublisherCallRows
  <2>4. rows'[id] # NoRow
    BY <2>3, FirstRows
  <2>5. id \notin changed => rows'[id].bytes = "release" /\ (rows'[id].status = "published" <=> id \in Public)
    BY <1>6, <2>3 DEF Underway, Uploaded
  <2> QED
    BY <1>1, <1>4, <1>6, <2>1, <2>4, <2>5
<1> QED
  BY <1>3, <1>5, <1>6 DEF PublisherCalls

LEMMA CallFails ==
    ASSUME PublisherGood, RowsGood, PublisherCallFails
    PROVE  /\ PublisherGood' /\ others' = others
           /\ publisher.at \in {"row", "upload", "move"} /\ Call(publisher.id)
           /\ rows'[publisher.id] # NoRow \/ rows[publisher.id] = NoRow
<1> DEFINE id == publisher.id
<1> USE DEF PublisherGood
<1>1. /\ publisher' = [publisher EXCEPT !.at = "next", !.id = None, !.problems = TRUE]
      /\ changed' = changed /\ others' = others /\ publisher.at \in {"row", "upload", "move"}
  BY DEF PublisherCallFails
<1>2. \/ Create(id) \/ Update(id) \/ Upload(id, "release") \/ Approve(id) \/ Unpublish(id)
      \/ UNCHANGED rows
  BY DEF PublisherCallFails, Failed, RowCall, MoveCall
<1>3. /\ Call(id) /\ RowsGood' /\ id \in Scenarios
      /\ \A x \in Scenarios \ {id} : rows'[x] = rows[x]
  BY <1>1, <1>2, InHand DEF Call
<1>4. rows'[id] # NoRow \/ rows[id] = NoRow
  BY <1>2, <1>3, PublisherCallRows, FirstRows
<1>5. PublisherTypes'
  BY <1>1 DEF PublisherTypes
<1>6. /\ publisher'.at = "next" /\ publisher'.todo = publisher.todo
      /\ publisher'.done = publisher.done /\ publisher'.list = publisher.list
  BY <1>1 DEF PublisherTypes
<1>7. id \in InRelease \ (publisher.todo \cup publisher.done)
  BY <1>1 DEF Underway
<1>8. Ahead' /\ Underway' /\ Behind'
  BY <1>1, <1>3, <1>6, <1>7, ReleaseToolsAssumption DEF Ahead, Underway, Behind, AsListed, Result, Public
<1> QED
  BY <1>1, <1>3, <1>4, <1>5, <1>8

LEMMA PruneStep ==
    ASSUME PublisherGood, RowsGood, NEW o \in Scenarios, RowPruned(o)
    PROVE  /\ PublisherGood' /\ others' = others /\ Call(o) /\ publisher.at = "prune"
           /\ o \in ReplacedBy(publisher.done)
<1> USE DEF PublisherGood
<1>1. /\ publisher.at = "prune" /\ o \in publisher.todo /\ changed' = changed /\ others' = others
      /\ publisher' \in {[publisher EXCEPT !.todo = publisher.todo \ {o}],
                        [publisher EXCEPT !.todo = publisher.todo \ {o}, !.problems = TRUE]}
      /\ Delete(o) \/ UNCHANGED rows
  BY DEF RowPruned, Done, Failed
<1>2. Call(o) /\ \A x \in Scenarios \ {o} : rows'[x] = rows[x]
  BY <1>1, CallRows DEF Call
<1>3. o \in ReplacedBy(publisher.done)
  BY <1>1 DEF Behind
<1>4. o \notin InRelease
  BY <1>3, ReleaseToolsAssumption DEF ReplacedBy, Behind
<1>5. PublisherTypes'
  BY <1>1 DEF PublisherTypes
<1>6. publisher'.at = "prune" /\ publisher'.todo = publisher.todo \ {o} /\ publisher'.done = publisher.done
  BY <1>1 DEF PublisherTypes
<1>7. Ahead' /\ Underway' /\ Behind'
  BY <1>1, <1>2, <1>4, <1>6, ReleaseToolsAssumption DEF Ahead, Underway, Behind, Result, Public, ReplacedBy
<1> QED
  BY <1>1, <1>2, <1>3, <1>5, <1>7

-----------------------------------------------------------------------------
(* import-release-assets: a manifest is copied with its objects, and registered when all is there. *)

ImportTypes ==
    /\ importer \in [at : {"rest", "copying", "registering"}, release : Releases \cup {0},
                     files : SUBSET (({"object"} \X Stored) \cup ({"manifest"} \X Scenarios)),
                     ids : SUBSET Scenarios]
    /\ assets \in [objects : SUBSET Stored, manifest : [Scenarios -> Releases \cup {0}]]
    /\ torn \in [scenarios : SUBSET Scenarios, missing : SUBSET Stored]

(* What the copy under way has not left in the store is still among its files. *)
Copying ==
    importer.at = "copying" =>
        /\ importer.ids \subseteq torn.scenarios /\ importer.release # 0
        /\ \A f \in importer.files : f[1] = "manifest" => f[2] \in importer.ids
        /\ \A s \in importer.ids :
              /\ assets.manifest[s] = importer.release \/ <<"manifest", s>> \in importer.files
              /\ \A o \in Objects[importer.release][s] :
                    o \in assets.objects \cup torn.missing \/ <<"object", o>> \in importer.files

Registering == importer.at = "registering" => \A s \in importer.ids : Resolves(s)

ImportGood == ImportTypes /\ Copying /\ Registering /\ RegisteredManifestsResolve

(* Steps of anybody else register nothing. *)
LEMMA ImportUndisturbed ==
    ASSUME ImportGood, UNCHANGED importVars, \A s \in Scenarios : rows'[s].manifest => rows[s].manifest
    PROVE  ImportGood'
<1>1. ImportTypes'
  BY DEF ImportGood, ImportTypes, importVars
<1>2. Copying'
  BY DEF ImportGood, Copying, importVars
<1>3. Registering'
  BY DEF ImportGood, Registering, Resolves, importVars
<1>4. RegisteredManifestsResolve'
  BY DEF ImportGood, RegisteredManifestsResolve, Resolves, importVars
<1> QED
  BY <1>1, <1>2, <1>3, <1>4 DEF ImportGood

LEMMA ImportBegins ==
    ASSUME ImportGood, NEW r \in Releases, NEW ids \in Readable(r),
           NEW missing \in SUBSET UNION {Objects[r][s] : s \in ids}, ImportStarts(r, ids, missing)
    PROVE  ImportGood'
<1> USE DEF ImportGood
<1>1. /\ importer' = [at |-> "copying", release |-> r, files |-> StagedFiles(r, ids, missing), ids |-> ids]
      /\ torn' = [torn EXCEPT !.scenarios = torn.scenarios \cup ids, !.missing = torn.missing \cup missing]
      /\ rows' = rows /\ assets' = assets
  BY DEF ImportStarts
<1>2. /\ ids \subseteq Scenarios /\ missing \subseteq Stored /\ r # 0
      /\ UNION {Objects[r][s] : s \in ids} \subseteq Stored
  BY ReleaseToolsAssumption DEF Readable, Manifests, Stored, Releases
<1>3. StagedFiles(r, ids, missing) \subseteq (({"object"} \X Stored) \cup ({"manifest"} \X Scenarios))
  BY <1>2 DEF StagedFiles
<1>4. ImportTypes'
  BY <1>1, <1>2, <1>3 DEF ImportTypes
<1>5. torn'.scenarios = torn.scenarios \cup ids /\ torn'.missing = torn.missing \cup missing
  BY <1>1 DEF ImportTypes
<1>6. Copying'
  <2>1. ids \subseteq torn'.scenarios /\ missing \subseteq torn'.missing
    BY <1>5
  <2>2. \A f \in StagedFiles(r, ids, missing) : f[1] = "manifest" => f[2] \in ids
    BY DEF StagedFiles
  <2>3. ASSUME NEW s \in ids
        PROVE  /\ <<"manifest", s>> \in StagedFiles(r, ids, missing)
               /\ \A o \in Objects[r][s] \ missing : <<"object", o>> \in StagedFiles(r, ids, missing)
    <3>1. <<"manifest", s>> \in StagedFiles(r, ids, missing)
      BY DEF StagedFiles
    <3>2. ASSUME NEW o \in Objects[r][s] \ missing PROVE <<"object", o>> \in StagedFiles(r, ids, missing)
      <4> DEFINE present == (UNION {Objects[r][x] : x \in ids}) \ missing
      <4>1. /\ o \in present
            /\ StagedFiles(r, ids, missing) = {<<"object", x>> : x \in present} \cup {<<"manifest", x>> : x \in ids}
        BY Zenon DEF StagedFiles
      <4> HIDE DEF present
      <4> QED
        BY <4>1
    <3> QED
      BY <3>1, <3>2
  <2> QED
    BY <1>1, <1>2, <2>1, <2>2, <2>3 DEF Copying
<1>7. Registering'
  BY <1>1 DEF Registering
<1>8. RegisteredManifestsResolve'
  BY <1>1, <1>5 DEF RegisteredManifestsResolve, Resolves
<1> QED
  BY <1>4, <1>6, <1>7, <1>8

LEMMA FileIsThere ==
    ASSUME ImportGood, NEW f \in importer.files, FileCopied(f)
    PROVE  ImportGood'
<1> USE DEF ImportGood
<1>1. /\ importer.at = "copying" /\ importer' = [importer EXCEPT !.files = importer.files \ {f}]
      /\ torn' = torn /\ rows' = rows
      /\ assets' = IF f[1] = "object" THEN [assets EXCEPT !.objects = assets.objects \cup {f[2]}]
                                      ELSE [assets EXCEPT !.manifest[f[2]] = importer.release]
  BY DEF FileCopied
<1>2. /\ importer'.at = "copying" /\ importer'.files = importer.files \ {f}
      /\ importer'.ids = importer.ids /\ importer'.release = importer.release
      /\ ImportTypes /\ importer.release \in Releases \cup {0} /\ importer.ids \subseteq torn.scenarios
      /\ torn.scenarios \subseteq Scenarios
  BY <1>1 DEF ImportTypes, Copying
<1>3. CASE f[1] = "object"
  <2>1. PICK o \in Stored : f = <<"object", o>>
    BY <1>3 DEF ImportTypes
  <2>2. assets' = [assets EXCEPT !.objects = assets.objects \cup {o}]
    BY <1>1, <2>1
  <2>3. assets'.objects = assets.objects \cup {o} /\ assets'.manifest = assets.manifest
    BY <2>2 DEF ImportTypes
  <2>4. ImportTypes'
    BY <1>1, <2>1, <2>2 DEF ImportTypes
  <2>5. Copying'
    BY <1>1, <1>2, <2>1, <2>3 DEF Copying
  <2>6. Registering' /\ RegisteredManifestsResolve'
    BY <1>1, <1>2, <2>3 DEF Registering, RegisteredManifestsResolve, Resolves
  <2> QED
    BY <2>4, <2>5, <2>6
<1>4. CASE f[1] # "object"
  <2>1. PICK m \in Scenarios : f = <<"manifest", m>>
    BY <1>4 DEF ImportTypes
  <2>2. assets' = [assets EXCEPT !.manifest[m] = importer.release] /\ m \in importer.ids
    BY <1>1, <1>4, <2>1 DEF Copying
  <2>3. /\ assets'.objects = assets.objects /\ assets'.manifest[m] = importer.release
        /\ \A s \in Scenarios \ {m} : assets'.manifest[s] = assets.manifest[s]
    BY <2>2 DEF ImportTypes
  <2>4. ImportTypes'
    BY <1>1, <1>2, <2>2 DEF ImportTypes
  <2>5. Copying'
    BY <1>1, <1>2, <2>1, <2>3 DEF Copying, ImportTypes
  <2>6. Registering' /\ RegisteredManifestsResolve'
    BY <1>1, <1>2, <2>2, <2>3 DEF Registering, RegisteredManifestsResolve, Resolves
  <2> QED
    BY <2>4, <2>5, <2>6
<1> QED
  BY <1>3, <1>4

LEMMA CopyEnds == ASSUME ImportGood, CopyDone PROVE ImportGood'
<1> USE DEF ImportGood
<1>1. /\ importer.at = "copying" /\ importer.files = {}
      /\ importer' = [importer EXCEPT !.at = "registering", !.files = {}]
      /\ torn' = [torn EXCEPT !.scenarios = torn.scenarios \ importer.ids]
      /\ rows' = rows /\ assets' = assets
  BY DEF CopyDone, CopyIsDone
<1>2. ImportTypes'
  BY <1>1 DEF ImportTypes
<1>3. /\ importer'.at = "registering" /\ importer'.ids = importer.ids
      /\ torn'.scenarios = torn.scenarios \ importer.ids /\ torn'.missing = torn.missing
      /\ importer.ids \subseteq Scenarios
  BY <1>1 DEF ImportTypes
<1>4. \A s \in importer.ids : Resolves(s)'
  BY <1>1, <1>3 DEF Copying, Resolves
<1>5. Copying' /\ Registering' /\ RegisteredManifestsResolve'
  BY <1>1, <1>3, <1>4 DEF Copying, Registering, RegisteredManifestsResolve, Resolves
<1> QED
  BY <1>2, <1>5

LEMMA RowRegistered ==
    ASSUME ImportGood, RowsGood, NEW s \in importer.ids, ManifestRegistered(s)
    PROVE  /\ ImportGood' /\ RowsGood'
           /\ \A x \in Scenarios : Keeps(x) /\ (rows'[x] = NoRow => rows[x] = NoRow)
<1> USE DEF ImportGood
<1>1. /\ importer.at = "registering" /\ importer' = [importer EXCEPT !.ids = importer.ids \ {s}]
      /\ assets' = assets /\ torn' = torn
      /\ Register(s) \/ UNCHANGED rows
  BY DEF ManifestRegistered, Failed
<1>2. s \in Scenarios
  BY DEF ImportTypes
<1>3. /\ RowsGood' /\ \A x \in Scenarios : Keeps(x) /\ (rows'[x] = NoRow => rows[x] = NoRow)
      /\ \A x \in Scenarios \ {s} : rows'[x] = rows[x]
  BY <1>1, <1>2, RegisterRows
<1>4. ImportTypes'
  BY <1>1 DEF ImportTypes
<1>5. importer'.at = "registering" /\ importer'.ids = importer.ids \ {s}
  BY <1>1 DEF ImportTypes
<1>6. Copying' /\ Registering'
  BY <1>1, <1>5 DEF Copying, Registering, Resolves
<1>7. RegisteredManifestsResolve'
  BY <1>1, <1>3 DEF Registering, RegisteredManifestsResolve, Resolves
<1> QED
  BY <1>3, <1>4, <1>6, <1>7

LEMMA ImportEnds == ASSUME ImportGood, ImportStops PROVE ImportGood'
<1> USE DEF ImportGood
<1>1. /\ importer' = [at |-> "rest", release |-> 0, files |-> {}, ids |-> {}]
      /\ rows' = rows /\ assets' = assets /\ torn' = torn
  BY DEF ImportStops, Idle
<1>2. ImportTypes'
  BY <1>1 DEF ImportTypes
<1>3. Copying' /\ Registering' /\ RegisteredManifestsResolve'
  BY <1>1 DEF Copying, Registering, RegisteredManifestsResolve, Resolves
<1> QED
  BY <1>2, <1>3

-----------------------------------------------------------------------------
(* All together. *)

ToolsGood == BackendGood /\ RowsGood /\ PublisherGood /\ ImportGood

LEMMA ToolsGoodTypes == ToolsGood => TypeOK
BY DEF ToolsGood, BackendGood, RowsGood, PublisherGood, PublisherTypes, ImportGood, ImportTypes, TypeOK

LEMMA InitHolds == ASSUME Init PROVE ToolsGood
<1>1. BackendGood
  BY BackendStartAssumption DEF Init, StartInit, BackendGood, StartTypeOK, SchemaGood, KeyGood, Phases
<1>2. [NewRow EXCEPT !.status = "published", !.bytes = "other"] \in Rows
  BY DEF NewRow, NoRow, Rows
<1>3. [NewRow EXCEPT !.status = "published", !.bytes = "other"].status = "published"
  BY DEF NewRow, NoRow
<1>4. /\ NoRow.manifest = FALSE
      /\ [NewRow EXCEPT !.status = "published", !.bytes = "other"].manifest = FALSE
  BY DEF NewRow, NoRow
<1>5. RowsGood
  BY <1>2, <1>3, FirstRows DEF Init, RowsGood
<1>6. NoList \in [Scenarios -> Rows]
  BY FirstRows DEF NoList
<1>7. PublisherGood
  BY <1>6 DEF Init, Rest, PublisherGood, PublisherTypes, Ahead, Underway, Behind
<1>8. \A s \in Scenarios : ~rows[s].manifest
  BY <1>4 DEF Init
<1>9. ImportGood
  BY <1>8 DEF Init, Idle, ImportGood, ImportTypes, Copying, Registering, RegisteredManifestsResolve
<1> QED
  BY <1>1, <1>5, <1>7, <1>9 DEF ToolsGood

LEMMA PublishSteps ==
    ASSUME ToolsGood, Publish
    PROVE  ToolsGood' /\ DeletesOnlyReplaced
<1>1. /\ BackendGood /\ RowsGood /\ PublisherGood /\ ImportGood
  BY DEF ToolsGood
<1>2. UNCHANGED <<backendVars, importVars>>
  BY DEF Publish, PublisherStarts, ArchiveTaken, RowPruned, PublisherCalls, PublisherCallFails,
         PublisherPrunes, PublisherReports, PublisherStops
<1>3. BackendGood'
  BY <1>1, <1>2, BackendSteps
<1>4. ASSUME PublisherGood', rows' = rows PROVE ToolsGood' /\ DeletesOnlyReplaced
  <2>1. RowsGood' /\ ImportGood'
    BY <1>1, <1>2, <1>4, ImportUndisturbed DEF RowsGood
  <2> QED
    BY <1>3, <1>4, <2>1 DEF ToolsGood, DeletesOnlyReplaced, Exists
<1>5. ASSUME NEW s \in Scenarios, Call(s), PublisherGood'
      PROVE  ToolsGood' /\ \A o \in Scenarios \ {s} : rows'[o] = rows[o]
  <2>1. /\ RowsGood' /\ (rows'[s].manifest => rows[s].manifest)
        /\ \A o \in Scenarios \ {s} : rows'[o] = rows[o]
    BY <1>1, <1>5, CallRows
  <2>2. ImportGood'
    BY <1>1, <1>2, <2>1, ImportUndisturbed
  <2> QED
    BY <1>3, <1>5, <2>1, <2>2 DEF ToolsGood
<1>6. CASE PublisherCalls \/ PublisherCallFails
  <2>1. /\ PublisherGood' /\ publisher.at \in {"row", "upload", "move"} /\ Call(publisher.id)
        /\ rows'[publisher.id] # NoRow \/ rows[publisher.id] = NoRow
    BY <1>1, <1>6, CallIsDone, CallFails
  <2>2. publisher.id \in Scenarios
    BY <1>1, <2>1, InHand
  <2> QED
    BY <1>5, <2>1, <2>2 DEF DeletesOnlyReplaced, Exists
<1>7. ASSUME NEW o \in Scenarios, RowPruned(o) PROVE ToolsGood' /\ DeletesOnlyReplaced
  <2>1. PublisherGood' /\ Call(o) /\ o \in ReplacedBy(publisher.done)
    BY <1>1, <1>7, PruneStep
  <2>2. PICK s \in publisher.done : o \in Metadata[s].supersedes
    BY <2>1 DEF ReplacedBy
  <2>3. s \in InRelease /\ (rows[s].bytes = "release" \/ s \in changed)
    BY <1>1, <2>2 DEF PublisherGood, Behind, Result
  <2> QED
    BY <1>5, <2>1, <2>2, <2>3 DEF DeletesOnlyReplaced, Exists
<1> QED
  BY <1>1, <1>4, <1>6, <1>7, PublisherQuietSteps DEF Publish

LEMMA ImportSteps ==
    ASSUME ToolsGood, Import
    PROVE  ToolsGood' /\ DeletesOnlyReplaced
<1>1. BackendGood /\ RowsGood /\ PublisherGood /\ ImportGood
  BY DEF ToolsGood
<1>2. UNCHANGED <<backendVars, publishVars, others>>
  BY DEF Import, ImportStarts, FileCopied, ManifestRegistered, CopyDone, ImportStops
<1>3. ASSUME ImportGood', RowsGood',
             \A x \in Scenarios : Keeps(x) /\ (rows'[x] = NoRow => rows[x] = NoRow)
      PROVE  ToolsGood' /\ DeletesOnlyReplaced
  <2>1. BackendGood'
    BY <1>1, <1>2, BackendSteps
  <2>2. PublisherGood'
    BY <1>1, <1>2, <1>3, PublisherUndisturbed, ReleaseToolsAssumption DEF publishVars, PublisherGood, PublisherTypes
  <2> QED
    BY <1>3, <2>1, <2>2 DEF ToolsGood, DeletesOnlyReplaced, Exists
<1>4. ASSUME ImportGood', rows' = rows PROVE ToolsGood' /\ DeletesOnlyReplaced
  BY <1>1, <1>3, <1>4 DEF Keeps, RowsGood
<1>5. ASSUME NEW r \in Releases, NEW ids \in Readable(r),
             NEW missing \in SUBSET UNION {Objects[r][s] : s \in ids}, ImportStarts(r, ids, missing)
      PROVE  ToolsGood' /\ DeletesOnlyReplaced
  BY <1>1, <1>4, <1>5, ImportBegins DEF ImportStarts
<1>6. ASSUME NEW f \in importer.files, FileCopied(f) PROVE ToolsGood' /\ DeletesOnlyReplaced
  BY <1>1, <1>4, <1>6, FileIsThere DEF FileCopied
<1>7. ASSUME NEW s \in importer.ids, ManifestRegistered(s) PROVE ToolsGood' /\ DeletesOnlyReplaced
  BY <1>1, <1>3, <1>7, RowRegistered
<1>8. CASE CopyDone
  BY <1>1, <1>4, <1>8, CopyEnds DEF CopyDone
<1>9. CASE ImportStops
  BY <1>1, <1>4, <1>9, ImportEnds DEF ImportStops
<1> QED
  BY <1>5, <1>6, <1>7, <1>8, <1>9 DEF Import

LEMMA OthersSteps ==
    ASSUME ToolsGood, NEW s \in Scenarios, OthersChange(s)
    PROVE  ToolsGood' /\ DeletesOnlyReplaced
<1>1. BackendGood /\ RowsGood /\ PublisherGood /\ ImportGood
  BY DEF ToolsGood
<1>2. /\ Call(s) /\ others' = others + 1 /\ changed' = changed \cup {s}
      /\ UNCHANGED <<backendVars, publisher, importVars>>
  BY DEF OthersChange, Call
<1>3. /\ RowsGood' /\ (rows'[s].manifest => rows[s].manifest)
      /\ \A x \in Scenarios \ {s} : rows'[x] = rows[x]
  BY <1>1, <1>2, CallRows
<1>4. BackendGood'
  BY <1>1, <1>2, BackendSteps
<1>5. ImportGood'
  BY <1>1, <1>2, <1>3, ImportUndisturbed
<1>6. changed \subseteq Scenarios /\ others \in Nat /\ InRelease \subseteq Scenarios
  BY <1>1, ReleaseToolsAssumption DEF PublisherGood, PublisherTypes
<1>7. PublisherGood'
  BY <1>1, <1>2, <1>3, <1>6, PublisherUndisturbed DEF Keeps
<1>8. DeletesOnlyReplaced
  BY <1>2, <1>6 DEF DeletesOnlyReplaced
<1> QED
  BY <1>3, <1>4, <1>5, <1>7, <1>8 DEF ToolsGood

LEMMA StepHolds ==
    ASSUME ToolsGood, [Next]_vars
    PROVE  ToolsGood' /\ [DeletesOnlyReplaced]_vars
<1>1. ASSUME StartNext \/ UNCHANGED backendVars, UNCHANGED toolVars
      PROVE  ToolsGood' /\ DeletesOnlyReplaced
  <2>1. BackendGood' /\ UNCHANGED <<rows, publisher, changed, others, importer, assets, torn>>
    BY <1>1, BackendSteps DEF ToolsGood, toolVars, publishVars, importVars
  <2>2. RowsGood' /\ ImportGood'
    BY <2>1, ImportUndisturbed DEF ToolsGood, RowsGood, importVars
  <2>3. PublisherGood'
    BY <2>1, PublisherUndisturbed DEF ToolsGood, Keeps, PublisherGood, PublisherTypes
  <2> QED
    BY <2>1, <2>2, <2>3 DEF ToolsGood, DeletesOnlyReplaced, Exists
<1>2. CASE UNCHANGED vars
  BY <1>1, <1>2 DEF vars
<1> QED
  BY <1>1, <1>2, PublishSteps, ImportSteps, OthersSteps DEF Next

(* The schema, the key, the rows and the store in every reachable state of every instance. *)
THEOREM ToolsInvariance == Spec => [](ToolsGood /\ TypeOK)
BY InitHolds, StepHolds, ToolsGoodTypes, PTL DEF Spec

(* Type correctness of ReleaseTools and of the processes it runs against. *)
THEOREM ToolsTypeCorrect == Spec => []TypeOK
BY ToolsInvariance, PTL

(* server.js listens after its migrations, whichever processes start, fail and exit around it. *)
THEOREM ServedSchemaIsReady == Spec => []SchemaIsReady
<1>1. ToolsGood => SchemaIsReady
  BY DEF ToolsGood, BackendGood, SchemaGood, SchemaIsReady, Todo
<1> QED
  BY <1>1, ToolsInvariance, PTL

(* lti/keys.js: no two processes sign with different tool keys of one volume. *)
THEOREM KeyIsTheFiles == Spec => []OneToolKey
<1>1. ToolsGood => OneToolKey
  BY DEF ToolsGood, BackendGood, KeyGood, OneToolKey
<1> QED
  BY <1>1, ToolsInvariance, PTL

(* publish-release: the OK at the end is true of the catalog. *)
THEOREM OkIsTrue == Spec => []OkMeansPublished
<1>1. ToolsGood => OkMeansPublished
  BY DEF ToolsGood, PublisherGood, Behind, Result, OkMeansPublished
<1> QED
  BY <1>1, ToolsInvariance, PTL

(* publish-release --prune-superseded: no row goes before what replaces it is there. *)
THEOREM PruningIsSafe == Spec => OnlyReplacedRowsAreDeleted
BY InitHolds, StepHolds, PTL DEF Spec, OnlyReplacedRowsAreDeleted

(* import-release-assets: what is registered can be streamed. *)
THEOREM RegisteredIsThere == Spec => []RegisteredManifestsResolve
<1>1. ToolsGood => RegisteredManifestsResolve
  BY DEF ToolsGood, ImportGood
<1> QED
  BY <1>1, ToolsInvariance, PTL

=============================================================================
