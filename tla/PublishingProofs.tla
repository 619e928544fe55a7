-------------------------- MODULE PublishingProofs --------------------------
(***************************************************************************)
(* Proofs about Publishing and the queue in front of it, for every set of  *)
(* scenarios, keys, archives and requests and every bound: the types and   *)
(* the inductive invariant of the core, what its history may grow to, that *)
(* it implements ModeratedCatalog, and what the queue adds.                *)
(***************************************************************************)
EXTENDS ReviewDesk, FiniteSetTheorems, TLAPS

(* Ids the SERIAL has not handed out yet have no row. *)
FreshIds == \A v \in VersionIds : v > lastId => version[v] = NoVersion

Rules == {Transitions.submit, Transitions.withdraw, Transitions.approve,
          Transitions.reject, Transitions.unpublish}

(* The table has the five transitions of workflow.js and no other. *)
LEMMA RulesOfTable ==
    \A action \in DOMAIN Transitions : Transitions[action] \in Rules
  BY DEF Rules, Transitions

(* A rule leads to a status, sets a note exactly when it rejects, and is a *)
(* moderator's when it comes from or leads to `published`.                 *)
LEMMA RuleShape ==
    ASSUME NEW rule \in Rules
    PROVE  /\ rule.to \in Statuses
           /\ rule.from \subseteq Statuses
           /\ rule.note \in {"set", "clear", "keep"}
           /\ rule.note = "set" <=> rule.to = "rejected"
           /\ rule.note = "keep" => rule.from \subseteq {"review", "published"}
           /\ rule.by # "moderator" => rule.to # "published" /\ "published" \notin rule.from
           /\ rule.to # "draft" /\ ~rule.needsVersion => rule.from = {"review"}
  BY DEF Rules, Transitions, Statuses

(* A transition changes the status and the note of a row, nothing else. *)
LEMMA MovedShape ==
    ASSUME NEW rule \in Rules, NEW row \in Row
    PROVE  /\ Moved(row, rule) \in Row
           /\ Moved(row, rule).status = rule.to
           /\ Moved(row, rule).owner = row.owner
           /\ Moved(row, rule).archive = row.archive
           /\ Moved(row, rule).graded = row.graded
           /\ Moved(row, rule).url = row.url
           /\ rule.note = "set" => Moved(row, rule).note
           /\ rule.note = "clear" => ~Moved(row, rule).note
           /\ rule.note = "keep" => Moved(row, rule).note = row.note
<1>1. rule.note \in {"set", "clear", "keep"} /\ rule.to \in Statuses
  BY RuleShape
<1>2. CASE rule.note = "set"
  BY <1>1, <1>2 DEF Moved, Row
<1>3. CASE rule.note = "clear"
  BY <1>1, <1>3 DEF Moved, Row
<1>4. CASE rule.note = "keep"
  BY <1>1, <1>4 DEF Moved, Row
<1>5. QED
  BY <1>1, <1>2, <1>3, <1>4

-----------------------------------------------------------------------------
(* Type correctness *)

(* A new row is a row. *)
LEMMA DraftType ==
    ASSUME NEW p \in Principals, NEW u \in Archives \cup {NoArchive}
    PROVE  DraftOf(p, u) \in Row
  BY DEF DraftOf, NoRow, Row, Statuses

(* So is the absence of one. *)
LEMMA NoRowType == NoRow \in Row
  BY DEF NoRow, Row

(* Pointing a row at an archive keeps it a row. *)
LEMMA PointedAtType ==
    ASSUME NEW row \in Row, NEW a \in Archives
    PROVE  /\ PointedAt(row, a) \in Row
           /\ PointedAt(row, a).status = row.status
           /\ PointedAt(row, a).owner = row.owner
           /\ PointedAt(row, a).note = row.note
           /\ PointedAt(row, a).url = a
           /\ PointedAt(row, a).archive = a
           /\ PointedAt(row, a).graded = (a \in GradedArchives)
<1> DEFINE g == a \in GradedArchives
           pointed == [row EXCEPT !.url = a, !.archive = a, !.graded = g]
<1>1. g \in BOOLEAN
  OBVIOUS
<1>2. PointedAt(row, a) = pointed
  BY DEF PointedAt
<1>3. /\ pointed \in Row
      /\ pointed.status = row.status /\ pointed.owner = row.owner
      /\ pointed.note = row.note /\ pointed.url = a /\ pointed.archive = a
      /\ pointed.graded = g
  <2> HIDE DEF g
  <2> QED
    BY <1>1 DEF Row
<1>4. QED
  BY <1>2, <1>3

(* What RecordAct leaves in letThrough is an archive or nothing. *)
LEMMA RecordActType ==
    ASSUME TypeOK, scenario' \in [Scenarios -> Row],
           NEW p \in Principals, NEW s \in Scenarios, RecordAct(p, s)
    PROVE  letThrough' \in [Scenarios -> Archives \cup {NoArchive}]
  BY DEF TypeOK, RecordAct, Served, Row

(* An upload writes well-typed versions and a well-typed row. *)
LEMMA InstallUploadType ==
    ASSUME TypeOK, NEW row \in Row, NEW s \in Scenarios, NEW p \in Principals,
           NEW a \in Archives, InstallUpload(row, s, p, a)
    PROVE  /\ scenario' \in [Scenarios -> Row]
           /\ version' \in [VersionIds -> VersionRow \cup {NoVersion}]
           /\ lastId' \in 0..MaxVersionId
<1>1. CASE AlreadyThere(row, s, p, a)
  BY <1>1 DEF InstallUpload, TypeOK
<1>2. CASE ~AlreadyThere(row, s, p, a)
  <2>1. PointedAt(row, a) \in Row
    BY PointedAtType
  <2>2. scenario' \in [Scenarios -> Row]
    BY <1>2, <2>1 DEF InstallUpload, TypeOK
  <2>3. lastId' \in 0..MaxVersionId
    BY <1>2, ConstantsAssumption DEF InstallUpload, TypeOK
  <2>4. ASSUME NEW v \in VersionIds
        PROVE  Installed(row, s, p, a)[v] \in VersionRow \cup {NoVersion}
    <3>1. [scn |-> s, archive |-> a, by |-> p, state |-> UploadState(p, row)] \in VersionRow
      BY DEF VersionRow, UploadState
    <3>2. v \in CurrentOf(s) => Archived(v) \in VersionRow
      BY DEF CurrentOf, IsVersion, Archived, TypeOK, VersionRow, NoVersion
    <3>3. version[v] \in VersionRow \cup {NoVersion}
      BY DEF TypeOK
    <3>4. QED
      BY <3>1, <3>2, <3>3 DEF Installed
  <2>5. version' = Installed(row, s, p, a)
    BY <1>2 DEF InstallUpload
  <2>6. QED
    BY <2>2, <2>3, <2>4, <2>5 DEF Installed
<1>3. QED
  BY <1>1, <1>2

(* So does making a version current. *)
LEMMA PromoteType ==
    ASSUME TypeOK, NEW s \in Scenarios, NEW v \in VersionIds, version[v].state # "none",
           Promote(s, v)
    PROVE  /\ scenario' \in [Scenarios -> Row]
           /\ version' \in [VersionIds -> VersionRow \cup {NoVersion}]
<1>1. version[v] \in VersionRow
  BY DEF TypeOK, NoVersion
<1>2. PointedAt(scenario[s], version[v].archive) \in Row
  BY <1>1, PointedAtType DEF TypeOK, VersionRow
<1>3. ASSUME NEW w \in VersionIds
      PROVE  Promoted(s, v)[w] \in VersionRow \cup {NoVersion}
  <2>1. [version[v] EXCEPT !.state = "current"] \in VersionRow
    BY <1>1 DEF VersionRow
  <2>2. w \in CurrentOf(s) => Archived(w) \in VersionRow
    BY DEF CurrentOf, IsVersion, Archived, TypeOK, VersionRow, NoVersion
  <2>3. version[w] \in VersionRow \cup {NoVersion}
    BY DEF TypeOK
  <2>4. QED
    BY <2>1, <2>2, <2>3 DEF Promoted
<1>4. QED
  BY <1>2, <1>3 DEF Promote, Promoted, TypeOK

(* Every step of every route keeps the types. *)
LEMMA TypeOKStep == TypeOK /\ [Next]_vars => TypeOK'
<1> SUFFICES ASSUME TypeOK, [Next]_vars PROVE TypeOK'
  OBVIOUS
<1> USE ConstantsAssumption
<1>1. ASSUME NEW s \in Scenarios, NEW p \in Principals, NEW action \in DOMAIN Transitions,
             ApplyTransition(p, s, action)
      PROVE  TypeOK'
  <2>1. Moved(scenario[s], Transitions[action]) \in Row
    BY RulesOfTable, MovedShape DEF TypeOK
  <2>2. scenario' \in [Scenarios -> Row]
    BY <1>1, <2>1 DEF ApplyTransition, TypeOK
  <2>3. QED
    BY <1>1, <2>2, RecordActType DEF ApplyTransition, TypeOK
<1>2. ASSUME NEW s \in Scenarios, NEW u \in HandUrls \cup {NoArchive}, NEW p \in Principals,
             CreateScenario(p, s, u)
      PROVE  TypeOK'
  <2>1. scenario' \in [Scenarios -> Row]
    BY <1>2, DraftType DEF CreateScenario, TypeOK
  <2>2. QED
    BY <1>2, <2>1, RecordActType DEF CreateScenario, TypeOK
<1>3. ASSUME NEW s \in Scenarios, NEW u \in HandUrls \cup {NoArchive}, NEW m \in Moderators,
             NEW wanted \in {"yes", "no", "unsaid"}, UpdateScenario(m, s, wanted, u)
      PROVE  TypeOK'
  <2>1. PublishedAsAsked(m, s, wanted) \in Row
    <3>1. Transitions.approve \in Rules /\ Transitions.unpublish \in Rules
      BY DEF Rules
    <3>2. QED
      BY <3>1, MovedShape DEF PublishedAsAsked, TypeOK
  <2>2. u # NoArchive => [PublishedAsAsked(m, s, wanted) EXCEPT !.url = u] \in Row
    BY <2>1 DEF Row
  <2>3. scenario' \in [Scenarios -> Row]
    BY <1>3, <2>1, <2>2 DEF UpdateScenario, TypeOK
  <2>4. QED
    BY <1>3, <2>3, RecordActType DEF UpdateScenario, TypeOK, Principals
<1>4. ASSUME NEW s \in Scenarios, NEW m \in Moderators, DeleteScenario(m, s)
      PROVE  TypeOK'
  <2>1. scenario' \in [Scenarios -> Row]
    BY <1>4, NoRowType DEF DeleteScenario, TypeOK
  <2>2. QED
    BY <1>4, <2>1, RecordActType DEF DeleteScenario, TypeOK, Principals
<1>5. ASSUME NEW s \in Scenarios, NEW v \in VersionIds, NEW m \in Moderators,
             Accept(m, s, v) \/ Restore(m, s, v)
      PROVE  TypeOK'
  <2>1. Promote(s, v) /\ RecordAct(m, s) /\ UNCHANGED <<lastId, request>>
        /\ version[v].state # "none"
    BY <1>5 DEF Accept, Restore, IsVersion
  <2>2. QED
    BY <2>1, PromoteType, RecordActType DEF TypeOK, Principals
<1>6. ASSUME NEW s \in Scenarios, NEW v \in VersionIds, NEW p \in Principals,
             RemoveVersion(p, s, v)
      PROVE  TypeOK'
  BY <1>6, RecordActType DEF RemoveVersion, TypeOK
<1>7. ASSUME NEW r \in Requests, NEW p \in Principals, NEW s \in Scenarios, NEW a \in Archives,
             StartUpload(r, p, s, a) \/ StartFromArchive(r, p, s, a)
      PROVE  TypeOK'
  BY <1>7 DEF StartUpload, StartFromArchive, TypeOK, ArchiveRequest
<1>8. ASSUME NEW r \in Requests, FinishUpload(r) \/ FinishFromArchive(r)
      PROVE  TypeOK'
  <2> DEFINE q == request[r]
  <2>1. q \in ArchiveRequest
    BY <1>8 DEF TypeOK, FinishUpload, FinishFromArchive, NoRequest
  <2>2. q.by \in Principals /\ q.scn \in Scenarios /\ q.archive \in Archives
    BY <2>1 DEF ArchiveRequest
  <2>3. PICK row \in Row : InstallUpload(row, q.scn, q.by, q.archive)
    BY <1>8, <2>2, DraftType DEF FinishUpload, FinishFromArchive, TypeOK
  <2>4. /\ request' \in [Requests -> ArchiveRequest \cup {NoRequest}]
        /\ RecordAct(q.by, q.scn)
    BY <1>8 DEF FinishUpload, FinishFromArchive, TypeOK
  <2>5. QED
    BY <2>2, <2>3, <2>4, InstallUploadType, RecordActType DEF TypeOK
<1>9. ASSUME NEW r \in Requests, AbandonRequest(r)
      PROVE  TypeOK'
  BY <1>9 DEF AbandonRequest, TypeOK
<1>10. CASE UNCHANGED vars
  BY <1>10 DEF vars, TypeOK
<1>11. CASE WorkflowNext
  BY <1>1, <1>11 DEF WorkflowNext
<1>12. CASE CatalogNext
  BY <1>2, <1>3, <1>4, <1>12 DEF CatalogNext
<1>13. CASE HistoryNext
  BY <1>5, <1>6, <1>13 DEF HistoryNext, RejectVersion, DeleteVersion, Principals
<1>14. CASE ArchiveNext
  BY <1>7, <1>8, <1>9, <1>14 DEF ArchiveNext
<1>15. QED
  BY <1>10, <1>11, <1>12, <1>13, <1>14 DEF Next

(* An empty database is well typed. *)
LEMMA TypeOKInit == Init => TypeOK
  BY NoRowType, ConstantsAssumption DEF Init, TypeOK

(* Every reachable state is well typed. *)
THEOREM TypeCorrect == Spec => []TypeOK
  BY TypeOKInit, TypeOKStep, PTL DEF Spec

-----------------------------------------------------------------------------
(* Safety: the inductive invariant *)

IInv ==
    /\ TypeOK
    /\ FreshIds
    /\ OneCurrentOnePending
    /\ RowMirrorsCurrent
    /\ NothingShownWithoutArchive
    /\ NoteExplainsRejection
    /\ StudentsSeeWhatModeratorsLetThrough
    /\ VersionsComeFromOwners

(* An empty database satisfies the invariant. *)
LEMMA IInvInit == Init => IInv
<1> SUFFICES ASSUME Init PROVE IInv
  OBVIOUS
<1>1. TypeOK
  BY TypeOKInit
<1>2. FreshIds /\ OneCurrentOnePending /\ VersionsComeFromOwners
  BY DEF Init, FreshIds, OneCurrentOnePending, VersionsComeFromOwners, NoVersion
<1>3. RowMirrorsCurrent /\ NothingShownWithoutArchive /\ NoteExplainsRejection
      /\ StudentsSeeWhatModeratorsLetThrough
  BY DEF Init, RowMirrorsCurrent, NothingShownWithoutArchive, NoteExplainsRejection,
         StudentsSeeWhatModeratorsLetThrough, CurrentOf, IsVersion, NoVersion, NoRow, Served
<1>4. QED
  BY <1>1, <1>2, <1>3 DEF IInv

(***************************************************************************)
(* A step that rewrites the row of s and no version, keeping the row's     *)
(* owner and archive, preserves the invariant if the new status has an     *)
(* archive to stand on, the note follows it, and an author neither takes   *)
(* the row from nor to `published`.                                        *)
(***************************************************************************)
LEMMA RowStep ==
    ASSUME IInv, TypeOK', NEW s \in Scenarios, NEW p \in Principals, NEW row \in Row,
           scenario' = [scenario EXCEPT ![s] = row],
           UNCHANGED <<version, lastId>>, RecordAct(p, s),
           scenario[s].status # "absent", row.status # "absent",
           row.owner = scenario[s].owner, row.archive = scenario[s].archive,
           row.graded = scenario[s].graded,
           row.status \in {"review", "rejected", "published"} => CurrentOf(s) # {},
           row.note <=> row.status = "rejected",
           ~IsModerator(p) => Served(row) = Served(scenario[s])
    PROVE  IInv'
<1>1. \A t \in Scenarios : scenario'[t] = IF t = s THEN row ELSE scenario[t]
  BY DEF IInv, TypeOK
<1>2. \A t \in Scenarios : CurrentOf(t)' = CurrentOf(t)
  BY DEF CurrentOf, IsVersion
<1>3. FreshIds' /\ OneCurrentOnePending' /\ VersionsComeFromOwners'
  BY <1>1 DEF IInv, TypeOK, VersionRow, NoVersion, FreshIds, OneCurrentOnePending,
              VersionsComeFromOwners, MayEdit
<1>4. RowMirrorsCurrent'
  BY <1>1, <1>2 DEF IInv, RowMirrorsCurrent
<1>5. NothingShownWithoutArchive' /\ NoteExplainsRejection'
  BY <1>1, <1>2 DEF IInv, NothingShownWithoutArchive, NoteExplainsRejection
<1>6. StudentsSeeWhatModeratorsLetThrough'
  BY <1>1 DEF IInv, TypeOK, StudentsSeeWhatModeratorsLetThrough, RecordAct
<1>7. QED
  BY <1>3, <1>4, <1>5, <1>6 DEF IInv

(* A row that comes into being as a draft, or goes with all its versions. *)
LEMMA NewRowStep ==
    ASSUME IInv, TypeOK', NEW s \in Scenarios, NEW p \in Principals,
           NEW u \in Archives \cup {NoArchive}, CreateScenario(p, s, u)
    PROVE  IInv'
<1> DEFINE row == DraftOf(p, u)
<1>1. /\ row.status = "draft" /\ ~row.note /\ ~row.graded /\ row.archive = NoArchive
      /\ Served(row) = NoArchive
  BY DEF DraftOf, NoRow, Served
<1>2. scenario[s].status = "absent" /\ Served(scenario[s]) = NoArchive
  BY DEF CreateScenario, Served
<1>3. \A t \in Scenarios : scenario'[t] = IF t = s THEN row ELSE scenario[t]
  BY DEF IInv, TypeOK, CreateScenario
<1>4. \A t \in Scenarios : CurrentOf(t)' = CurrentOf(t)
  BY DEF CurrentOf, IsVersion, CreateScenario
<1>5. \A v \in VersionIds : version[v].state # "none" => version[v].scn \in Scenarios \ {s}
  BY <1>2 DEF IInv, TypeOK, VersionRow, NoVersion, OneCurrentOnePending
<1>6. CurrentOf(s) = {}
  BY <1>5 DEF CurrentOf, IsVersion
<1> HIDE DEF row
<1>7. FreshIds' /\ OneCurrentOnePending' /\ VersionsComeFromOwners'
  BY <1>3, <1>5 DEF IInv, TypeOK, FreshIds, OneCurrentOnePending,
              VersionsComeFromOwners, MayEdit, CreateScenario
<1>8. RowMirrorsCurrent'
  BY <1>1, <1>3, <1>4, <1>6 DEF IInv, RowMirrorsCurrent, CreateScenario
<1>9. NothingShownWithoutArchive' /\ NoteExplainsRejection'
  BY <1>1, <1>3, <1>4 DEF IInv, NothingShownWithoutArchive, NoteExplainsRejection
<1>10. StudentsSeeWhatModeratorsLetThrough'
  BY <1>1, <1>2, <1>3 DEF IInv, TypeOK, StudentsSeeWhatModeratorsLetThrough, RecordAct, CreateScenario
<1>11. QED
  BY <1>7, <1>8, <1>9, <1>10 DEF IInv

(* A deleted row goes with its versions, which the cascade removes. *)
LEMMA DeleteStep ==
    ASSUME IInv, TypeOK', NEW s \in Scenarios, NEW m \in Moderators, DeleteScenario(m, s)
    PROVE  IInv'
<1>1. NoRow.status = "absent" /\ ~NoRow.note /\ ~NoRow.graded /\ NoRow.archive = NoArchive
  BY DEF NoRow
<1>2. \A t \in Scenarios : scenario'[t] = IF t = s THEN NoRow ELSE scenario[t]
  BY DEF IInv, TypeOK, DeleteScenario
<1>3. \A v \in VersionIds :
         /\ version[v].state # "none" /\ version[v].scn = s => version'[v].state = "none"
         /\ ~(version[v].state # "none" /\ version[v].scn = s) => version'[v] = version[v]
         /\ version'[v].state = "none" => version'[v] = NoVersion
  BY DEF IInv, TypeOK, DeleteScenario, VersionsOf, NoVersion, VersionRow
<1>4. /\ CurrentOf(s)' = {}
      /\ \A t \in Scenarios \ {s} :
            /\ CurrentOf(t)' = CurrentOf(t)
            /\ \A v \in CurrentOf(t) : version'[v] = version[v]
  BY <1>3 DEF CurrentOf, IsVersion
<1>5. FreshIds'
  <2>1. \A v \in VersionIds : version[v] = NoVersion => version'[v] = NoVersion
    BY <1>3 DEF NoVersion
  <2>2. lastId' = lastId
    BY DEF DeleteScenario
  <2>3. QED
    BY <2>1, <2>2 DEF IInv, FreshIds
<1>6. OneCurrentOnePending' /\ VersionsComeFromOwners'
  BY <1>2, <1>3 DEF IInv, TypeOK, VersionRow, NoVersion, OneCurrentOnePending,
                    VersionsComeFromOwners, MayEdit
<1>7. RowMirrorsCurrent'
  BY <1>1, <1>2, <1>4 DEF IInv, RowMirrorsCurrent
<1>8. NothingShownWithoutArchive' /\ NoteExplainsRejection'
  BY <1>1, <1>2, <1>4 DEF IInv, NothingShownWithoutArchive, NoteExplainsRejection
<1>9. StudentsSeeWhatModeratorsLetThrough'
  BY <1>2 DEF IInv, TypeOK, StudentsSeeWhatModeratorsLetThrough, RecordAct, IsModerator, DeleteScenario
<1>10. QED
  BY <1>5, <1>6, <1>7, <1>8, <1>9 DEF IInv

(***************************************************************************)
(* An upload that adds a version.  row is the locked row of s: the one in  *)
(* the table, or the draft that from-archive inserts in the same step.     *)
(***************************************************************************)
LEMMA InstallStep ==
    ASSUME IInv, TypeOK', NEW s \in Scenarios, NEW p \in Principals, NEW row \in Row,
           NEW a \in Archives, InstallUpload(row, s, p, a), RecordAct(p, s),
           ~AlreadyThere(row, s, p, a),
           row.status \in {"draft", "rejected", "published"},
           MayEdit(p, row),
           row.note <=> row.status = "rejected",
           \/ row = scenario[s]
           \/ /\ scenario[s].status = "absent"
              /\ row.archive = NoArchive /\ ~row.graded /\ row.status = "draft"
    PROVE  IInv'
<1> DEFINE n == lastId + 1
           st == UploadState(p, row)
           new == [scn |-> s, archive |-> a, by |-> p, state |-> st]
           after == IF st = "current" THEN PointedAt(row, a) ELSE row
<1>1. n \in VersionIds /\ version[n] = NoVersion /\ lastId' = n
  BY ConstantsAssumption DEF InstallUpload, IInv, TypeOK, VersionIds, FreshIds
<1>2. st \in {"current", "pending"}
  BY DEF UploadState
<1>3. st = "pending" => row = scenario[s] /\ row.status = "published" /\ ~IsModerator(p)
  BY DEF UploadState
<1>4. st = "current" => row.status # "published" \/ IsModerator(p)
  BY DEF UploadState
<1>5. /\ version' \in [VersionIds -> VersionRow \cup {NoVersion}]
      /\ version'[n] = new
      /\ \A v \in VersionIds \ {n} :
            /\ v \in DroppedBy(row, s, p) => version'[v] = NoVersion
            /\ v \notin DroppedBy(row, s, p) /\ v \in CurrentOf(s) /\ st = "current"
                 => version'[v] = Archived(v)
            /\ v \notin DroppedBy(row, s, p) /\ ~(v \in CurrentOf(s) /\ st = "current")
                 => version'[v] = version[v]
  <2>1. version' = Installed(row, s, p, a)
    BY DEF InstallUpload
  <2>2. version' \in [VersionIds -> VersionRow \cup {NoVersion}]
    BY DEF TypeOK
  <2>3. DroppedBy(row, s, p) \cap CurrentOf(s) = {}
    BY DEF DroppedBy, PendingOf, CurrentOf, IsVersion
  <2>4. QED
    BY <1>1, <2>1, <2>2, <2>3 DEF Installed
<1>6. /\ DroppedBy(row, s, p) \subseteq PendingOf(s)
      /\ st = "pending" => DroppedBy(row, s, p) = PendingOf(s)
      /\ n \notin PendingOf(s) /\ n \notin CurrentOf(s)
      /\ PendingOf(s) \cap CurrentOf(s) = {}
  BY <1>1, <1>3 DEF DroppedBy, PendingOf, CurrentOf, IsVersion, NoVersion
<1>7. /\ \A t \in Scenarios : scenario'[t] = IF t = s THEN after ELSE scenario[t]
      /\ after \in Row
      /\ after.status = row.status /\ after.owner = row.owner /\ after.note = row.note
  BY PointedAtType DEF InstallUpload, IInv, TypeOK
<1>8. st = "current" => /\ after.archive = a
                        /\ after.graded = (a \in GradedArchives)
                        /\ after.url = a
  BY PointedAtType
<1>9. \A v \in VersionIds : v \in CurrentOf(s) => Archived(v) =
         [scn |-> s, archive |-> version[v].archive, by |-> version[v].by, state |-> "archived"]
  BY DEF CurrentOf, IsVersion, Archived, IInv, TypeOK, VersionRow, NoVersion
<1>10. \A v \in VersionIds : version[v].state # "none" /\ version[v].scn = s
          => row = scenario[s]
  BY DEF IInv, OneCurrentOnePending
<1>11. \A v \in VersionIds \ {n} : version'[v].state # "none"
          => /\ version[v].state # "none"
             /\ version'[v].scn = version[v].scn
             /\ version'[v].archive = version[v].archive
             /\ version'[v].by = version[v].by
             /\ version'[v].state = IF v \in CurrentOf(s) /\ st = "current"
                                    THEN "archived" ELSE version[v].state
  BY <1>5, <1>9 DEF NoVersion, CurrentOf, IsVersion
<1>12. FreshIds'
  BY <1>1, <1>5, <1>6 DEF IInv, TypeOK, FreshIds, VersionIds, PendingOf, CurrentOf,
                          IsVersion, NoVersion
<1>13. \A t \in Scenarios \ {s} :
          /\ CurrentOf(t)' = CurrentOf(t)
          /\ \A v \in CurrentOf(t) : version'[v] = version[v]
  <2>1. \A t \in Scenarios \ {s}, v \in VersionIds : version[v].state # "none" /\ version[v].scn = t
           => v # n /\ version'[v] = version[v]
    BY <1>1, <1>5, <1>6 DEF PendingOf, CurrentOf, IsVersion, NoVersion
  <2>2. \A t \in Scenarios \ {s}, v \in VersionIds : version'[v].state # "none" /\ version'[v].scn = t
           => version[v].state # "none" /\ version[v].scn = t
    BY <1>5, <1>11
  <2>3. QED
    BY <2>1, <2>2 DEF CurrentOf, IsVersion
<1>14. CurrentOf(s)' = IF st = "current" THEN {n} ELSE CurrentOf(s)
  BY <1>1, <1>2, <1>5, <1>6, <1>11 DEF CurrentOf, IsVersion, NoVersion
<1>15. st = "pending" => \A v \in CurrentOf(s) : version'[v] = version[v]
  <2> SUFFICES ASSUME st = "pending", NEW v \in CurrentOf(s) PROVE version'[v] = version[v]
    OBVIOUS
  <2>1. v \in VersionIds \ {n} /\ v \notin DroppedBy(row, s, p)
    BY <1>6 DEF CurrentOf
  <2>2. QED
    BY <1>5, <2>1
<1>16. PendingOf(s)' \subseteq IF st = "pending" THEN {n} ELSE PendingOf(s)
  BY <1>1, <1>2, <1>5, <1>6, <1>11 DEF PendingOf, CurrentOf, IsVersion, NoVersion
<1> HIDE DEF n, after, st
<1>17. OneCurrentOnePending'
  <2> SUFFICES ASSUME NEW v \in VersionIds, NEW w \in VersionIds, version'[v].state # "none"
               PROVE  /\ scenario'[version'[v].scn].status # "absent"
                      /\ version'[w].state = version'[v].state /\ version'[w].scn = version'[v].scn
                         /\ version'[v].state \in {"current", "pending"} => v = w
    BY DEF OneCurrentOnePending
  <2>1. scenario'[version'[v].scn].status # "absent"
    <3>1. CASE v = n
      BY <3>1, <1>5, <1>7
    <3>2. CASE v # n
      BY <3>2, <1>7, <1>11 DEF IInv, TypeOK, VersionRow, NoVersion, OneCurrentOnePending
    <3>3. QED
      BY <3>1, <3>2
  <2>2. ASSUME version'[w].state = version'[v].state, version'[w].scn = version'[v].scn,
               version'[v].state \in {"current", "pending"}
        PROVE  v = w
    <3>1. version'[v].scn \in Scenarios
      BY <1>5 DEF VersionRow, NoVersion
    <3>2. CASE version'[v].scn # s
      <4>1. v # n /\ w # n
        BY <2>2, <3>2, <1>5
      <4>2. QED
        BY <2>2, <3>2, <4>1, <1>11 DEF IInv, OneCurrentOnePending, CurrentOf, IsVersion
    <3>3. CASE version'[v].scn = s /\ version'[v].state = "current"
      <4>1. v \in CurrentOf(s)' /\ w \in CurrentOf(s)'
        BY <2>2, <3>3 DEF CurrentOf, IsVersion
      <4>2. QED
        BY <4>1, <1>14 DEF CurrentOf, IsVersion, IInv, OneCurrentOnePending
    <3>4. CASE version'[v].scn = s /\ version'[v].state = "pending"
      <4>1. v \in PendingOf(s)' /\ w \in PendingOf(s)'
        BY <2>2, <3>4 DEF PendingOf, IsVersion
      <4>2. QED
        BY <4>1, <1>16 DEF PendingOf, IsVersion, IInv, OneCurrentOnePending
    <3>5. QED
      BY <2>2, <3>1, <3>2, <3>3, <3>4
  <2>3. QED
    BY <2>1, <2>2
<1>18. RowMirrorsCurrent'
  <2> SUFFICES ASSUME NEW t \in Scenarios
               PROVE  /\ \A v \in CurrentOf(t)' :
                            /\ scenario'[t].archive = version'[v].archive
                            /\ scenario'[t].graded = (version'[v].archive \in GradedArchives)
                      /\ CurrentOf(t)' = {} => scenario'[t].archive = NoArchive /\ ~scenario'[t].graded
    BY DEF RowMirrorsCurrent
  <2>1. CASE t # s
    BY <2>1, <1>7, <1>13 DEF IInv, RowMirrorsCurrent
  <2>2. CASE t = s /\ st = "current"
    BY <2>2, <1>1, <1>5, <1>7, <1>8, <1>14
  <2>3. CASE t = s /\ st = "pending"
    <3>1. scenario'[s] = scenario[s]
      BY <2>3, <1>3, <1>7 DEF after
    <3>2. QED
      BY <2>3, <3>1, <1>14, <1>15 DEF IInv, RowMirrorsCurrent
  <2>4. QED
    BY <2>1, <2>2, <2>3, <1>2
<1>19. NothingShownWithoutArchive'
  <2> SUFFICES ASSUME NEW t \in Scenarios,
                      scenario'[t].status \in {"review", "rejected", "published"}
               PROVE  CurrentOf(t)' # {}
    BY DEF NothingShownWithoutArchive
  <2>1. CASE t # s
    BY <2>1, <1>7, <1>13 DEF IInv, NothingShownWithoutArchive
  <2>2. CASE t = s
    BY <2>2, <1>2, <1>3, <1>7, <1>14 DEF IInv, NothingShownWithoutArchive
  <2>3. QED
    BY <2>1, <2>2
<1>20. NoteExplainsRejection'
  BY <1>7 DEF IInv, NoteExplainsRejection
<1>21. StudentsSeeWhatModeratorsLetThrough'
  <2>1. ~IsModerator(p) => Served(after) = Served(scenario[s])
    <3>1. CASE st = "pending"
      BY <3>1, <1>3 DEF after
    <3>2. CASE st = "current" /\ ~IsModerator(p)
      BY <3>2, <1>4, <1>7 DEF Served
    <3>3. QED
      BY <3>1, <3>2, <1>2
  <2>2. QED
    BY <2>1, <1>7 DEF IInv, TypeOK, StudentsSeeWhatModeratorsLetThrough, RecordAct
<1>22. VersionsComeFromOwners'
  <2> SUFFICES ASSUME NEW v \in VersionIds, version'[v].state # "none"
               PROVE  /\ MayEdit(version'[v].by, scenario'[version'[v].scn])
                      /\ version'[v].state = "pending" => ~IsModerator(version'[v].by)
    BY DEF VersionsComeFromOwners, MayEdit, IsModerator
  <2>1. CASE v = n
    BY <2>1, <1>3, <1>5, <1>7 DEF MayEdit
  <2>2. CASE v # n
    BY <2>2, <1>7, <1>10, <1>11 DEF IInv, TypeOK, VersionRow, NoVersion, VersionsComeFromOwners, MayEdit
  <2>3. QED
    BY <2>1, <2>2
<1>23. QED
  BY <1>12, <1>17, <1>18, <1>19, <1>20, <1>21, <1>22 DEF IInv

(* A moderator makes a pending or an archived version current. *)
LEMMA PromoteStep ==
    ASSUME IInv, TypeOK', NEW s \in Scenarios, NEW v \in VersionIds, NEW m \in Moderators,
           IsVersion(s, v, "pending") \/ IsVersion(s, v, "archived"),
           Promote(s, v), RecordAct(m, s), UNCHANGED lastId
    PROVE  IInv'
<1> DEFINE a == version[v].archive
<1>1. /\ version[v] \in VersionRow /\ version[v].scn = s /\ version[v].state # "none"
      /\ version[v].state # "current" /\ a \in Archives
  BY DEF IsVersion, IInv, TypeOK, VersionRow, NoVersion
<1>2. scenario[s].status # "absent"
  BY <1>1 DEF IInv, OneCurrentOnePending
<1>3. /\ version'[v] = [version[v] EXCEPT !.state = "current"]
      /\ \A w \in VersionIds \ {v} : version'[w] = IF w \in CurrentOf(s) THEN Archived(w) ELSE version[w]
  BY DEF Promote, Promoted
<1>4. \A w \in VersionIds : version'[w].state # "none"
         => /\ version[w].state # "none"
            /\ version'[w].scn = version[w].scn
            /\ version'[w].archive = version[w].archive
            /\ version'[w].by = version[w].by
            /\ version'[w].state = IF w = v THEN "current"
                                   ELSE IF w \in CurrentOf(s) THEN "archived" ELSE version[w].state
  <2> SUFFICES ASSUME NEW w \in VersionIds, version'[w].state # "none"
               PROVE  /\ version[w].state # "none"
                      /\ version'[w].scn = version[w].scn
                      /\ version'[w].archive = version[w].archive
                      /\ version'[w].by = version[w].by
                      /\ version'[w].state = IF w = v THEN "current"
                                   ELSE IF w \in CurrentOf(s) THEN "archived" ELSE version[w].state
    OBVIOUS
  <2>1. CASE w = v
    BY <2>1, <1>1, <1>3 DEF VersionRow
  <2>2. CASE w # v /\ w \in CurrentOf(s)
    <3>1. version[w] \in VersionRow
      BY <2>2 DEF CurrentOf, IsVersion, IInv, TypeOK, NoVersion
    <3>2. QED
      BY <2>2, <3>1, <1>3 DEF Archived, VersionRow, CurrentOf, IsVersion
  <2>3. CASE w # v /\ w \notin CurrentOf(s)
    BY <2>3, <1>3
  <2>4. QED
    BY <2>1, <2>2, <2>3
<1>5. /\ \A t \in Scenarios : scenario'[t] = IF t = s THEN PointedAt(scenario[s], a) ELSE scenario[t]
      /\ PointedAt(scenario[s], a).status = scenario[s].status
      /\ PointedAt(scenario[s], a).owner = scenario[s].owner
      /\ PointedAt(scenario[s], a).note = scenario[s].note
      /\ PointedAt(scenario[s], a).archive = a
      /\ PointedAt(scenario[s], a).graded = (a \in GradedArchives)
  BY <1>1, PointedAtType DEF Promote, IInv, TypeOK
<1>6. CurrentOf(s)' = {v} /\ version'[v].archive = a
  BY <1>1, <1>3, <1>4 DEF CurrentOf, IsVersion, VersionRow
<1>7. \A t \in Scenarios \ {s} :
         /\ CurrentOf(t)' = CurrentOf(t)
         /\ \A w \in CurrentOf(t) : version'[w] = version[w]
  BY <1>1, <1>3, <1>4 DEF CurrentOf, IsVersion
<1>8. FreshIds'
  <2>1. \A w \in VersionIds : version[w] = NoVersion => version'[w] = NoVersion
    BY <1>1, <1>3 DEF NoVersion, CurrentOf, IsVersion
  <2>2. QED
    BY <2>1 DEF IInv, FreshIds
<1>9. OneCurrentOnePending'
  <2> SUFFICES ASSUME NEW x \in VersionIds, NEW w \in VersionIds, version'[x].state # "none"
               PROVE  /\ scenario'[version'[x].scn].status # "absent"
                      /\ version'[w].state = version'[x].state /\ version'[w].scn = version'[x].scn
                         /\ version'[x].state \in {"current", "pending"} => x = w
    BY DEF OneCurrentOnePending
  <2>1. scenario'[version'[x].scn].status # "absent"
    BY <1>2, <1>4, <1>5 DEF IInv, TypeOK, VersionRow, NoVersion, OneCurrentOnePending
  <2>2. ASSUME version'[w].state = version'[x].state, version'[w].scn = version'[x].scn,
               version'[x].state \in {"current", "pending"}
        PROVE  x = w
    <3>1. CASE version'[x].scn = s /\ version'[x].state = "current"
      <4>1. x \in CurrentOf(s)' /\ w \in CurrentOf(s)'
        BY <2>2, <3>1 DEF CurrentOf, IsVersion
      <4>2. QED
        BY <4>1, <1>6
    <3>2. CASE version'[x].state = "pending"
      <4>1. version[x].state = "pending" /\ version[w].state = "pending"
        BY <2>2, <3>2, <1>4
      <4>2. QED
        BY <2>2, <4>1, <1>4 DEF IInv, OneCurrentOnePending
    <3>3. CASE version'[x].scn # s /\ version'[x].state = "current"
      <4>1. version[x].state = "current" /\ version[w].state = "current"
        BY <2>2, <3>3, <1>1, <1>4
      <4>2. QED
        BY <2>2, <4>1, <1>4 DEF IInv, OneCurrentOnePending
    <3>4. QED
      BY <2>2, <3>1, <3>2, <3>3
  <2>3. QED
    BY <2>1, <2>2
<1>10. RowMirrorsCurrent'
  <2> SUFFICES ASSUME NEW t \in Scenarios
               PROVE  /\ \A w \in CurrentOf(t)' :
                            /\ scenario'[t].archive = version'[w].archive
                            /\ scenario'[t].graded = (version'[w].archive \in GradedArchives)
                      /\ CurrentOf(t)' = {} => scenario'[t].archive = NoArchive /\ ~scenario'[t].graded
    BY DEF RowMirrorsCurrent
  <2>1. CASE t # s
    BY <2>1, <1>5, <1>7 DEF IInv, RowMirrorsCurrent
  <2>2. CASE t = s
    BY <2>2, <1>5, <1>6
  <2>3. QED
    BY <2>1, <2>2
<1>11. NothingShownWithoutArchive' /\ NoteExplainsRejection'
  BY <1>5, <1>6, <1>7 DEF IInv, NothingShownWithoutArchive, NoteExplainsRejection
<1>12. StudentsSeeWhatModeratorsLetThrough'
  BY <1>5 DEF IInv, TypeOK, StudentsSeeWhatModeratorsLetThrough, RecordAct, IsModerator
<1>13. VersionsComeFromOwners'
  BY <1>4, <1>5 DEF IInv, TypeOK, VersionRow, NoVersion, VersionsComeFromOwners, MayEdit
<1>14. QED
  BY <1>8, <1>9, <1>10, <1>11, <1>12, <1>13 DEF IInv

(* A version that is not the current one is removed. *)
LEMMA RemoveStep ==
    ASSUME IInv, TypeOK', NEW s \in Scenarios, NEW v \in VersionIds, NEW p \in Principals,
           IsVersion(s, v, "pending") \/ IsVersion(s, v, "archived"),
           RemoveVersion(p, s, v)
    PROVE  IInv'
<1>1. /\ version'[v] = NoVersion
      /\ \A w \in VersionIds \ {v} : version'[w] = version[w]
      /\ scenario' = scenario /\ lastId' = lastId
  BY DEF RemoveVersion, IInv, TypeOK
<1>2. \A t \in Scenarios :
         /\ CurrentOf(t)' = CurrentOf(t)
         /\ \A w \in CurrentOf(t) : version'[w] = version[w]
  BY <1>1 DEF CurrentOf, IsVersion, NoVersion
<1>3. FreshIds'
  BY <1>1 DEF IInv, FreshIds
<1>4. OneCurrentOnePending' /\ VersionsComeFromOwners'
  BY <1>1 DEF IInv, NoVersion, OneCurrentOnePending, VersionsComeFromOwners, MayEdit
<1>5. RowMirrorsCurrent' /\ NothingShownWithoutArchive' /\ NoteExplainsRejection'
  BY <1>1, <1>2 DEF IInv, RowMirrorsCurrent, NothingShownWithoutArchive, NoteExplainsRejection
<1>6. StudentsSeeWhatModeratorsLetThrough'
  BY <1>1 DEF IInv, TypeOK, StudentsSeeWhatModeratorsLetThrough, RecordAct, RemoveVersion
<1>7. QED
  BY <1>3, <1>4, <1>5, <1>6 DEF IInv

(* The five transitions, by themselves or as isPublished of a PUT. *)
LEMMA MoveStep ==
    ASSUME IInv, TypeOK', NEW s \in Scenarios, NEW p \in Principals, NEW rule \in Rules,
           NEW u \in Archives \cup {NoArchive},
           scenario' = [scenario EXCEPT ![s] = IF u = NoArchive THEN Moved(@, rule)
                                               ELSE [Moved(@, rule) EXCEPT !.url = u]],
           u # NoArchive => IsModerator(p),
           rule.by = "moderator" => IsModerator(p),
           scenario[s].status \in rule.from,
           rule.needsVersion => CurrentOf(s) # {},
           UNCHANGED <<version, lastId>>, RecordAct(p, s)
    PROVE  IInv'
<1> DEFINE moved == Moved(scenario[s], rule)
           row == IF u = NoArchive THEN moved ELSE [moved EXCEPT !.url = u]
<1>1. scenario[s] \in Row /\ scenario[s].status # "absent"
  BY RuleShape DEF IInv, TypeOK, Statuses
<1>2. /\ moved \in Row
      /\ moved.status = rule.to /\ moved.owner = scenario[s].owner
      /\ moved.archive = scenario[s].archive /\ moved.graded = scenario[s].graded
      /\ moved.url = scenario[s].url
      /\ rule.note = "set" => moved.note
      /\ rule.note = "clear" => ~moved.note
      /\ rule.note = "keep" => moved.note = scenario[s].note
  BY <1>1, MovedShape
<1>3. scenario' = [scenario EXCEPT ![s] = row]
  BY DEF IInv, TypeOK
<1> HIDE DEF moved
<1>4. /\ row \in Row
      /\ row.status = rule.to /\ row.owner = scenario[s].owner
      /\ row.archive = scenario[s].archive /\ row.graded = scenario[s].graded
      /\ row.note = moved.note
      /\ ~IsModerator(p) => row.url = scenario[s].url
  BY <1>2 DEF Row
<1> HIDE DEF row
<1>5. row.status \in Statuses /\ row.status # "absent"
  BY <1>4, RuleShape DEF Statuses
<1>6. row.status \in {"review", "rejected", "published"} => CurrentOf(s) # {}
  BY <1>4, RuleShape DEF IInv, NothingShownWithoutArchive
<1>7. row.note <=> row.status = "rejected"
  <2>1. scenario[s].note <=> scenario[s].status = "rejected"
    BY DEF IInv, NoteExplainsRejection
  <2>2. CASE rule.note = "set"
    BY <2>2, <1>2, <1>4, RuleShape
  <2>3. CASE rule.note = "clear"
    BY <2>3, <1>2, <1>4, RuleShape
  <2>4. CASE rule.note = "keep"
    BY <2>1, <2>4, <1>2, <1>4, RuleShape
  <2>5. QED
    BY <2>2, <2>3, <2>4, RuleShape
<1>8. ~IsModerator(p) => Served(row) = Served(scenario[s])
  BY <1>4, RuleShape DEF Served
<1>9. QED
  BY <1>1, <1>3, <1>4, <1>5, <1>6, <1>7, <1>8, RowStep

(* The routes that receive an archive, at their transaction. *)
LEMMA FinishStep ==
    ASSUME IInv, TypeOK', NEW r \in Requests, FinishUpload(r) \/ FinishFromArchive(r)
    PROVE  IInv'
<1> DEFINE q == request[r]
           s == q.scn
           p == q.by
           a == q.archive
<1>1. s \in Scenarios /\ p \in Principals /\ a \in Archives
  BY DEF IInv, TypeOK, FinishUpload, FinishFromArchive, ArchiveRequest, NoRequest
<1>2. RecordAct(p, s)
  BY DEF FinishUpload, FinishFromArchive
<1>3. CASE FinishUpload(r)
  <2> DEFINE row == scenario[s]
  <2>1. /\ InstallUpload(row, s, p, a) /\ MayEdit(p, row)
        /\ row \in Row /\ row.status \in {"draft", "rejected", "published"}
        /\ row.note <=> row.status = "rejected"
    BY <1>1, <1>3 DEF FinishUpload, MayInstall, IInv, TypeOK, NoteExplainsRejection, Row, Statuses
  <2>2. CASE AlreadyThere(row, s, p, a)
    <3>1. scenario' = [scenario EXCEPT ![s] = row] /\ UNCHANGED <<version, lastId>>
      BY <2>1, <2>2 DEF InstallUpload
    <3>2. row.status \in {"review", "rejected", "published"} => CurrentOf(s) # {}
      BY <1>1 DEF IInv, NothingShownWithoutArchive
    <3>3. QED
      BY <1>1, <1>2, <2>1, <3>1, <3>2, RowStep
  <2>3. CASE ~AlreadyThere(row, s, p, a)
    <3> HIDE DEF s, p, a
    <3>1. QED
      BY <1>1, <1>2, <2>1, <2>3, InstallStep
  <2>4. QED
    BY <2>2, <2>3
<1>4. CASE FinishFromArchive(r)
  <2> DEFINE row == DraftOf(p, NoArchive)
  <2>1. InstallUpload(row, s, p, a) /\ scenario[s].status = "absent"
    BY <1>4 DEF FinishFromArchive
  <2>2. /\ row \in Row /\ row.status = "draft" /\ ~row.note /\ ~row.graded
        /\ row.archive = NoArchive /\ MayEdit(p, row)
    BY <1>1, DraftType DEF DraftOf, NoRow, MayEdit
  <2>3. ~AlreadyThere(row, s, p, a)
    <3>1. CurrentOf(s) = {}
      BY <1>1, <2>1 DEF IInv, OneCurrentOnePending, CurrentOf, IsVersion
    <3>2. UploadState(p, row) = "current"
      BY <2>2 DEF UploadState
    <3>3. QED
      BY <3>1, <3>2 DEF AlreadyThere
  <2> HIDE DEF row, s, p, a
  <2>4. QED
    BY <1>1, <1>2, <2>1, <2>2, <2>3, InstallStep
<1>5. QED
  BY <1>3, <1>4

(* Every step of every route preserves the invariant. *)
LEMMA IInvStep == IInv /\ [Next]_vars => IInv'
<1> SUFFICES ASSUME IInv, [Next]_vars PROVE IInv'
  OBVIOUS
<1>1. TypeOK'
  BY TypeOKStep DEF IInv
<1>2. ASSUME NEW s \in Scenarios, NEW p \in Principals, NEW action \in DOMAIN Transitions,
             ApplyTransition(p, s, action)
      PROVE  IInv'
  <2> DEFINE rule == Transitions[action]
  <2>1. rule \in Rules
    BY RulesOfTable
  <2>2. /\ scenario' = [scenario EXCEPT ![s] = Moved(@, rule)]
        /\ MayMove(p, s, rule) /\ RecordAct(p, s) /\ UNCHANGED <<version, lastId>>
    BY <1>2 DEF ApplyTransition
  <2> HIDE DEF rule
  <2>3. QED
    BY <1>1, <2>1, <2>2, MoveStep DEF MayMove
<1>3. ASSUME NEW s \in Scenarios, NEW u \in HandUrls \cup {NoArchive}, NEW p \in Principals,
             CreateScenario(p, s, u)
      PROVE  IInv'
  BY <1>1, <1>3, NewRowStep, ConstantsAssumption
<1>4. ASSUME NEW s \in Scenarios, NEW u \in HandUrls \cup {NoArchive}, NEW m \in Moderators,
             NEW wanted \in {"yes", "no", "unsaid"}, UpdateScenario(m, s, wanted, u)
      PROVE  IInv'
  <2>1. /\ u \in Archives \cup {NoArchive} /\ m \in Principals /\ IsModerator(m)
        /\ RecordAct(m, s) /\ UNCHANGED <<version, lastId>>
    BY <1>4, ConstantsAssumption DEF UpdateScenario, Principals, IsModerator
  <2>2. /\ Transitions.approve \in Rules /\ Transitions.unpublish \in Rules
        /\ Transitions.unpublish.from = {"published"} /\ ~Transitions.unpublish.needsVersion
        /\ Transitions.approve.from = {"review", "draft", "rejected"}
    BY DEF Rules, Transitions
  <2>3. /\ scenario[s] \in Row /\ scenario[s].status \in Statuses
        /\ scenario[s].note <=> scenario[s].status = "rejected"
        /\ scenario[s].status \in {"review", "rejected", "published"} => CurrentOf(s) # {}
    BY <1>4 DEF IInv, TypeOK, UpdateScenario, Row, NoteExplainsRejection, NothingShownWithoutArchive
  <2>4. CASE wanted = "yes" /\ scenario[s].status # "published"
    <3>1. PublishedAsAsked(m, s, wanted) = Moved(scenario[s], Transitions.approve)
      BY <2>4 DEF PublishedAsAsked
    <3>2. CurrentOf(s) # {} /\ scenario[s].status \in Transitions.approve.from
      BY <1>4, <2>2, <2>3, <2>4 DEF UpdateScenario, Statuses
    <3>3. scenario' = [scenario EXCEPT ![s] =
             IF u = NoArchive THEN Moved(@, Transitions.approve)
             ELSE [Moved(@, Transitions.approve) EXCEPT !.url = u]]
      BY <1>4, <3>1 DEF UpdateScenario
    <3>4. QED
      BY <1>1, <2>1, <2>2, <3>2, <3>3, MoveStep
  <2>5. CASE wanted = "no" /\ scenario[s].status = "published"
    <3>1. PublishedAsAsked(m, s, wanted) = Moved(scenario[s], Transitions.unpublish)
      BY <2>5 DEF PublishedAsAsked
    <3>2. scenario' = [scenario EXCEPT ![s] =
             IF u = NoArchive THEN Moved(@, Transitions.unpublish)
             ELSE [Moved(@, Transitions.unpublish) EXCEPT !.url = u]]
      BY <1>4, <3>1 DEF UpdateScenario
    <3>3. QED
      BY <1>1, <2>1, <2>2, <2>5, <3>2, MoveStep
  <2>6. CASE ~(wanted = "yes" /\ scenario[s].status # "published")
             /\ ~(wanted = "no" /\ scenario[s].status = "published")
    <3> DEFINE row == IF u = NoArchive THEN scenario[s] ELSE [scenario[s] EXCEPT !.url = u]
    <3>1. PublishedAsAsked(m, s, wanted) = scenario[s]
      BY <2>6 DEF PublishedAsAsked
    <3>2. scenario' = [scenario EXCEPT ![s] = row]
      BY <1>4, <3>1 DEF UpdateScenario
    <3>3. /\ row \in Row /\ row.status = scenario[s].status /\ row.owner = scenario[s].owner
          /\ row.archive = scenario[s].archive /\ row.graded = scenario[s].graded
          /\ row.note = scenario[s].note
      BY <2>1, <2>3 DEF Row
    <3>4. scenario[s].status # "absent"
      BY <1>4 DEF UpdateScenario
    <3> HIDE DEF row
    <3>5. QED
      BY <1>1, <2>1, <2>3, <3>2, <3>3, <3>4, RowStep
  <2>7. QED
    BY <2>4, <2>5, <2>6
<1>5. ASSUME NEW s \in Scenarios, NEW m \in Moderators, DeleteScenario(m, s)
      PROVE  IInv'
  BY <1>1, <1>5, DeleteStep
<1>6. ASSUME NEW s \in Scenarios, NEW v \in VersionIds, NEW m \in Moderators,
             Accept(m, s, v) \/ Restore(m, s, v)
      PROVE  IInv'
  BY <1>1, <1>6, PromoteStep DEF Accept, Restore
<1>7. ASSUME NEW s \in Scenarios, NEW v \in VersionIds, NEW p \in Principals,
             RejectVersion(p, s, v) \/ DeleteVersion(p, s, v)
      PROVE  IInv'
  BY <1>1, <1>7, RemoveStep DEF RejectVersion, DeleteVersion
<1>8. ASSUME UNCHANGED <<scenario, version, lastId, letThrough>>
      PROVE  IInv'
  <2>1. \A t \in Scenarios : CurrentOf(t)' = CurrentOf(t)
    BY <1>8 DEF CurrentOf, IsVersion
  <2>2. QED
    BY <1>1, <1>8, <2>1 DEF IInv, FreshIds, OneCurrentOnePending, RowMirrorsCurrent,
        NothingShownWithoutArchive, NoteExplainsRejection, StudentsSeeWhatModeratorsLetThrough,
        VersionsComeFromOwners, MayEdit, Served
<1>9. CASE WorkflowNext
  BY <1>2, <1>9 DEF WorkflowNext
<1>10. CASE CatalogNext
  BY <1>3, <1>4, <1>5, <1>10 DEF CatalogNext
<1>11. CASE HistoryNext
  BY <1>6, <1>7, <1>11 DEF HistoryNext, Principals
<1>12. CASE ArchiveNext
  <2>1. ASSUME NEW r \in Requests, AbandonRequest(r)
        PROVE  IInv'
    BY <2>1, <1>8 DEF AbandonRequest
  <2>2. ASSUME NEW r \in Requests, NEW p \in Principals, NEW s \in Scenarios, NEW a \in Archives,
               StartUpload(r, p, s, a) \/ StartFromArchive(r, p, s, a)
        PROVE  IInv'
    BY <2>2, <1>8 DEF StartUpload, StartFromArchive
  <2>3. QED
    BY <1>1, <1>12, <2>1, <2>2, FinishStep DEF ArchiveNext
<1>13. CASE UNCHANGED vars
  BY <1>8, <1>13 DEF vars
<1>14. QED
  BY <1>9, <1>10, <1>11, <1>12, <1>13 DEF Next

(***************************************************************************)
(* The inductive invariant holds in every reachable state: the properties  *)
(* of the publishing core hold together, each needing the others.          *)
(***************************************************************************)
THEOREM Invariance == Spec => []IInv
  BY IInvInit, IInvStep, PTL DEF Spec

(* The code alone keeps one current and one pending version per scenario,  *)
(* and leaves no version behind a deleted scenario.                        *)
THEOREM HistoryIsConsistent == Spec => []OneCurrentOnePending
<1>1. IInv => OneCurrentOnePending
  BY DEF IInv
<1>2. QED
  BY <1>1, Invariance, PTL

(* archive_sha256 and graded are those of the current version.             *)
THEOREM RowMirrors == Spec => []RowMirrorsCurrent
<1>1. IInv => RowMirrorsCurrent
  BY DEF IInv
<1>2. QED
  BY <1>1, Invariance, PTL

(* What is under review, returned or published has an archive.             *)
THEOREM ShownHasArchive == Spec => []NothingShownWithoutArchive
<1>1. IInv => NothingShownWithoutArchive
  BY DEF IInv
<1>2. QED
  BY <1>1, Invariance, PTL

(* No act of an author changes what students download.                     *)
THEOREM StudentsAreSafe == Spec => []StudentsSeeWhatModeratorsLetThrough
<1>1. IInv => StudentsSeeWhatModeratorsLetThrough
  BY DEF IInv
<1>2. QED
  BY <1>1, Invariance, PTL

(* A moderator's note stands on exactly the returned scenarios.            *)
THEOREM NoteIsCurrent == Spec => []NoteExplainsRejection
<1>1. IInv => NoteExplainsRejection
  BY DEF IInv
<1>2. QED
  BY <1>1, Invariance, PTL

(* No upload in flight lands in a scenario that changed hands.             *)
THEOREM OnlyOwnersUpload == Spec => []VersionsComeFromOwners
<1>1. IInv => VersionsComeFromOwners
  BY DEF IInv
<1>2. QED
  BY <1>1, Invariance, PTL

-----------------------------------------------------------------------------
(***************************************************************************)
(* What the history of a scenario may grow to and when: only an upload     *)
(* adds a version, one at a time, after dropping what HasRoom discounted.  *)
(***************************************************************************)

(* A history is finite, whatever the bound on ids. *)
LEMMA HistoryIsFinite ==
    ASSUME NEW s PROVE IsFiniteSet(VersionsOf(s))
<1>1. IsFiniteSet(VersionIds)
  BY FS_Interval, ConstantsAssumption DEF VersionIds
<1>2. VersionsOf(s) \in SUBSET VersionIds
  BY DEF VersionsOf
<1>3. QED
  BY <1>1, <1>2, FS_Subset

(* The same after a step. *)
LEMMA NextHistoryIsFinite ==
    ASSUME NEW s PROVE IsFiniteSet(VersionsOf(s)')
<1>1. IsFiniteSet(VersionIds)
  BY FS_Interval, ConstantsAssumption DEF VersionIds
<1>2. VersionsOf(s)' \in SUBSET VersionIds
  BY DEF VersionsOf, VersionIds
<1>3. QED
  BY <1>1, <1>2, FS_Subset

(* An upload adds one version to the history of its own scenario, in the   *)
(* room that is left when the versions it drops are gone; the histories of *)
(* other scenarios get nothing.                                            *)
LEMMA InstallGrowth ==
    ASSUME TypeOK, NEW row \in Row, NEW s \in Scenarios, NEW p \in Principals,
           NEW a \in Archives, InstallUpload(row, s, p, a)
    PROVE  /\ \A t \in Scenarios \ {s} : VersionsOf(t)' \subseteq VersionsOf(t)
           /\ \/ VersionsOf(s)' \subseteq VersionsOf(s)
              \/ /\ HasRoom(row, s, p)
                 /\ VersionsOf(s)' \subseteq
                       (VersionsOf(s) \ DroppedBy(row, s, p)) \cup {lastId + 1}
<1>1. CASE AlreadyThere(row, s, p, a)
  BY <1>1 DEF InstallUpload, VersionsOf, VersionIds
<1>2. CASE ~AlreadyThere(row, s, p, a)
  <2>1. HasRoom(row, s, p) /\ version' = Installed(row, s, p, a)
    BY <1>2 DEF InstallUpload
  <2>2. ASSUME NEW v \in VersionIds, v # lastId + 1, version'[v].state # "none"
        PROVE  /\ v \notin DroppedBy(row, s, p)
               /\ version'[v].scn = version[v].scn
               /\ version[v].state # "none"
    <3> DEFINE current == v \in CurrentOf(s) /\ UploadState(p, row) = "current"
    <3>0. /\ v \in DroppedBy(row, s, p) => version'[v] = NoVersion
          /\ v \notin DroppedBy(row, s, p) /\ current => version'[v] = Archived(v)
          /\ v \notin DroppedBy(row, s, p) /\ ~current => version'[v] = version[v]
      <4>1. DroppedBy(row, s, p) \cap CurrentOf(s) = {}
        BY DEF DroppedBy, PendingOf, CurrentOf, IsVersion
      <4>2. QED
        BY <2>1, <2>2, <4>1 DEF Installed
    <3>1. v \notin DroppedBy(row, s, p)
      BY <2>2, <3>0 DEF NoVersion
    <3>2. version'[v] \in {version[v], Archived(v)}
      BY <3>0, <3>1
    <3>3. version'[v] = Archived(v) => v \in CurrentOf(s) \/ version'[v] = version[v]
      BY <3>0, <3>1
    <3>4. version[v] \in VersionRow \cup {NoVersion}
      BY DEF TypeOK
    <3>5. v \in CurrentOf(s) => version[v].state = "current"
      BY DEF CurrentOf, IsVersion
    <3>6. CASE version'[v] = version[v]
      BY <2>2, <3>1, <3>6
    <3>7. CASE version'[v] # version[v]
      BY <3>1, <3>2, <3>3, <3>4, <3>5, <3>7 DEF Archived, VersionRow, NoVersion
    <3>8. QED
      BY <3>6, <3>7
  <2>3. ASSUME NEW v \in VersionIds, v = lastId + 1 PROVE version'[v].scn = s
    BY <2>1, <2>3 DEF Installed
  <2>4. ASSUME NEW t \in Scenarios \ {s}, NEW v \in VersionsOf(t)'
        PROVE  v \in VersionsOf(t)
    <3>1. v \in VersionIds /\ version'[v].state # "none" /\ version'[v].scn = t
      BY <2>4 DEF VersionsOf, VersionIds
    <3>2. QED
      BY <2>2, <2>3, <3>1 DEF VersionsOf
  <2>5. ASSUME NEW v \in VersionsOf(s)', v # lastId + 1
        PROVE  v \in VersionsOf(s) \ DroppedBy(row, s, p)
    <3>1. v \in VersionIds /\ version'[v].state # "none" /\ version'[v].scn = s
      BY <2>5 DEF VersionsOf, VersionIds
    <3>2. QED
      BY <2>2, <2>5, <3>1 DEF VersionsOf
  <2>6. VersionsOf(s)' \subseteq (VersionsOf(s) \ DroppedBy(row, s, p)) \cup {lastId + 1}
    BY <2>5
  <2>7. QED
    BY <2>1, <2>4, <2>6
<1>3. QED
  BY <1>1, <1>2

(* A step that installs nothing leaves every history as it was or smaller. *)
Installs ==
    \E r \in Requests : FinishUpload(r) \/ FinishFromArchive(r)

LEMMA OnlyInstallsGrow ==
    ASSUME TypeOK, [Next]_vars, ~Installs, NEW s \in Scenarios
    PROVE  VersionsOf(s)' \subseteq VersionsOf(s)
<1> DEFINE Shrinks == VersionsOf(s)' \subseteq VersionsOf(s)
<1>1. ASSUME UNCHANGED version PROVE Shrinks
  BY <1>1 DEF VersionsOf, VersionIds
<1>2. ASSUME NEW t \in Scenarios, NEW m \in Moderators, DeleteScenario(m, t) PROVE Shrinks
  BY <1>2 DEF DeleteScenario, VersionsOf, VersionIds, NoVersion
<1>3. ASSUME NEW t \in Scenarios, NEW v \in VersionIds, NEW m \in Moderators,
             Accept(m, t, v) \/ Restore(m, t, v)
      PROVE  Shrinks
  <2>1. version' = Promoted(t, v) /\ version[v].state # "none"
    BY <1>3 DEF Accept, Restore, Promote, IsVersion
  <2>2. ASSUME NEW w \in VersionIds
        PROVE  /\ version'[w].scn = version[w].scn
               /\ version'[w].state # "none" => version[w].state # "none"
    <3>1. version[w] \in VersionRow \cup {NoVersion} /\ version[v] \in VersionRow
      BY <2>1 DEF TypeOK, NoVersion
    <3>2. CASE w = v
      <4>1. version'[w] = [version[w] EXCEPT !.state = "current"]
        BY <2>1, <3>2 DEF Promoted
      <4>2. QED
        BY <2>1, <3>1, <3>2, <4>1 DEF VersionRow
    <3>3. CASE w # v /\ w \in CurrentOf(t)
      <4>1. version'[w] = Archived(w) /\ version[w].state = "current"
        BY <2>1, <3>3 DEF Promoted, CurrentOf, IsVersion
      <4>2. version[w] \in VersionRow
        BY <3>1, <4>1 DEF NoVersion
      <4>3. QED
        BY <4>1, <4>2 DEF VersionRow, Archived
    <3>4. CASE w # v /\ w \notin CurrentOf(t)
      BY <2>1, <3>4 DEF Promoted
    <3>5. QED
      BY <3>2, <3>3, <3>4
  <2>3. QED
    BY <2>2 DEF VersionsOf, VersionIds
<1>4. ASSUME NEW t \in Scenarios, NEW v \in VersionIds, NEW p \in Principals,
             RemoveVersion(p, t, v)
      PROVE  Shrinks
  BY <1>4 DEF RemoveVersion, TypeOK, VersionsOf, VersionIds, NoVersion
<1>5. CASE UNCHANGED vars
  BY <1>1, <1>5 DEF vars
<1>6. CASE WorkflowNext
  BY <1>1, <1>6 DEF WorkflowNext, ApplyTransition
<1>7. CASE CatalogNext
  BY <1>1, <1>2, <1>7 DEF CatalogNext, CreateScenario, UpdateScenario
<1>8. CASE HistoryNext
  BY <1>3, <1>4, <1>8 DEF HistoryNext, RejectVersion, DeleteVersion, Principals
<1>9. CASE ArchiveNext
  <2>1. UNCHANGED version
    BY <1>9 DEF ArchiveNext, Installs, StartUpload, StartFromArchive, AbandonRequest
  <2>2. QED
    BY <1>1, <2>1
<1>10. QED
  BY <1>5, <1>6, <1>7, <1>8, <1>9 DEF Next

(* What an upload that lands has checked under the row lock: the row it    *)
(* installs on is not under review.                                        *)
LEMMA InstallsOnOpenRow ==
    ASSUME TypeOK, Installs
    PROVE  \E s \in Scenarios, p \in Principals, a \in Archives, row \in Row :
              /\ scenario[s].status # "review"
              /\ InstallUpload(row, s, p, a)
<1>1. PICK r \in Requests : FinishUpload(r) \/ FinishFromArchive(r)
  BY DEF Installs
<1> DEFINE q == request[r]
<1>2. q \in ArchiveRequest
  BY <1>1 DEF TypeOK, FinishUpload, FinishFromArchive, NoRequest
<1>3. q.by \in Principals /\ q.scn \in Scenarios /\ q.archive \in Archives
  BY <1>2 DEF ArchiveRequest
<1>4. \E row \in Row : InstallUpload(row, q.scn, q.by, q.archive)
  BY <1>1, <1>3, DraftType DEF FinishUpload, FinishFromArchive, TypeOK
<1>5. scenario[q.scn].status # "review"
  BY <1>1 DEF FinishUpload, FinishFromArchive, MayInstall
<1>6. QED
  BY <1>3, <1>4, <1>5

(* MAX_VERSIONS is an invariant of every step. *)
LEMMA HistoryBoundedStep ==
    TypeOK /\ HistoryBounded /\ [Next]_vars => HistoryBounded'
<1> SUFFICES ASSUME TypeOK, HistoryBounded, [Next]_vars, NEW t \in Scenarios
             PROVE  Cardinality(VersionsOf(t)') <= MaxVersions
  BY DEF HistoryBounded
<1>1. IsFiniteSet(VersionsOf(t)) /\ IsFiniteSet(VersionsOf(t)')
  BY HistoryIsFinite, NextHistoryIsFinite
<1>2. Cardinality(VersionsOf(t)) <= MaxVersions
  BY DEF HistoryBounded
<1>3. /\ Cardinality(VersionsOf(t)) \in Nat
      /\ Cardinality(VersionsOf(t)') \in Nat
      /\ MaxVersions \in Nat
  BY <1>1, FS_CardinalityType, ConstantsAssumption
<1>4. ASSUME VersionsOf(t)' \subseteq VersionsOf(t)
      PROVE  Cardinality(VersionsOf(t)') <= MaxVersions
  <2>1. VersionsOf(t)' \in SUBSET VersionsOf(t)
    BY <1>4
  <2>2. Cardinality(VersionsOf(t)') <= Cardinality(VersionsOf(t))
    BY <1>1, <2>1, FS_Subset
  <2>3. QED
    BY <1>2, <1>3, <2>2
<1>5. ASSUME NEW row \in Row, NEW p \in Principals, HasRoom(row, t, p),
             VersionsOf(t)' \subseteq (VersionsOf(t) \ DroppedBy(row, t, p)) \cup {lastId + 1}
      PROVE  Cardinality(VersionsOf(t)') <= MaxVersions
  <2> DEFINE kept == VersionsOf(t) \ DroppedBy(row, t, p)
             grown == kept \cup {lastId + 1}
             after == VersionsOf(t)'
  <2>1. kept \in SUBSET VersionsOf(t)
    OBVIOUS
  <2>2. IsFiniteSet(kept)
    BY <1>1, <2>1, FS_Subset
  <2>3. Cardinality(kept) \in Nat /\ Cardinality(kept) < MaxVersions
    BY <1>5, <2>2, FS_CardinalityType DEF HasRoom
  <2>4. IsFiniteSet(grown) /\ Cardinality(grown) <= Cardinality(kept) + 1
    <3> HIDE DEF kept
    <3>1. /\ IsFiniteSet(kept \cup {lastId + 1})
          /\ Cardinality(kept \cup {lastId + 1}) =
                IF lastId + 1 \in kept THEN Cardinality(kept) ELSE Cardinality(kept) + 1
      BY <2>2, FS_AddElement
    <3>2. QED
      BY <2>3, <3>1
  <2>5. after \in SUBSET grown
    BY <1>5
  <2>6. Cardinality(after) <= Cardinality(grown) /\ Cardinality(grown) \in Nat
    BY <2>4, <2>5, FS_Subset, FS_CardinalityType
  <2>7. QED
    <3> HIDE DEF kept, grown
    <3>1. Cardinality(after) <= MaxVersions
      BY <1>3, <2>3, <2>4, <2>6
    <3>2. QED
      BY <3>1
<1>6. CASE ~Installs
  BY <1>4, <1>6, OnlyInstallsGrow
<1>7. CASE Installs
  <2>1. PICK s \in Scenarios, p \in Principals, a \in Archives, row \in Row :
             InstallUpload(row, s, p, a)
    BY <1>7, InstallsOnOpenRow
  <2>2. /\ \A u \in Scenarios \ {s} : VersionsOf(u)' \subseteq VersionsOf(u)
        /\ \/ VersionsOf(s)' \subseteq VersionsOf(s)
           \/ /\ HasRoom(row, s, p)
              /\ VersionsOf(s)' \subseteq
                    (VersionsOf(s) \ DroppedBy(row, s, p)) \cup {lastId + 1}
    BY <2>1, InstallGrowth
  <2>3. QED
    BY <1>4, <1>5, <2>2
<1>8. QED
  BY <1>6, <1>7

(* An empty history is within the bound. *)
LEMMA HistoryBoundedInit == Init => HistoryBounded
<1> SUFFICES ASSUME Init, NEW s \in Scenarios PROVE Cardinality(VersionsOf(s)) <= MaxVersions
  BY DEF HistoryBounded
<1>1. VersionsOf(s) = {}
  BY DEF Init, VersionsOf, NoVersion
<1>2. QED
  BY <1>1, FS_EmptySet, ConstantsAssumption

(* installUpload counts before it inserts, under the row lock: no history  *)
(* is ever longer than MAX_VERSIONS.                                       *)
THEOREM HistoryStaysBounded == Spec => []HistoryBounded
  BY HistoryBoundedInit, HistoryBoundedStep, TypeCorrect, PTL DEF Spec

(* Nothing enters the history of a scenario while it is under review: the  *)
(* status is read again under the lock (archives.js).                      *)
THEOREM ReviewIsFrozen == Spec => NothingEntersUnderReview
<1>1. ASSUME TypeOK, [Next]_vars, NEW t \in Scenarios, scenario[t].status = "review"
      PROVE  VersionsOf(t)' \subseteq VersionsOf(t)
  <2>1. CASE ~Installs
    BY <1>1, <2>1, OnlyInstallsGrow
  <2>2. CASE Installs
    <3>1. PICK s \in Scenarios, p \in Principals, a \in Archives, row \in Row :
               scenario[s].status # "review" /\ InstallUpload(row, s, p, a)
      BY <1>1, <2>2, InstallsOnOpenRow
    <3>2. \A u \in Scenarios \ {s} : VersionsOf(u)' \subseteq VersionsOf(u)
      BY <1>1, <3>1, InstallGrowth
    <3>3. QED
      BY <1>1, <3>1, <3>2
  <2>3. QED
    BY <2>1, <2>2
<1>2. TypeOK /\ [Next]_vars =>
        [\A s \in Scenarios :
            scenario[s].status = "review" /\ scenario'[s].status = "review"
               => VersionsOf(s)' \subseteq VersionsOf(s)]_vars
  BY <1>1
<1>3. QED
  BY <1>2, TypeCorrect, PTL DEF Spec, NothingEntersUnderReview

-----------------------------------------------------------------------------
(***************************************************************************)
(* Publishing implements ModeratedCatalog: every step of the routes is a   *)
(* step of the students' view, or changes nothing in it.                   *)
(***************************************************************************)

(* What is shown is an archive of the scenario's own history.  It is here  *)
(* that the mapping needs the inductive invariant: the row's hash mirrors  *)
(* the current version, and there is one.                                  *)
LEMMA ShownIsOffered ==
    ASSUME IInv, NEW s \in Scenarios, scenario[s].status = "published"
    PROVE  Shown[s] \in Archives /\ Shown[s] \in Offered[s]
<1>1. PICK v \in CurrentOf(s) : scenario[s].archive = version[v].archive
  BY DEF IInv, NothingShownWithoutArchive, RowMirrorsCurrent
<1>2. v \in VersionsOf(s) /\ version[v] \in VersionRow
  BY <1>1 DEF CurrentOf, IsVersion, VersionsOf, IInv, TypeOK, NoVersion
<1>3. QED
  BY <1>1, <1>2 DEF Shown, Offered, VersionRow

(* The same in the state a step leads to. *)
LEMMA ShownIsOfferedNext ==
    ASSUME IInv', NEW s \in Scenarios, scenario'[s].status = "published"
    PROVE  Shown'[s] \in Archives /\ Shown'[s] \in Offered'[s]
<1>1. PICK v \in VersionIds : /\ version'[v].state = "current" /\ version'[v].scn = s
                              /\ scenario'[s].archive = version'[v].archive
  BY DEF IInv, NothingShownWithoutArchive, RowMirrorsCurrent, CurrentOf, IsVersion, VersionIds
<1>2. version'[v] \in VersionRow
  BY <1>1 DEF IInv, TypeOK, NoVersion
<1>3. QED
  BY <1>1, <1>2 DEF Shown, Offered, VersionsOf, VersionRow, VersionIds

(* The five ways in which the view of one scenario may change. *)
LEMMA OneScenarioStep ==
    ASSUME NEW s \in Scenarios,
           \A t \in Scenarios \ {s} : Offered'[t] = Offered[t] /\ Shown'[t] = Shown[t],
           \/ /\ Offered'[s] \subseteq Offered[s]
              /\ Shown[s] \in Offered'[s] \cup {NoArchive}
              /\ Shown'[s] = Shown[s]
           \/ \E a \in Archives, rest \in SUBSET Offered[s] :
                 /\ Shown[s] \in rest \cup {NoArchive}
                 /\ Offered'[s] = rest \cup {a}
                 /\ Shown'[s] = Shown[s]
           \/ \E a \in Archives : /\ Offered'[s] \in {Offered[s], Offered[s] \cup {a}}
                                  /\ a \in Offered'[s]
                                  /\ Shown'[s] = a
           \/ Offered'[s] = Offered[s] /\ Shown'[s] = NoArchive
           \/ Offered'[s] = {} /\ Shown'[s] = NoArchive
    PROVE  Catalog!Next
<1>1. /\ Offered = [t \in Scenarios |-> Offered[t]]
      /\ Shown = [t \in Scenarios |-> Shown[t]]
      /\ Offered' = [t \in Scenarios |-> Offered'[t]]
      /\ Shown' = [t \in Scenarios |-> Shown'[t]]
  BY DEF Offered, Shown
<1>2. /\ Offered' = [Offered EXCEPT ![s] = Offered'[s]]
      /\ Shown' = [Shown EXCEPT ![s] = Shown'[s]]
  BY <1>1
<1>3. Shown'[s] = Shown[s] => Shown' = Shown
  BY <1>1
<1>4. Offered'[s] = Offered[s] => Offered' = Offered
  BY <1>1
<1>5. CASE /\ Offered'[s] \subseteq Offered[s]
           /\ Shown[s] \in Offered'[s] \cup {NoArchive}
           /\ Shown'[s] = Shown[s]
  <2>1. Catalog!Retract(s)
    BY <1>2, <1>3, <1>5 DEF Catalog!Retract
  <2>2. QED
    BY <2>1 DEF Catalog!Next
<1>6. ASSUME NEW a \in Archives, NEW rest \in SUBSET Offered[s],
             Shown[s] \in rest \cup {NoArchive}, Offered'[s] = rest \cup {a},
             Shown'[s] = Shown[s]
      PROVE  Catalog!Next
  <2>1. Catalog!Offer(s, a)
    BY <1>2, <1>3, <1>6 DEF Catalog!Offer
  <2>2. QED
    BY <2>1 DEF Catalog!Next
<1>7. ASSUME NEW a \in Archives, Offered'[s] \in {Offered[s], Offered[s] \cup {a}},
             a \in Offered'[s], Shown'[s] = a
      PROVE  Catalog!Next
  <2>1. Catalog!Show(s, a)
    BY <1>2, <1>4, <1>7 DEF Catalog!Show
  <2>2. QED
    BY <2>1 DEF Catalog!Next
<1>8. CASE Offered'[s] = Offered[s] /\ Shown'[s] = NoArchive
  <2>1. Catalog!Hide(s)
    BY <1>2, <1>4, <1>8 DEF Catalog!Hide
  <2>2. QED
    BY <2>1 DEF Catalog!Next
<1>9. CASE Offered'[s] = {} /\ Shown'[s] = NoArchive
  <2>1. Catalog!Remove(s)
    BY <1>2, <1>9 DEF Catalog!Remove
  <2>2. QED
    BY <2>1 DEF Catalog!Next
<1>10. QED
  BY <1>5, <1>6, <1>7, <1>8, <1>9

(* A step that keeps the histories and touches at most the row of s shows, *)
(* hides or changes nothing.                                               *)
LEMMA SameHistoriesStep ==
    ASSUME IInv', NEW s \in Scenarios,
           \A t \in Scenarios : Offered'[t] = Offered[t],
           \A t \in Scenarios \ {s} : scenario'[t] = scenario[t]
    PROVE  Catalog!Next
<1>1. \A t \in Scenarios \ {s} : Shown'[t] = Shown[t]
  BY DEF Shown
<1>2. CASE scenario'[s].status = "published"
  <2>1. Shown'[s] \in Archives /\ Shown'[s] \in Offered'[s]
    BY <1>2, ShownIsOfferedNext
  <2>2. QED
    BY <1>1, <2>1, OneScenarioStep
<1>3. CASE scenario'[s].status # "published"
  <2>1. Shown'[s] = NoArchive
    BY <1>3 DEF Shown
  <2>2. QED
    BY <1>1, <2>1, OneScenarioStep
<1>4. QED
  BY <1>2, <1>3

(* Making a version current leaves every archive where it was. *)
LEMMA PromoteKeepsOffered ==
    ASSUME TypeOK, NEW s \in Scenarios, NEW v \in VersionIds, version[v].state # "none",
           version' = Promoted(s, v)
    PROVE  \A t \in Scenarios : Offered'[t] = Offered[t]
<1>1. ASSUME NEW w \in VersionIds
      PROVE  /\ version'[w].state # "none" <=> version[w].state # "none"
             /\ version[w].state # "none" => /\ version'[w].scn = version[w].scn
                                             /\ version'[w].archive = version[w].archive
  <2>1. version[w] \in VersionRow \cup {NoVersion} /\ version[v] \in VersionRow
    BY DEF TypeOK, NoVersion
  <2>2. CASE w = v
    <3>1. version'[w] = [version[w] EXCEPT !.state = "current"]
      BY <2>2 DEF Promoted
    <3>2. QED
      BY <2>1, <2>2, <3>1 DEF VersionRow
  <2>3. CASE w # v /\ w \in CurrentOf(s)
    <3>1. version'[w] = Archived(w) /\ version[w].state = "current"
      BY <2>3 DEF Promoted, CurrentOf, IsVersion
    <3>2. version[w] \in VersionRow
      BY <2>1, <3>1 DEF NoVersion
    <3>3. QED
      BY <3>1, <3>2 DEF VersionRow, Archived
  <2>4. CASE w # v /\ w \notin CurrentOf(s)
    BY <2>4 DEF Promoted
  <2>5. QED
    BY <2>2, <2>3, <2>4
<1>2. \A t \in Scenarios : VersionsOf(t)' = VersionsOf(t)
  BY <1>1 DEF VersionsOf, VersionIds
<1>3. ASSUME NEW t \in Scenarios, NEW w \in VersionsOf(t)
      PROVE  version'[w].archive = version[w].archive
  BY <1>1 DEF VersionsOf
<1>4. QED
  BY <1>2, <1>3 DEF Offered

(* What an upload that adds a version does to each row of the history.     *)
LEMMA InstalledShape ==
    ASSUME TypeOK, FreshIds, NEW row, NEW s \in Scenarios, NEW p \in Principals,
           NEW a \in Archives, InstallUpload(row, s, p, a), ~AlreadyThere(row, s, p, a)
    PROVE  /\ lastId + 1 \in VersionIds
           /\ version[lastId + 1].state = "none"
           /\ version'[lastId + 1].state # "none"
           /\ version'[lastId + 1].scn = s
           /\ version'[lastId + 1].archive = a
           /\ \A v \in VersionIds \ {lastId + 1} :
                 /\ v \in DroppedBy(row, s, p) => version'[v].state = "none"
                 /\ v \notin DroppedBy(row, s, p) =>
                       /\ version'[v].state # "none" <=> version[v].state # "none"
                       /\ version[v].state # "none" =>
                             /\ version'[v].scn = version[v].scn
                             /\ version'[v].archive = version[v].archive
<1> DEFINE n == lastId + 1
<1>1. n \in VersionIds /\ version[n] = NoVersion
  BY ConstantsAssumption DEF InstallUpload, TypeOK, VersionIds, FreshIds
<1>2. version' = Installed(row, s, p, a)
  BY DEF InstallUpload
<1>3. version'[n] = [scn |-> s, archive |-> a, by |-> p, state |-> UploadState(p, row)]
  BY <1>1, <1>2 DEF Installed
<1>4. UploadState(p, row) # "none"
  BY DEF UploadState
<1>5. ASSUME NEW v \in VersionIds \ {n}, v \in DroppedBy(row, s, p)
      PROVE  version'[v].state = "none"
  <2>1. v \notin CurrentOf(s)
    BY <1>5 DEF DroppedBy, PendingOf, CurrentOf, IsVersion
  <2>2. version'[v] = NoVersion
    BY <1>2, <1>5, <2>1 DEF Installed
  <2>3. QED
    BY <2>2 DEF NoVersion
<1>6. ASSUME NEW v \in VersionIds \ {n}, v \notin DroppedBy(row, s, p)
      PROVE  /\ version'[v].state # "none" <=> version[v].state # "none"
             /\ version[v].state # "none" => /\ version'[v].scn = version[v].scn
                                             /\ version'[v].archive = version[v].archive
  <2>1. CASE v \in CurrentOf(s) /\ UploadState(p, row) = "current"
    <3>1. version'[v] = Archived(v) /\ version[v].state = "current"
      BY <1>2, <1>6, <2>1 DEF Installed, CurrentOf, IsVersion
    <3>2. version[v] \in VersionRow
      BY <3>1 DEF TypeOK, NoVersion
    <3>3. QED
      BY <3>1, <3>2 DEF VersionRow, Archived
  <2>2. CASE ~(v \in CurrentOf(s) /\ UploadState(p, row) = "current")
    BY <1>2, <1>6, <2>2 DEF Installed
  <2>3. QED
    BY <2>1, <2>2
<1>7. QED
  BY <1>1, <1>3, <1>4, <1>5, <1>6 DEF NoVersion

(* ... and to the archives on offer: its own scenario keeps what was not   *)
(* dropped and gains one, every other scenario keeps everything.           *)
LEMMA InstallOffers ==
    ASSUME TypeOK, FreshIds, NEW row, NEW s \in Scenarios, NEW p \in Principals,
           NEW a \in Archives, InstallUpload(row, s, p, a), ~AlreadyThere(row, s, p, a)
    PROVE  /\ \A t \in Scenarios \ {s} : Offered'[t] = Offered[t]
           /\ Offered'[s] =
                 {version[v].archive : v \in VersionsOf(s) \ DroppedBy(row, s, p)} \cup {a}
<1>1. /\ lastId + 1 \in VersionIds
      /\ version[lastId + 1].state = "none"
      /\ version'[lastId + 1].state # "none"
      /\ version'[lastId + 1].scn = s
      /\ version'[lastId + 1].archive = a
  BY InstalledShape
<1>2. \A v \in VersionIds \ {lastId + 1} :
         /\ v \in DroppedBy(row, s, p) => version'[v].state = "none"
         /\ v \notin DroppedBy(row, s, p) =>
               /\ version'[v].state # "none" <=> version[v].state # "none"
               /\ version[v].state # "none" => /\ version'[v].scn = version[v].scn
                                               /\ version'[v].archive = version[v].archive
  BY InstalledShape
<1>3. \A v \in DroppedBy(row, s, p) : version[v].scn = s
  BY DEF DroppedBy, PendingOf, IsVersion
<1> HIDE DEF DroppedBy
<1>4. ASSUME NEW t \in Scenarios \ {s} PROVE VersionsOf(t)' = VersionsOf(t)
  BY <1>1, <1>2, <1>3 DEF VersionsOf, VersionIds
<1>5. VersionsOf(s)' = (VersionsOf(s) \ DroppedBy(row, s, p)) \cup {lastId + 1}
  BY <1>1, <1>2 DEF VersionsOf, VersionIds
<1>6. ASSUME NEW t \in Scenarios, NEW v \in VersionsOf(t) \ DroppedBy(row, s, p)
      PROVE  version'[v].archive = version[v].archive
  BY <1>1, <1>2 DEF VersionsOf
<1>7. ASSUME NEW t \in Scenarios \ {s} PROVE Offered'[t] = Offered[t]
  <2>1. \A v \in VersionsOf(t) : version'[v].archive = version[v].archive
    BY <1>3, <1>6 DEF VersionsOf
  <2>2. QED
    BY <1>4, <2>1 DEF Offered
<1>8. Offered'[s] = {version'[v].archive : v \in VersionsOf(s)'}
  BY DEF Offered
<1>9. QED
  BY <1>1, <1>5, <1>6, <1>7, <1>8

(* An upload that lands is an offer, or is shown at once.                  *)
LEMMA InstallImplements ==
    ASSUME IInv, IInv', NEW s \in Scenarios, NEW p \in Principals, NEW a \in Archives,
           NEW row \in Row, InstallUpload(row, s, p, a),
           \/ row = scenario[s]
           \/ scenario[s].status = "absent" /\ row.status = "draft"
    PROVE  Catalog!Next
<1>1. \A t \in Scenarios \ {s} : scenario'[t] = scenario[t]
  BY DEF InstallUpload, IInv, TypeOK
<1>2. CASE AlreadyThere(row, s, p, a)
  <2>1. UNCHANGED version
    BY <1>2 DEF InstallUpload
  <2>2. \A t \in Scenarios : Offered'[t] = Offered[t]
    BY <2>1 DEF Offered, VersionsOf, VersionIds
  <2>3. QED
    BY <1>1, <2>2, SameHistoriesStep
<1>3. CASE ~AlreadyThere(row, s, p, a)
  <2> DEFINE rest == {version[v].archive : v \in VersionsOf(s) \ DroppedBy(row, s, p)}
  <2>0. TypeOK /\ FreshIds
    BY DEF IInv
  <2>1. \A t \in Scenarios \ {s} : Offered'[t] = Offered[t] /\ Shown'[t] = Shown[t]
    BY <1>1, <1>3, <2>0, InstallOffers DEF Shown
  <2>2. Offered'[s] = rest \cup {a}
    BY <1>3, <2>0, InstallOffers
  <2>3. rest \in SUBSET Offered[s]
    BY DEF Offered
  <2>4. scenario'[s] = IF UploadState(p, row) = "current" THEN PointedAt(row, a) ELSE row
    BY <1>3 DEF InstallUpload, IInv, TypeOK
  <2>5. PointedAt(row, a).status = row.status /\ PointedAt(row, a).archive = a
    BY PointedAtType
  <2>6. CASE row.status # "published"
    <3>1. Shown[s] = NoArchive /\ Shown'[s] = NoArchive
      BY <2>4, <2>5, <2>6 DEF Shown
    <3>2. QED
      BY <2>1, <2>2, <2>3, <3>1, OneScenarioStep
  <2>7. CASE row.status = "published" /\ IsModerator(p)
    <3>1. rest = Offered[s]
      BY <2>7 DEF DroppedBy, Offered
    <3>2. Shown'[s] = a
      BY <2>4, <2>5, <2>7 DEF Shown, UploadState
    <3>3. QED
      BY <2>1, <2>2, <3>1, <3>2, OneScenarioStep
  <2>8. CASE row.status = "published" /\ ~IsModerator(p)
    <3>1. row = scenario[s] /\ scenario'[s] = row
      BY <2>4, <2>8 DEF UploadState
    <3>2. Shown'[s] = Shown[s] /\ Shown[s] = scenario[s].archive
      BY <2>8, <3>1 DEF Shown
    <3>3. PICK v \in CurrentOf(s) : scenario[s].archive = version[v].archive
      BY <2>8, <3>1 DEF IInv, NothingShownWithoutArchive, RowMirrorsCurrent
    <3>4. v \in VersionsOf(s) \ DroppedBy(row, s, p)
      BY DEF CurrentOf, IsVersion, VersionsOf, DroppedBy, PendingOf
    <3>5. Shown[s] \in rest
      BY <3>2, <3>3, <3>4
    <3>6. QED
      BY <2>1, <2>2, <2>3, <3>2, <3>5, OneScenarioStep
  <2>9. QED
    BY <2>6, <2>7, <2>8
<1>4. QED
  BY <1>2, <1>3

(* Every step of the routes is a step of the view or leaves it as it is.   *)
LEMMA StepImplements ==
    ASSUME IInv, IInv', [Next]_vars
    PROVE  [Catalog!Next]_(Catalog!vars)
<1>0. ASSUME UNCHANGED version PROVE \A t \in Scenarios : Offered'[t] = Offered[t]
  BY <1>0 DEF Offered, VersionsOf, VersionIds
<1>1. CASE UNCHANGED vars
  BY <1>1 DEF vars, Catalog!vars, Offered, Shown, VersionsOf, VersionIds
<1>2. CASE WorkflowNext
  <2>1. PICK s \in Scenarios, p \in Principals, action \in DOMAIN Transitions :
             ApplyTransition(p, s, action)
    BY <1>2 DEF WorkflowNext
  <2>2. UNCHANGED version /\ \A t \in Scenarios \ {s} : scenario'[t] = scenario[t]
    BY <2>1 DEF ApplyTransition, IInv, TypeOK
  <2>3. QED
    BY <1>0, <2>2, SameHistoriesStep
<1>3. ASSUME NEW s \in Scenarios, NEW u \in HandUrls \cup {NoArchive},
             \/ \E p \in Principals : CreateScenario(p, s, u)
             \/ \E m \in Moderators, wanted \in {"yes", "no", "unsaid"} :
                   UpdateScenario(m, s, wanted, u)
      PROVE  Catalog!Next
  <2>1. UNCHANGED version /\ \A t \in Scenarios \ {s} : scenario'[t] = scenario[t]
    BY <1>3 DEF CreateScenario, UpdateScenario, IInv, TypeOK
  <2>2. QED
    BY <1>0, <2>1, SameHistoriesStep
<1>4. ASSUME NEW s \in Scenarios, NEW m \in Moderators, DeleteScenario(m, s)
      PROVE  Catalog!Next
  <2>1. \A t \in Scenarios \ {s} : scenario'[t] = scenario[t]
    BY <1>4 DEF DeleteScenario, IInv, TypeOK
  <2>2. \A v \in VersionIds : version'[v] = IF v \in VersionsOf(s) THEN NoVersion ELSE version[v]
    BY <1>4 DEF DeleteScenario
  <2>3. VersionsOf(s)' = {}
    BY <2>2 DEF VersionsOf, VersionIds, NoVersion
  <2>4. ASSUME NEW t \in Scenarios \ {s} PROVE Offered'[t] = Offered[t]
    <3>1. VersionsOf(t) \cap VersionsOf(s) = {}
      BY DEF VersionsOf
    <3>2. VersionsOf(t)' = VersionsOf(t)
      BY <2>2, <3>1 DEF VersionsOf, VersionIds, NoVersion
    <3>3. \A v \in VersionsOf(t) : version'[v] = version[v]
      BY <2>2, <3>1 DEF VersionsOf
    <3>4. QED
      BY <3>2, <3>3 DEF Offered
  <2>5. Offered'[s] = {}
    BY <2>3 DEF Offered
  <2>6. scenario'[s].status # "published"
    BY <1>4 DEF DeleteScenario, NoRow, IInv, TypeOK
  <2>7. Shown'[s] = NoArchive /\ \A t \in Scenarios \ {s} : Shown'[t] = Shown[t]
    BY <2>1, <2>6 DEF Shown
  <2>8. QED
    BY <2>4, <2>5, <2>7, OneScenarioStep
<1>5. ASSUME NEW s \in Scenarios, NEW v \in VersionIds, NEW m \in Moderators,
             Accept(m, s, v) \/ Restore(m, s, v)
      PROVE  Catalog!Next
  <2>1. version' = Promoted(s, v) /\ version[v].state # "none"
    BY <1>5 DEF Accept, Restore, Promote, IsVersion
  <2>2. \A t \in Scenarios \ {s} : scenario'[t] = scenario[t]
    BY <1>5 DEF Accept, Restore, Promote, IInv, TypeOK
  <2>3. \A t \in Scenarios : Offered'[t] = Offered[t]
    BY <2>1, PromoteKeepsOffered DEF IInv
  <2>4. QED
    BY <2>2, <2>3, SameHistoriesStep
<1>6. ASSUME NEW s \in Scenarios, NEW v \in VersionIds, NEW p \in Principals,
             version[v].scn = s, RemoveVersion(p, s, v)
      PROVE  Catalog!Next
  <2>1. UNCHANGED scenario
    BY <1>6 DEF RemoveVersion
  <2>2. \A w \in VersionIds : version'[w] = IF w = v THEN NoVersion ELSE version[w]
    BY <1>6 DEF RemoveVersion, IInv, TypeOK
  <2>3. ASSUME NEW t \in Scenarios
        PROVE  VersionsOf(t)' = VersionsOf(t) \ {v} /\ Shown'[t] = Shown[t]
    BY <2>1, <2>2 DEF VersionsOf, VersionIds, NoVersion, Shown
  <2>4. ASSUME NEW t \in Scenarios
        PROVE  Offered'[t] = {version[w].archive : w \in VersionsOf(t) \ {v}}
    <3>1. \A w \in VersionsOf(t) \ {v} : version'[w] = version[w]
      BY <2>2 DEF VersionsOf
    <3>2. QED
      BY <2>3, <3>1 DEF Offered
  <2>5. ASSUME NEW t \in Scenarios \ {s} PROVE Offered'[t] = Offered[t]
    <3>1. VersionsOf(t) \ {v} = VersionsOf(t)
      BY <1>6 DEF VersionsOf
    <3>2. QED
      BY <2>4, <3>1 DEF Offered
  <2>6. Offered'[s] \subseteq Offered[s]
    BY <2>4 DEF Offered
  <2>7. Shown[s] \in Offered'[s] \cup {NoArchive}
    <3>1. CASE scenario'[s].status = "published"
      BY <2>3, <3>1, ShownIsOfferedNext
    <3>2. CASE scenario'[s].status # "published"
      BY <2>1, <3>2 DEF Shown
    <3>3. QED
      BY <3>1, <3>2
  <2>8. QED
    BY <2>3, <2>5, <2>6, <2>7, OneScenarioStep
<1>7. ASSUME NEW r \in Requests, FinishUpload(r) \/ FinishFromArchive(r)
      PROVE  Catalog!Next
  <2> DEFINE q == request[r]
  <2>1. q \in ArchiveRequest
    BY <1>7 DEF IInv, TypeOK, FinishUpload, FinishFromArchive, NoRequest
  <2>2. q.by \in Principals /\ q.scn \in Scenarios /\ q.archive \in Archives
    BY <2>1 DEF ArchiveRequest
  <2>3. DraftOf(q.by, NoArchive) \in Row /\ DraftOf(q.by, NoArchive).status = "draft"
    BY <2>2, DraftType DEF DraftOf, NoRow
  <2>4. PICK row \in Row : /\ InstallUpload(row, q.scn, q.by, q.archive)
                           /\ \/ row = scenario[q.scn]
                              \/ scenario[q.scn].status = "absent" /\ row.status = "draft"
    BY <1>7, <2>2, <2>3 DEF FinishUpload, FinishFromArchive, IInv, TypeOK
  <2>5. QED
    BY <2>2, <2>4, InstallImplements
<1>8. CASE CatalogNext
  BY <1>3, <1>4, <1>8 DEF CatalogNext
<1>9. CASE HistoryNext
  BY <1>5, <1>6, <1>9 DEF HistoryNext, RejectVersion, DeleteVersion, IsVersion, Principals
<1>10. CASE ArchiveNext
  <2>1. ASSUME UNCHANGED <<scenario, version>> PROVE UNCHANGED Catalog!vars
    BY <2>1 DEF Catalog!vars, Offered, Shown, VersionsOf, VersionIds
  <2>2. QED
    BY <1>7, <1>10, <2>1 DEF ArchiveNext, StartUpload, StartFromArchive, AbandonRequest
<1>11. QED
  BY <1>1, <1>2, <1>8, <1>9, <1>10 DEF Next

(* Nothing is on offer or shown in an empty database. *)
LEMMA InitImplements == Init => Catalog!Init
  BY DEF Init, Catalog!Init, Offered, Shown, VersionsOf, NoVersion, NoRow

(***************************************************************************)
(* The routes together implement the students' view: whatever they see     *)
(* came from the scenario's own history and stays in it while it is shown. *)
(***************************************************************************)
THEOREM PublishingImplementsCatalog == Spec => ImplementsCatalog
<1>1. IInv /\ IInv' /\ [Next]_vars => [Catalog!Next]_(Catalog!vars)
  BY StepImplements
<1>2. QED
  BY <1>1, InitImplements, Invariance, PTL DEF Spec, ImplementsCatalog, Catalog!Spec

-----------------------------------------------------------------------------
(***************************************************************************)
(* The queue.  A desk's steps are steps of the core, so everything above   *)
(* holds with moderators who decide from stale cards; and a decision on a  *)
(* proposal is about the card, because an id's archive never changes.      *)
(***************************************************************************)

(* An id that was handed out keeps its scenario and archive while its row lasts. *)
KeepsItsArchive(v) ==
    \/ version'[v] = NoVersion
    \/ /\ version[v] # NoVersion
       /\ version'[v].scn = version[v].scn
       /\ version'[v].archive = version[v].archive

LEMMA IdsAreNotReused ==
    ASSUME TypeOK, [Next]_vars, NEW v \in VersionIds, v <= lastId
    PROVE  KeepsItsArchive(v)
<1>0. version[v] \in VersionRow \cup {NoVersion}
  BY DEF TypeOK
<1>1. ASSUME UNCHANGED version PROVE KeepsItsArchive(v)
  BY <1>1 DEF KeepsItsArchive
<1>2. ASSUME version'[v] \in {NoVersion, version[v]} PROVE KeepsItsArchive(v)
  BY <1>2 DEF KeepsItsArchive
<1>3. ASSUME version[v] \in VersionRow, NEW state \in {"current", "archived"},
             version'[v] = [version[v] EXCEPT !.state = state]
      PROVE  KeepsItsArchive(v)
  BY <1>3 DEF KeepsItsArchive, VersionRow, NoVersion
<1>4. ASSUME NEW t \in Scenarios, v \in CurrentOf(t), version'[v] = Archived(v)
      PROVE  KeepsItsArchive(v)
  <2>1. version[v] \in VersionRow
    BY <1>0, <1>4 DEF CurrentOf, IsVersion, NoVersion
  <2>2. QED
    BY <1>3, <1>4, <2>1 DEF Archived
<1>5. ASSUME NEW t \in Scenarios, NEW w \in VersionIds, version[w].state # "none",
             version' = Promoted(t, w)
      PROVE  KeepsItsArchive(v)
  <2>1. CASE v = w
    <3>1. version[v] \in VersionRow
      BY <1>0, <1>5, <2>1 DEF NoVersion
    <3>2. version'[v] = [version[v] EXCEPT !.state = "current"]
      BY <1>5, <2>1 DEF Promoted
    <3>3. QED
      BY <1>3, <3>1, <3>2
  <2>2. CASE v # w /\ v \in CurrentOf(t)
    <3>1. version'[v] = Archived(v)
      BY <1>5, <2>2 DEF Promoted
    <3>2. QED
      BY <1>4, <2>2, <3>1
  <2>3. CASE v # w /\ v \notin CurrentOf(t)
    BY <1>2, <1>5, <2>3 DEF Promoted
  <2>4. QED
    BY <2>1, <2>2, <2>3
<1>6. CASE UNCHANGED vars
  BY <1>1, <1>6 DEF vars
<1>7. CASE WorkflowNext
  BY <1>1, <1>7 DEF WorkflowNext, ApplyTransition
<1>8. CASE CatalogNext
  <2>1. ASSUME NEW t \in Scenarios, NEW m \in Moderators, DeleteScenario(m, t)
        PROVE  KeepsItsArchive(v)
    BY <1>2, <2>1 DEF DeleteScenario
  <2>2. QED
    BY <1>1, <1>8, <2>1 DEF CatalogNext, CreateScenario, UpdateScenario
<1>9. CASE HistoryNext
  <2>1. ASSUME NEW t \in Scenarios, NEW w \in VersionIds, NEW m \in Moderators,
               Accept(m, t, w) \/ Restore(m, t, w)
        PROVE  KeepsItsArchive(v)
    <3>1. version' = Promoted(t, w) /\ version[w].state # "none"
      BY <2>1 DEF Accept, Restore, Promote, IsVersion
    <3>2. QED
      BY <1>5, <3>1
  <2>2. ASSUME NEW t \in Scenarios, NEW w \in VersionIds, NEW p \in Principals,
               RemoveVersion(p, t, w)
        PROVE  KeepsItsArchive(v)
    BY <1>2, <2>2 DEF RemoveVersion, TypeOK
  <2>3. QED
    BY <1>9, <2>1, <2>2 DEF HistoryNext, RejectVersion, DeleteVersion, Principals
<1>10. CASE ArchiveNext
  <2>1. CASE ~Installs
    <3>1. UNCHANGED version
      BY <1>10, <2>1 DEF ArchiveNext, Installs, StartUpload, StartFromArchive, AbandonRequest
    <3>2. QED
      BY <1>1, <3>1
  <2>2. CASE Installs
    <3>1. PICK s \in Scenarios, p \in Principals, a \in Archives, row \in Row :
               InstallUpload(row, s, p, a)
      BY <2>2, InstallsOnOpenRow
    <3>2. CASE AlreadyThere(row, s, p, a)
      BY <1>1, <3>1, <3>2 DEF InstallUpload
    <3>3. CASE ~AlreadyThere(row, s, p, a)
      <4>1. version' = Installed(row, s, p, a) /\ v # lastId + 1
        BY <3>1, <3>3, ConstantsAssumption DEF InstallUpload, TypeOK, VersionIds
      <4>2. version'[v] \in {NoVersion, version[v]} \/ (v \in CurrentOf(s) /\ version'[v] = Archived(v))
        BY <4>1 DEF Installed
      <4>3. QED
        BY <1>2, <1>4, <4>2
    <3>4. QED
      BY <3>2, <3>3
  <2>3. QED
    BY <2>1, <2>2
<1>11. QED
  BY <1>6, <1>7, <1>8, <1>9, <1>10 DEF Next

(***************************************************************************)
(* What a card says for as long as it is open: of a proposal, an id of its *)
(* scenario that carries the archive the moderator looks at or is gone.    *)
(***************************************************************************)
Card == [scn : Scenarios, proposal : BOOLEAN, vid : VersionIds \cup {0}, archive : Archives]

CardIsTrue(c) ==
    c.proposal =>
        /\ c.vid \in VersionIds /\ c.vid <= lastId
        /\ \/ version[c.vid] = NoVersion
           \/ version[c.vid].scn = c.scn /\ version[c.vid].archive = c.archive

CardTypes == card \in [Moderators -> Card \cup {NoCard}]
CardsAreTrue == \A m \in Moderators : CardIsTrue(card[m])
DeskInv == IInv /\ CardTypes /\ CardsAreTrue

(* A card's act is a route's act by a moderator. *)
LEMMA DeskStepIsCoreStep ==
    ASSUME CardTypes, CardsAreTrue, [DeskNext]_deskVars
    PROVE  [Next]_vars
<1>1. CASE UNCHANGED deskVars
  BY <1>1 DEF deskVars, vars
<1>2. CASE Next /\ UNCHANGED card
  BY <1>2
<1>3. ASSUME NEW m \in Moderators, NEW s \in Scenarios, OpenCard(m, s) PROVE UNCHANGED vars
  BY <1>3 DEF OpenCard
<1>4. ASSUME NEW m \in Moderators, CloseCard(m) PROVE UNCHANGED vars
  BY <1>4 DEF CloseCard
<1>5. ASSUME NEW m \in Moderators, PublishCard(m) \/ ReturnCard(m) PROVE Next
  <2>1. card[m] \in Card
    BY <1>5 DEF PublishCard, ReturnCard, CardTypes
  <2>2. /\ card[m].scn \in Scenarios /\ m \in Principals
        /\ {"approve", "reject"} \subseteq DOMAIN Transitions
    BY <2>1 DEF Card, Principals, Transitions
  <2>3. ASSUME NEW action \in {"approve", "reject"}, ApplyTransition(m, card[m].scn, action)
        PROVE  WorkflowNext
    BY <2>2, <2>3 DEF WorkflowNext
  <2>4. ASSUME Accept(m, card[m].scn, card[m].vid) \/ RejectVersion(m, card[m].scn, card[m].vid),
               card[m].vid \in VersionIds
        PROVE  HistoryNext
    BY <2>2, <2>4 DEF HistoryNext
  <2>5. card[m].proposal => card[m].vid \in VersionIds
    BY DEF CardsAreTrue, CardIsTrue
  <2>6. QED
    BY <1>5, <2>3, <2>4, <2>5 DEF PublishCard, ReturnCard, AcceptShown, Next
<1>6. QED
  BY <1>1, <1>2, <1>3, <1>4, <1>5 DEF DeskNext

(* The SERIAL behind the ids never goes back. *)
LEMMA IdsOnlyGrow ==
    ASSUME TypeOK, [Next]_vars
    PROVE  lastId <= lastId'
<1>1. ASSUME UNCHANGED lastId PROVE lastId <= lastId'
  BY <1>1, ConstantsAssumption DEF TypeOK
<1>2. CASE UNCHANGED vars
  BY <1>1, <1>2 DEF vars
<1>3. CASE WorkflowNext
  BY <1>1, <1>3 DEF WorkflowNext, ApplyTransition
<1>4. CASE CatalogNext
  BY <1>1, <1>4 DEF CatalogNext, CreateScenario, UpdateScenario, DeleteScenario
<1>5. CASE HistoryNext
  BY <1>1, <1>5 DEF HistoryNext, Accept, Restore, RejectVersion, DeleteVersion, RemoveVersion
<1>6. CASE ArchiveNext
  <2>1. CASE ~Installs
    BY <1>1, <1>6, <2>1 DEF ArchiveNext, Installs, StartUpload, StartFromArchive, AbandonRequest
  <2>2. CASE Installs
    <3>1. PICK s \in Scenarios, p \in Principals, a \in Archives, row \in Row :
               InstallUpload(row, s, p, a)
      BY <2>2, InstallsOnOpenRow
    <3>2. UNCHANGED lastId \/ lastId' = lastId + 1
      BY <3>1 DEF InstallUpload
    <3>3. QED
      BY <3>2, ConstantsAssumption DEF TypeOK
  <2>3. QED
    BY <2>1, <2>2
<1>7. QED
  BY <1>2, <1>3, <1>4, <1>5, <1>6 DEF Next

(* A card is true when it is loaded. *)
LEMMA OpenedCard ==
    ASSUME TypeOK, FreshIds, CardTypes, NEW m \in Moderators, NEW s \in Scenarios, OpenCard(m, s)
    PROVE  \E c \in Card : CardIsTrue(c) /\ card' = [card EXCEPT ![m] = c]
<1>1. ASSUME NEW v \in PendingOf(s),
             card' = [card EXCEPT ![m] = [scn |-> s, proposal |-> TRUE, vid |-> v,
                                          archive |-> version[v].archive]]
      PROVE  \E c \in Card : CardIsTrue(c) /\ card' = [card EXCEPT ![m] = c]
  <2> DEFINE c == [scn |-> s, proposal |-> TRUE, vid |-> v, archive |-> version[v].archive]
  <2>1. v \in VersionIds /\ version[v] \in VersionRow /\ version[v].scn = s
    BY DEF PendingOf, IsVersion, TypeOK, NoVersion
  <2>2. v <= lastId
    BY <2>1, ConstantsAssumption DEF FreshIds, TypeOK, VersionIds, NoVersion, VersionRow, PendingOf, IsVersion
  <2>3. c \in Card /\ CardIsTrue(c)
    BY <2>1, <2>2 DEF Card, CardIsTrue, VersionRow
  <2>4. QED
    BY <1>1, <2>3
<1>2. ASSUME NEW v \in CurrentOf(s),
             card' = [card EXCEPT ![m] = [scn |-> s, proposal |-> FALSE, vid |-> 0,
                                          archive |-> version[v].archive]]
      PROVE  \E c \in Card : CardIsTrue(c) /\ card' = [card EXCEPT ![m] = c]
  <2> DEFINE c == [scn |-> s, proposal |-> FALSE, vid |-> 0, archive |-> version[v].archive]
  <2>1. version[v] \in VersionRow
    BY DEF CurrentOf, IsVersion, TypeOK, NoVersion
  <2>2. c \in Card /\ CardIsTrue(c)
    BY <2>1 DEF Card, CardIsTrue, VersionRow
  <2>3. QED
    BY <1>2, <2>2
<1>3. QED
  BY <1>1, <1>2 DEF OpenCard

(* A card that was loaded stays true of its id, whoever acts meanwhile. *)
LEMMA CardStaysTrue ==
    ASSUME TypeOK, TypeOK', [Next]_vars, NEW c \in Card, CardIsTrue(c)
    PROVE  CardIsTrue(c)'
<1> SUFFICES ASSUME c.proposal
             PROVE  /\ c.vid \in VersionIds /\ c.vid <= lastId'
                    /\ \/ version'[c.vid] = NoVersion
                       \/ version'[c.vid].scn = c.scn /\ version'[c.vid].archive = c.archive
  BY DEF CardIsTrue, VersionIds
<1>1. c.vid \in VersionIds /\ c.vid <= lastId
  BY DEF CardIsTrue
<1>2. KeepsItsArchive(c.vid)
  BY <1>1, IdsAreNotReused
<1>3. lastId <= lastId'
  BY IdsOnlyGrow
<1>4. c.vid <= lastId'
  BY <1>1, <1>3, ConstantsAssumption DEF TypeOK, VersionIds
<1>5. QED
  BY <1>1, <1>2, <1>4 DEF KeepsItsArchive, CardIsTrue

(* The cards a moderator has loaded are true, whatever has happened since. *)
LEMMA DeskInvStep == DeskInv /\ [DeskNext]_deskVars => DeskInv'
<1> SUFFICES ASSUME DeskInv, [DeskNext]_deskVars PROVE DeskInv'
  OBVIOUS
<1> USE DEF DeskInv
<1>0. [Next]_vars
  BY DeskStepIsCoreStep
<1>1. IInv' /\ TypeOK /\ TypeOK' /\ FreshIds
  BY <1>0, IInvStep DEF IInv
<1>2. \A m \in Moderators : card'[m] \in {card[m], NoCard} => CardIsTrue(card[m])'
  <2> SUFFICES ASSUME NEW m \in Moderators, card'[m] \in {card[m], NoCard}
               PROVE  CardIsTrue(card[m])'
    OBVIOUS
  <2>1. CASE card'[m] = NoCard
    BY <2>1 DEF CardIsTrue, NoCard
  <2>2. CASE card'[m] = card[m] /\ card[m] \in Card
    <3>1. CardIsTrue(card[m])
      BY DEF CardsAreTrue
    <3>2. QED
      BY <1>0, <1>1, <2>2, <3>1, CardStaysTrue DEF CardIsTrue
  <2>3. QED
    BY <2>1, <2>2 DEF CardTypes
<1>3. ASSUME CardTypes', \A m \in Moderators : card'[m] \in {card[m], NoCard} PROVE DeskInv'
  BY <1>1, <1>2, <1>3 DEF CardsAreTrue
<1>4. CASE UNCHANGED card
  <2>1. CardTypes'
    BY <1>4 DEF CardTypes, Card, VersionIds
  <2>2. QED
    BY <1>3, <1>4, <2>1
<1>5. ASSUME NEW m \in Moderators, Reloaded(m) PROVE DeskInv'
  <2>1. CardTypes' /\ \A n \in Moderators : card'[n] \in {card[n], NoCard}
    BY <1>5 DEF Reloaded, CardTypes, Card, VersionIds
  <2>2. QED
    BY <1>3, <2>1
<1>6. ASSUME NEW m \in Moderators, NEW s \in Scenarios, OpenCard(m, s) PROVE DeskInv'
  <2>1. PICK c \in Card : CardIsTrue(c) /\ card' = [card EXCEPT ![m] = c]
    BY <1>1, <1>6, OpenedCard
  <2>2. CardTypes' /\ \A n \in Moderators \ {m} : card'[n] = card[n]
    BY <2>1 DEF CardTypes, Card, VersionIds
  <2>3. card'[m] = c /\ UNCHANGED <<version, lastId>>
    BY <1>6, <2>1 DEF CardTypes, OpenCard, vars
  <2>4. CardIsTrue(card[m])'
    BY <2>1, <2>3 DEF CardIsTrue, VersionIds
  <2>5. \A n \in Moderators : CardIsTrue(card[n])'
    BY <1>2, <2>2, <2>4
  <2>6. QED
    BY <1>1, <2>2, <2>5 DEF CardsAreTrue
<1>7. QED
  BY <1>4, <1>5, <1>6 DEF DeskNext, PublishCard, ReturnCard, CloseCard, deskVars

(* No moderator looks at anything yet. *)
LEMMA DeskInvInit == DeskInit => DeskInv
  BY IInvInit DEF DeskInit, DeskInv, CardTypes, CardsAreTrue, CardIsTrue, NoCard

(* What an open queue card says of its version id is so, or the id is gone. *)
THEOREM DeskInvariance == DeskSpec => []DeskInv
  BY DeskInvInit, DeskInvStep, PTL DEF DeskSpec

(* Moderators who decide from stale cards do nothing the routes alone do   *)
(* not do: what is proved of the core holds with the queue in front of it. *)
THEOREM DeskImplementsPublishing == DeskSpec => Spec
<1>1. DeskInit => Init
  BY DEF DeskInit
<1>2. DeskInv /\ [DeskNext]_deskVars => [Next]_vars
  BY DeskStepIsCoreStep DEF DeskInv
<1>3. QED
  BY <1>1, <1>2, DeskInvariance, PTL DEF DeskSpec, Spec

(* A decision that took effect is the one of the card that closed. *)
LEMMA DecisionIsTheCards ==
    ASSUME [DeskNext]_deskVars, CardTypes, NEW m \in Moderators, Decided(m), card[m].proposal
    PROVE  AcceptShown(m, card[m]) \/ RejectVersion(m, card[m].scn, card[m].vid)
<1>1. card[m] # NoCard /\ card'[m] = NoCard /\ ~UNCHANGED vars
  BY DEF Decided, vars
<1>2. ASSUME NEW n \in Moderators, Reloaded(n) PROVE n = m
  BY <1>1, <1>2 DEF Reloaded, CardTypes
<1>3. QED
  BY <1>1, <1>2 DEF DeskNext, deskVars, vars, OpenCard, PublishCard, ReturnCard, CloseCard

(* Accepting takes the proposal off the desk and no other. *)
LEMMA AcceptTakesOne ==
    ASSUME TypeOK, NEW m \in Moderators, NEW s \in Scenarios, NEW v \in VersionIds, Accept(m, s, v)
    PROVE  /\ PendingOf(s)' = PendingOf(s) \ {v}
           /\ scenario'[s].archive = version[v].archive
<1>1. IsVersion(s, v, "pending") /\ version[v] \in VersionRow
  BY DEF Accept, IsVersion, TypeOK, NoVersion
<1>2. version' = Promoted(s, v)
  BY DEF Accept, Promote
<1>3. version'[v].state = "current"
  BY <1>1, <1>2 DEF Promoted, VersionRow
<1>4. ASSUME NEW w \in VersionIds, w # v
      PROVE  IsVersion(s, w, "pending")' <=> IsVersion(s, w, "pending")
  <2>1. CASE w \in CurrentOf(s)
    <3>1. version[w] \in VersionRow /\ version[w].state = "current"
      BY <2>1 DEF CurrentOf, IsVersion, TypeOK, NoVersion
    <3>2. version'[w] = Archived(w)
      BY <1>2, <1>4, <2>1 DEF Promoted
    <3>3. QED
      BY <3>1, <3>2 DEF Archived, IsVersion, VersionRow
  <2>2. CASE w \notin CurrentOf(s)
    BY <1>2, <1>4, <2>2 DEF Promoted, IsVersion
  <2>3. QED
    BY <2>1, <2>2
<1>5. PendingOf(s)' = PendingOf(s) \ {v}
  BY <1>3, <1>4 DEF PendingOf, VersionIds, IsVersion
<1>6. scenario'[s] = PointedAt(scenario[s], version[v].archive)
  BY DEF Accept, Promote, TypeOK
<1>7. scenario'[s].archive = version[v].archive
  BY <1>1, <1>6, PointedAtType DEF TypeOK, VersionRow
<1>8. QED
  BY <1>5, <1>7

(* So does rejecting, and the row of the scenario stays as it is. *)
LEMMA RejectTakesOne ==
    ASSUME TypeOK, NEW m \in Moderators, NEW s \in Scenarios, NEW v \in VersionIds,
           RejectVersion(m, s, v)
    PROVE  PendingOf(s)' = PendingOf(s) \ {v} /\ UNCHANGED scenario
<1>1. UNCHANGED scenario /\ version' = [version EXCEPT ![v] = NoVersion]
  BY DEF RejectVersion, RemoveVersion
<1>2. /\ version'[v] = NoVersion
      /\ \A w \in VersionIds \ {v} : version'[w] = version[w]
  BY <1>1 DEF TypeOK
<1>3. \A w \in VersionIds :
        IsVersion(s, w, "pending")' <=> IsVersion(s, w, "pending") /\ w # v
  BY <1>2 DEF IsVersion, NoVersion
<1>4. QED
  BY <1>1, <1>3 DEF PendingOf, VersionIds

(* A decision on a proposal is about the archive on the card, however old  *)
(* the card is: the id it sends is of that archive or of nothing.          *)
THEOREM DecisionsAreOnTheCard == DeskSpec => ProposalDecisionIsOnTheCard
<1> DEFINE OnTheCard ==
        \A m \in Moderators, s \in Scenarios :
          Decided(m) /\ card[m].proposal /\ card[m].scn = s =>
             /\ scenario' # scenario => scenario'[s].archive = card[m].archive
             /\ PendingOf(s)' = PendingOf(s) \ {card[m].vid}
<1>1. DeskInv /\ [DeskNext]_deskVars => [OnTheCard]_deskVars
  <2> SUFFICES ASSUME DeskInv, [DeskNext]_deskVars,
                      NEW m \in Moderators, NEW s \in Scenarios,
                      Decided(m), card[m].proposal, card[m].scn = s
               PROVE  /\ scenario' # scenario => scenario'[s].archive = card[m].archive
                      /\ PendingOf(s)' = PendingOf(s) \ {card[m].vid}
    OBVIOUS
  <2>1. CardIsTrue(card[m]) /\ TypeOK
    BY DEF DeskInv, CardsAreTrue, IInv
  <2>2. PICK v \in VersionIds : v = card[m].vid
    BY <2>1 DEF CardIsTrue
  <2>3. CASE Accept(m, s, v)
    <3>1. version[v].archive = card[m].archive
      BY <2>1, <2>2, <2>3 DEF CardIsTrue, Accept, IsVersion, NoVersion
    <3>2. QED
      BY <2>1, <2>2, <2>3, <3>1, AcceptTakesOne
  <2>4. CASE RejectVersion(m, s, v)
    BY <2>1, <2>2, <2>4, RejectTakesOne
  <2>5. QED
    BY <2>2, <2>3, <2>4, DecisionIsTheCards DEF AcceptShown, DeskInv
<1>2. QED
  BY <1>1, DeskInvariance, PTL DEF DeskSpec, ProposalDecisionIsOnTheCard

=============================================================================
