----------------------------- MODULE Publishing -----------------------------
(***************************************************************************)
(* The publishing core of the backend: scenario rows with their moderation *)
(* status (workflow.js), the archive history (versions.js) and the routes  *)
(* that change either.  A route runs in one transaction under the          *)
(* scenario's row lock (FOR UPDATE), so each is one action here.  The two  *)
(* that receive an archive look at the row without the lock first, spend   *)
(* seconds on the body, its validation and the object store, and only then *)
(* open their transaction: each is a start and a finish, and anything may  *)
(* happen between the two.                                                 *)
(***************************************************************************)
EXTENDS Naturals, FiniteSets

CONSTANTS
    Scenarios,        \* catalog ids
    Archives,         \* archive contents, one per SHA-256
    GradedArchives,   \* those whose manifest says graded: true
    HandUrls,         \* archives a moderator may type into scenario_url
    Authors,          \* author keys
    Moderators,       \* moderator keys and the bootstrap token
    Requests,         \* slots for archive requests in flight
    MaxVersions,      \* versions kept per scenario (50 in the code)
    MaxVersionId,     \* bound: version ids handed out in a run of the model
    NoArchive, NoOne

ASSUME ConstantsAssumption ==
    /\ GradedArchives \subseteq Archives
    /\ HandUrls \subseteq Archives
    /\ NoArchive \notin Archives
    /\ Authors \cap Moderators = {}
    /\ NoOne \notin Authors \cup Moderators
    /\ MaxVersions \in Nat \ {0}
    /\ MaxVersionId \in Nat

VARIABLES
    scenario,     \* scenario[s]: the row of s in `scenarios`
    version,      \* version[v]: the row with id v in `scenario_versions`
    lastId,       \* the last value of the SERIAL behind version ids
    request,      \* request[r]: an archive upload between its two looks at the row
    letThrough    \* history: what students got of s after a moderator's last act on it

vars == <<scenario, version, lastId, request, letThrough>>

-----------------------------------------------------------------------------
(* Rows *)

Principals == Authors \cup Moderators
VersionIds == 1..MaxVersionId
Statuses == {"draft", "review", "published", "rejected"}

Row == [status  : Statuses \cup {"absent"},
        owner   : Principals \cup {NoOne},
        archive : Archives \cup {NoArchive},   \* archive_sha256
        graded  : BOOLEAN,
        url     : Archives \cup {NoArchive},   \* scenario_url
        note    : BOOLEAN]                     \* moderator_note is not null

NoRow == [status |-> "absent", owner |-> NoOne, archive |-> NoArchive,
          graded |-> FALSE, url |-> NoArchive, note |-> FALSE]

(* A row fresh from POST /api/catalog or from-archive: a draft, no archive. *)
DraftOf(p, u) == [NoRow EXCEPT !.status = "draft", !.owner = p, !.url = u]

VersionRow == [scn     : Scenarios,
               archive : Archives,
               by      : Principals,           \* uploaded_by_key_id
               state   : {"current", "pending", "archived"}]

NoVersion == [state |-> "none"]

ArchiveRequest == [kind : {"upload", "create"}, by : Principals,
                   scn : Scenarios, archive : Archives]

NoRequest == [kind |-> "idle"]

TypeOK ==
    /\ scenario \in [Scenarios -> Row]
    /\ version \in [VersionIds -> VersionRow \cup {NoVersion}]
    /\ lastId \in 0..MaxVersionId
    /\ request \in [Requests -> ArchiveRequest \cup {NoRequest}]
    /\ letThrough \in [Scenarios -> Archives \cup {NoArchive}]

Init ==
    /\ scenario = [s \in Scenarios |-> NoRow]
    /\ version = [v \in VersionIds |-> NoVersion]
    /\ lastId = 0
    /\ request = [r \in Requests |-> NoRequest]
    /\ letThrough = [s \in Scenarios |-> NoArchive]

-----------------------------------------------------------------------------
(* Queries *)

IsModerator(p) == p \in Moderators

(* auth.js canEditScenario *)
MayEdit(p, row) == IsModerator(p) \/ row.owner = p

IsVersion(s, v, state) ==
    /\ version[v].state = state
    /\ version[v].scn = s

VersionsOf(s) == {v \in VersionIds : version[v].state # "none" /\ version[v].scn = s}
CurrentOf(s) == {v \in VersionIds : IsVersion(s, v, "current")}
PendingOf(s) == {v \in VersionIds : IsVersion(s, v, "pending")}

(* What a student who opens the scenario downloads (PUBLIC_ROW, scenario_url). *)
Served(row) == IF row.status = "published" THEN row.url ELSE NoArchive

(* After a moderator's act, letThrough[s] is what that act left students with. *)
RecordAct(p, s) ==
    letThrough' = IF IsModerator(p)
                  THEN [letThrough EXCEPT ![s] = Served(scenario'[s])]
                  ELSE letThrough

-----------------------------------------------------------------------------
(* workflow.js: the five status transitions *)

Transitions ==
    [submit    |-> [from |-> {"draft", "rejected"}, to |-> "review",
                    by |-> "owner", needsVersion |-> TRUE, note |-> "clear"],
     withdraw  |-> [from |-> {"review"}, to |-> "draft",
                    by |-> "owner", needsVersion |-> FALSE, note |-> "keep"],
     approve   |-> [from |-> {"review", "draft", "rejected"}, to |-> "published",
                    by |-> "moderator", needsVersion |-> TRUE, note |-> "clear"],
     reject    |-> [from |-> {"review"}, to |-> "rejected",
                    by |-> "moderator", needsVersion |-> FALSE, note |-> "set"],
     unpublish |-> [from |-> {"published"}, to |-> "draft",
                    by |-> "moderator", needsVersion |-> FALSE, note |-> "keep"]]

Moved(row, rule) ==
    [row EXCEPT !.status = rule.to,
                !.note = CASE rule.note = "set"   -> TRUE
                           [] rule.note = "clear" -> FALSE
                           [] rule.note = "keep"  -> @]

(* Slip: needsVersion is not looked at. *)
MayMoveWithoutArchive(p, s, rule) ==
    /\ IF rule.by = "moderator" THEN IsModerator(p) ELSE MayEdit(p, scenario[s])
    /\ scenario[s].status \in rule.from

MayMove(p, s, rule) ==
    /\ IF rule.by = "moderator" THEN IsModerator(p) ELSE MayEdit(p, scenario[s])
    /\ scenario[s].status \in rule.from
    /\ rule.needsVersion => CurrentOf(s) # {}

(* POST /api/scenarios/:id/{submit|withdraw|approve|reject|unpublish}; one id of a bulk. *)
ApplyTransition(p, s, action) ==
    /\ MayMove(p, s, Transitions[action])
    /\ scenario' = [scenario EXCEPT ![s] = Moved(@, Transitions[action])]
    /\ RecordAct(p, s)
    /\ UNCHANGED <<version, lastId, request>>

-----------------------------------------------------------------------------
(* catalog-admin.js: the catalog row itself *)

(* POST /api/catalog: only a moderator may send a scenario_url. *)
CreateScenario(p, s, u) ==
    /\ scenario[s].status = "absent"
    /\ u # NoArchive => IsModerator(p)
    /\ scenario' = [scenario EXCEPT ![s] = DraftOf(p, u)]
    /\ RecordAct(p, s)
    /\ UNCHANGED <<version, lastId, request>>

(* The compatibility field isPublished of PUT /api/catalog/:id is approve or unpublish. *)
PublishedAsAsked(m, s, wanted) ==
    CASE wanted = "yes" /\ scenario[s].status # "published" ->
            Moved(scenario[s], Transitions.approve)
      [] wanted = "no" /\ scenario[s].status = "published" ->
            Moved(scenario[s], Transitions.unpublish)
      [] OTHER -> scenario[s]

(* PUT /api/catalog/:id by a moderator: isPublished and scenario_url, either or both. *)
UpdateScenario(m, s, wanted, u) ==
    /\ scenario[s].status # "absent"
    /\ wanted = "yes" /\ scenario[s].status # "published" => CurrentOf(s) # {}
    /\ scenario' = [scenario EXCEPT ![s] =
                      IF u = NoArchive THEN PublishedAsAsked(m, s, wanted)
                      ELSE [PublishedAsAsked(m, s, wanted) EXCEPT !.url = u]]
    /\ RecordAct(m, s)
    /\ UNCHANGED <<version, lastId, request>>

(* DELETE /api/catalog/:id, or one id of a bulk delete: versions go by cascade. *)
DeleteScenario(m, s) ==
    /\ scenario[s].status # "absent"
    /\ scenario' = [scenario EXCEPT ![s] = NoRow]
    /\ version' = [v \in VersionIds |-> IF v \in VersionsOf(s) THEN NoVersion ELSE version[v]]
    /\ RecordAct(m, s)
    /\ UNCHANGED <<lastId, request>>

-----------------------------------------------------------------------------
(* versions.js: the archive history, under the row lock of s *)

(* Slip: graded is copied as the manifest has it, NULL when absent. *)
PointedAtRawGraded(row, a) ==
    [row EXCEPT !.url = a, !.archive = a,
                !.graded = IF a \in GradedArchives THEN TRUE ELSE NoArchive]

(* Slip: the row keeps the graded flag of the previous archive. *)
PointedAtKeepingGraded(row, a) == [row EXCEPT !.url = a, !.archive = a]

PointedAt(row, a) ==
    [row EXCEPT !.url = a, !.archive = a, !.graded = (a \in GradedArchives)]

(* Slip: the status that decides is not the locked row's. *)
UploadStateUnlocked(p, row) == "current"

(* An author's upload to a published scenario waits; anything else is current at once. *)
UploadState(p, row) ==
    IF row.status = "published" /\ ~IsModerator(p) THEN "pending" ELSE "current"

(* Bytes already current - or, for a proposal, already pending - change nothing. *)
AlreadyThere(row, s, p, a) ==
    \E v \in CurrentOf(s) \cup (IF UploadState(p, row) = "pending" THEN PendingOf(s) ELSE {}) :
        version[v].archive = a

(* Slip: making room takes the version in use along. *)
DroppedWithCurrent(row, s, p) ==
    IF row.status = "published" /\ IsModerator(p) THEN {} ELSE PendingOf(s) \cup CurrentOf(s)

(* A moderator's upload to a published scenario leaves the author's proposal alone. *)
DroppedBy(row, s, p) ==
    IF row.status = "published" /\ IsModerator(p) THEN {} ELSE PendingOf(s)

HasRoom(row, s, p) ==
    Cardinality(VersionsOf(s) \ DroppedBy(row, s, p)) < MaxVersions

Archived(v) == [version[v] EXCEPT !.state = "archived"]

Installed(row, s, p, a) ==
    [v \in VersionIds |->
        CASE v = lastId + 1 ->
                [scn |-> s, archive |-> a, by |-> p, state |-> UploadState(p, row)]
          [] v # lastId + 1 /\ v \in DroppedBy(row, s, p) -> NoVersion
          [] v # lastId + 1 /\ v \in CurrentOf(s) /\ UploadState(p, row) = "current" -> Archived(v)
          [] OTHER -> version[v]]

(* installUpload: row is the locked row of s, p the uploader, a the stored archive. *)
InstallUpload(row, s, p, a) ==
    \/ /\ AlreadyThere(row, s, p, a)
       /\ scenario' = [scenario EXCEPT ![s] = row]
       /\ UNCHANGED <<version, lastId>>
    \/ /\ ~AlreadyThere(row, s, p, a)
       /\ HasRoom(row, s, p)
       /\ lastId < MaxVersionId
       /\ lastId' = lastId + 1
       /\ version' = Installed(row, s, p, a)
       /\ scenario' = [scenario EXCEPT ![s] =
                         IF UploadState(p, row) = "current" THEN PointedAt(row, a) ELSE row]

(* Slip: the old current version is not archived. *)
PromotedBesideCurrent(s, v) ==
    [w \in VersionIds |-> IF w = v THEN [version[w] EXCEPT !.state = "current"] ELSE version[w]]

(* promote: v becomes the current version of s and the row points at it. *)
Promoted(s, v) ==
    [w \in VersionIds |->
        CASE w = v -> [version[w] EXCEPT !.state = "current"]
          [] w # v /\ w \in CurrentOf(s) -> Archived(w)
          [] OTHER -> version[w]]

Promote(s, v) ==
    /\ version' = Promoted(s, v)
    /\ scenario' = [scenario EXCEPT ![s] = PointedAt(@, version[v].archive)]

-----------------------------------------------------------------------------
(* routes/versions.js: decisions on one version *)

Accept(m, s, v) ==
    /\ IsVersion(s, v, "pending")
    /\ Promote(s, v)
    /\ RecordAct(m, s)
    /\ UNCHANGED <<lastId, request>>

Restore(m, s, v) ==
    /\ IsVersion(s, v, "archived")
    /\ Promote(s, v)
    /\ RecordAct(m, s)
    /\ UNCHANGED <<lastId, request>>

RemoveVersion(p, s, v) ==
    /\ version' = [version EXCEPT ![v] = NoVersion]
    /\ UNCHANGED <<scenario, lastId, request>>
    /\ RecordAct(p, s)

RejectVersion(m, s, v) ==
    /\ IsVersion(s, v, "pending")
    /\ RemoveVersion(m, s, v)

(* An author withdraws a proposal; archived history is a moderator's; current stays. *)
DeleteVersion(p, s, v) ==
    /\ MayEdit(p, scenario[s])
    /\ \/ IsVersion(s, v, "pending")
       \/ IsVersion(s, v, "archived") /\ IsModerator(p)
    /\ RemoveVersion(p, s, v)

-----------------------------------------------------------------------------
(* routes/archives.js: the two routes that receive an archive *)

(* The unlocked look; the body is then received, validated and stored. *)
StartUpload(r, p, s, a) ==
    /\ request[r] = NoRequest
    /\ scenario[s].status \notin {"absent", "review"}
    /\ MayEdit(p, scenario[s])
    /\ request' = [request EXCEPT ![r] =
                     [kind |-> "upload", by |-> p, scn |-> s, archive |-> a]]
    /\ UNCHANGED <<scenario, version, lastId, letThrough>>

(* Slips: only one of the two checks is repeated under the lock. *)
MayInstallAnyOwner(q) == scenario[q.scn].status \notin {"absent", "review"}

MayInstallAnyStatus(q) ==
    /\ scenario[q.scn].status # "absent"
    /\ MayEdit(q.by, scenario[q.scn])

MayInstall(q) ==
    /\ scenario[q.scn].status \notin {"absent", "review"}
    /\ MayEdit(q.by, scenario[q.scn])

(* The transaction: owner and status are read again under the lock. *)
FinishUpload(r) ==
    LET q == request[r] IN
    /\ q.kind = "upload"
    /\ MayInstall(q)
    /\ InstallUpload(scenario[q.scn], q.scn, q.by, q.archive)
    /\ request' = [request EXCEPT ![r] = NoRequest]
    /\ RecordAct(q.by, q.scn)

StartFromArchive(r, p, s, a) ==
    /\ request[r] = NoRequest
    /\ scenario[s].status = "absent"
    /\ request' = [request EXCEPT ![r] =
                     [kind |-> "create", by |-> p, scn |-> s, archive |-> a]]
    /\ UNCHANGED <<scenario, version, lastId, letThrough>>

(* The row and its first version in one transaction; a taken id fails it (23505). *)
FinishFromArchive(r) ==
    LET q == request[r] IN
    /\ q.kind = "create"
    /\ scenario[q.scn].status = "absent"
    /\ InstallUpload(DraftOf(q.by, NoArchive), q.scn, q.by, q.archive)
    /\ request' = [request EXCEPT ![r] = NoRequest]
    /\ RecordAct(q.by, q.scn)

(* Refused, invalid, disconnected, or the process stopped: no row was written. *)
AbandonRequest(r) ==
    /\ request[r] # NoRequest
    /\ request' = [request EXCEPT ![r] = NoRequest]
    /\ UNCHANGED <<scenario, version, lastId, letThrough>>

-----------------------------------------------------------------------------

WorkflowNext ==
    \E s \in Scenarios, p \in Principals, action \in DOMAIN Transitions :
        ApplyTransition(p, s, action)

CatalogNext ==
    \E s \in Scenarios, u \in HandUrls \cup {NoArchive} :
        \/ \E p \in Principals : CreateScenario(p, s, u)
        \/ \E m \in Moderators, wanted \in {"yes", "no", "unsaid"} : UpdateScenario(m, s, wanted, u)
        \/ \E m \in Moderators : DeleteScenario(m, s)

HistoryNext ==
    \E s \in Scenarios, v \in VersionIds :
        \/ \E m \in Moderators : Accept(m, s, v) \/ RejectVersion(m, s, v) \/ Restore(m, s, v)
        \/ \E p \in Principals : DeleteVersion(p, s, v)

ArchiveNext ==
    \E r \in Requests :
        \/ \E p \in Principals, s \in Scenarios, a \in Archives :
              StartUpload(r, p, s, a) \/ StartFromArchive(r, p, s, a)
        \/ FinishUpload(r) \/ FinishFromArchive(r) \/ AbandonRequest(r)

Next == WorkflowNext \/ CatalogNext \/ HistoryNext \/ ArchiveNext

Spec == Init /\ [][Next]_vars

-----------------------------------------------------------------------------
(* Correctness *)

(***************************************************************************)
(* At most one current and one pending version per scenario, and no        *)
(* version of a scenario that is gone: kept by the code alone, the partial *)
(* unique indexes of migration 010 being only the backstop.                *)
(***************************************************************************)
OneCurrentOnePending ==
    \A v, w \in VersionIds :
        version[v].state # "none" =>
            /\ scenario[version[v].scn].status # "absent"
            /\ /\ version[w].state = version[v].state
               /\ version[w].scn = version[v].scn
               /\ version[v].state \in {"current", "pending"}
               => v = w

(***************************************************************************)
(* archive_sha256 and graded mirror the current version (versions.js 3-6), *)
(* and a scenario with no current version has neither: what the grade      *)
(* passback believes about a scenario is about the archive students run.   *)
(***************************************************************************)
RowMirrorsCurrent ==
    \A s \in Scenarios :
        /\ \A v \in CurrentOf(s) :
              /\ scenario[s].archive = version[v].archive
              /\ scenario[s].graded = (version[v].archive \in GradedArchives)
        /\ CurrentOf(s) = {} => scenario[s].archive = NoArchive /\ ~scenario[s].graded

(***************************************************************************)
(* A scenario that is under review, returned or published has an archive:  *)
(* no sequence of uploads, decisions and deletions takes the last current  *)
(* version away, so an approve or a student never meets an empty scenario. *)
(***************************************************************************)
NothingShownWithoutArchive ==
    \A s \in Scenarios :
        scenario[s].status \in {"review", "rejected", "published"} => CurrentOf(s) # {}

(* A moderator's note stands on exactly the scenarios that are returned. *)
NoteExplainsRejection ==
    \A s \in Scenarios : scenario[s].note <=> scenario[s].status = "rejected"

(***************************************************************************)
(* What students download is what a moderator's last act on the scenario   *)
(* left them with: nothing an author does, and no upload that started      *)
(* before an approve and lands after it, changes it.                       *)
(***************************************************************************)
StudentsSeeWhatModeratorsLetThrough ==
    \A s \in Scenarios : Served(scenario[s]) = letThrough[s]

(***************************************************************************)
(* Every version was uploaded by a moderator or by the key that owns the   *)
(* scenario now - also when the scenario was deleted and created again by  *)
(* another author while the upload was in flight - and only an author's    *)
(* archive is ever pending.                                                *)
(***************************************************************************)
VersionsComeFromOwners ==
    \A v \in VersionIds :
        version[v].state # "none" =>
            /\ MayEdit(version[v].by, scenario[version[v].scn])
            /\ version[v].state = "pending" => ~IsModerator(version[v].by)

(* The history never grows over MAX_VERSIONS, proposals included. *)
HistoryBounded ==
    \A s \in Scenarios : Cardinality(VersionsOf(s)) <= MaxVersions

(***************************************************************************)
(* While a scenario stays under review nothing enters its history (409),   *)
(* also not an upload that looked at the row before the submit.            *)
(***************************************************************************)
NothingEntersUnderReview ==
    [][\A s \in Scenarios :
          scenario[s].status = "review" /\ scenario'[s].status = "review"
             => VersionsOf(s)' \subseteq VersionsOf(s)]_vars

(***************************************************************************)
(* The students' view of it all, ModeratedCatalog, is implemented: what is *)
(* shown comes from the scenario's own history and stays in it.            *)
(***************************************************************************)
Offered == [s \in Scenarios |-> {version[v].archive : v \in VersionsOf(s)}]
Shown == [s \in Scenarios |->
             IF scenario[s].status = "published" THEN scenario[s].archive ELSE NoArchive]

Catalog == INSTANCE ModeratedCatalog WITH offered <- Offered, shown <- Shown

ImplementsCatalog == Catalog!Spec

=============================================================================
