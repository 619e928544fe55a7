---------------------------- MODULE ReleaseTools ----------------------------
(***************************************************************************)
(* The two scripts that bring a release into a deployed catalog: one       *)
(* publishes its archives through the admin API, one copies its assets     *)
(* into the store behind nginx and then registers the manifests.  Each may *)
(* be stopped anywhere and run again, a call may fail or lose its answer,  *)
(* the backends may be away, and moderators go on working in the panel.    *)
(* A dry run and a staged-only import write nothing and are left out.      *)
(***************************************************************************)
EXTENDS BackendStart

CONSTANTS
    Scenarios,    \* catalog ids
    InRelease,    \* those the release has an archive of
    Metadata,     \* CATALOG_METADATA: what is public, and what supersedes which rows
    Objects,      \* Objects[r][s]: the objects that release r's streaming manifest of s names
    MaxOthers     \* bound on what others do to the catalog

ASSUME ReleaseToolsAssumption ==
    /\ InRelease \subseteq Scenarios
    /\ Metadata \in [InRelease -> [published : BOOLEAN, supersedes : SUBSET (Scenarios \ InRelease)]]
    /\ DOMAIN Objects \subseteq Nat \ {0}
    /\ \A r \in DOMAIN Objects : DOMAIN Objects[r] = Scenarios
    /\ MaxOthers \in Nat

Public == {s \in InRelease : Metadata[s].published}
ReplacedBy(done) == UNION {Metadata[s].supersedes : s \in done}

(* The archives one run takes: those of the release, or those that --only names. *)
Selections == SUBSET InRelease \ {{}}

Releases == DOMAIN Objects
Manifests(r) == {s \in Scenarios : Objects[r][s] # {}}

(* Any of a release's manifests may be one that the player cannot read. *)
Readable(r) == SUBSET Manifests(r) \ {{}}

VARIABLES
    rows,      \* scenarios: status, bytes of the current archive, manifest_url set
    publisher, \* the run of publish-release: its place, the rows it listed, its results and problems
    changed,   \* history: rows that others changed since the publisher listed them
    others,    \* how many changes others have made
    importer,  \* the run of import-release-assets: its place, its release, what is left of it
    assets,    \* the asset store: objects, and the release of each manifest
    torn       \* history: scenarios whose copy was begun and not completed since, objects said missing

publishVars == <<publisher, changed>>
importVars == <<importer, assets, torn>>
toolVars == <<rows, publishVars, others, importVars>>
vars == <<backendVars, toolVars>>

NoRow == [status |-> "absent", bytes |-> "none", manifest |-> FALSE]
NewRow == [NoRow EXCEPT !.status = "draft"]
Exists(s) == rows[s] # NoRow

NoList == [s \in Scenarios |-> NoRow]
Rest == [at |-> "rest", id |-> None, list |-> NoList, todo |-> {}, done |-> {}, problems |-> FALSE]
Idle == [at |-> "rest", release |-> 0, files |-> {}, ids |-> {}]

Init ==
    /\ StartInit
    /\ rows \in [Scenarios -> {NoRow, [NewRow EXCEPT !.status = "published", !.bytes = "other"]}]
    /\ \A s \in InRelease : ~Exists(s)
    /\ publisher = Rest /\ changed = {} /\ others = 0
    /\ importer = Idle
    /\ assets = [objects |-> {}, manifest |-> [s \in Scenarios |-> 0]]
    /\ torn = [scenarios |-> {}, missing |-> {}]

-----------------------------------------------------------------------------
(* The admin API for a moderator, as far as the scripts need it. *)

Served == \E b \in Instances : Serves(b)

Becomes(s, row) == rows' = [rows EXCEPT ![s] = row]

Create(s) == ~Exists(s) /\ Becomes(s, NewRow)
Update(s) == Exists(s) /\ UNCHANGED rows
Register(s) == Exists(s) /\ Becomes(s, [rows[s] EXCEPT !.manifest = TRUE])
Upload(s, bytes) ==
    /\ Exists(s) /\ rows[s].status # "review"
    /\ Becomes(s, [rows[s] EXCEPT !.bytes = bytes])
Approve(s) ==
    /\ rows[s].status \in {"review", "draft", "rejected"} /\ rows[s].bytes # "none"
    /\ Becomes(s, [rows[s] EXCEPT !.status = "published"])
Unpublish(s) ==
    /\ rows[s].status = "published"
    /\ Becomes(s, [rows[s] EXCEPT !.status = "draft"])
Delete(s) == Exists(s) /\ Becomes(s, NoRow)

(* Others, moderators and authors, in the panel. *)
SentForReview(s) ==
    /\ rows[s].status \in {"draft", "rejected"} /\ rows[s].bytes # "none"
    /\ Becomes(s, [rows[s] EXCEPT !.status = "review"])
Rejected(s) == rows[s].status = "review" /\ Becomes(s, [rows[s] EXCEPT !.status = "rejected"])

OthersChange(s) ==
    /\ others < MaxOthers
    /\ Served
    /\ \/ Create(s) \/ Upload(s, "other") \/ Approve(s) \/ Unpublish(s) \/ Delete(s)
       \/ SentForReview(s) \/ Rejected(s)
    /\ others' = others + 1
    /\ changed' = changed \cup {s}
    /\ UNCHANGED <<backendVars, publisher, importVars>>

-----------------------------------------------------------------------------
(* publish-release.mjs *)

(* A call that fails was not carried out, or was and its answer is lost. *)
Failed(Effect) == (Served /\ Effect) \/ UNCHANGED rows
Done(Effect) == Served /\ Effect

(* One run lists the rows once; `--only` narrows its archives. *)
PublisherStarts(only) ==
    /\ publisher.at \in {"rest", "ok", "failed"}
    /\ Served
    /\ publisher' = [Rest EXCEPT !.at = "next", !.list = rows, !.todo = only]
    /\ changed' = {}
    /\ UNCHANGED <<backendVars, rows, others, importVars>>

(* The next archive, refused by what the script checks before it calls the API, or not. *)
ArchiveTaken(s) ==
    /\ publisher.at = "next" /\ s \in publisher.todo
    /\ \/ publisher' = [publisher EXCEPT !.at = "row", !.id = s, !.todo = @ \ {s}]
       \/ publisher' = [publisher EXCEPT !.problems = TRUE, !.todo = @ \ {s}]
    /\ UNCHANGED <<backendVars, rows, changed, others, importVars>>

WasPublished(s) == publisher.list[s].status = "published"

(* Slip: a row that was there is left as it is. *)
NeedsMoveIfNew(s) == publisher.list[s] = NoRow /\ s \in Public

(* A new row is a draft; one that was there is what the list said of it. *)
NeedsMove(s) == (s \in Public) # WasPublished(s)

RowCall(s) == IF publisher.list[s] = NoRow THEN Create(s) ELSE Update(s)
MoveCall(s) == IF s \in Public THEN Approve(s) ELSE Unpublish(s)

After(at) ==
    IF at = "next" THEN [publisher EXCEPT !.at = at, !.id = None, !.done = @ \cup {publisher.id}]
                   ELSE [publisher EXCEPT !.at = at]

(* publishOne: each call is awaited, the first failure is the archive's problem. *)
PublisherCalls ==
    /\ \/ publisher.at = "row" /\ Done(RowCall(publisher.id)) /\ publisher' = After("upload")
       \/ /\ publisher.at = "upload" /\ Done(Upload(publisher.id, "release"))
          /\ publisher' = After(IF NeedsMove(publisher.id) THEN "move" ELSE "next")
       \/ publisher.at = "move" /\ Done(MoveCall(publisher.id)) /\ publisher' = After("next")
    /\ UNCHANGED <<backendVars, changed, others, importVars>>

PublisherCallFails ==
    /\ \/ publisher.at = "row" /\ Failed(RowCall(publisher.id))
       \/ publisher.at = "upload" /\ Failed(Upload(publisher.id, "release"))
       \/ publisher.at = "move" /\ Failed(MoveCall(publisher.id))
    /\ publisher' = [publisher EXCEPT !.at = "next", !.id = None, !.problems = TRUE]
    /\ UNCHANGED <<backendVars, changed, others, importVars>>

(* Slip: whatever the release replaces goes, published this time or not. *)
SupersededByAny == {o \in ReplacedBy(InRelease) : publisher.list[o] # NoRow}

Superseded == {o \in ReplacedBy(publisher.done) : publisher.list[o] # NoRow}

(* All archives are through; `--prune-superseded` deletes, otherwise the rows are only named. *)
PublisherPrunes ==
    /\ publisher.at = "next" /\ publisher.todo = {}
    /\ \E prune \in {Superseded, {}} : publisher' = [publisher EXCEPT !.at = "prune", !.todo = prune]
    /\ UNCHANGED <<backendVars, rows, changed, others, importVars>>

RowPruned(o) ==
    /\ publisher.at = "prune" /\ o \in publisher.todo
    /\ \/ Done(Delete(o)) /\ publisher' = [publisher EXCEPT !.todo = @ \ {o}]
       \/ Failed(Delete(o)) /\ publisher' = [publisher EXCEPT !.todo = @ \ {o}, !.problems = TRUE]
    /\ UNCHANGED <<backendVars, changed, others, importVars>>

PublisherReports ==
    /\ publisher.at = "prune" /\ publisher.todo = {}
    /\ publisher' = [publisher EXCEPT !.at = IF publisher.problems THEN "failed" ELSE "ok", !.list = NoList]
    /\ UNCHANGED <<backendVars, rows, changed, others, importVars>>

PublisherStops ==
    /\ publisher.at \notin {"rest", "ok", "failed"}
    /\ publisher' = Rest /\ changed' = {}
    /\ UNCHANGED <<backendVars, rows, others, importVars>>

-----------------------------------------------------------------------------
(* import-release-assets.mjs *)

StagedFiles(r, ids, missing) ==
    {<<"object", o>> : o \in (UNION {Objects[r][s] : s \in ids}) \ missing} \cup {<<"manifest", s>> : s \in ids}

(* Manifests the player cannot read are not staged; one with a missing object is, and said so. *)
ImportStarts(r, ids, missing) ==
    /\ importer = Idle
    /\ importer' = [at |-> "copying", release |-> r, files |-> StagedFiles(r, ids, missing), ids |-> ids]
    /\ torn' = [torn EXCEPT !.scenarios = @ \cup ids, !.missing = @ \cup missing]
    /\ UNCHANGED <<backendVars, rows, publishVars, others, assets>>

(* `docker compose cp` writes file by file. *)
FileCopied(f) ==
    /\ importer.at = "copying" /\ f \in importer.files
    /\ importer' = [importer EXCEPT !.files = @ \ {f}]
    /\ assets' = IF f[1] = "object" THEN [assets EXCEPT !.objects = @ \cup {f[2]}]
                                    ELSE [assets EXCEPT !.manifest[f[2]] = importer.release]
    /\ UNCHANGED <<backendVars, rows, publishVars, others, torn>>

(* Slip: a copy that failed is taken for done. *)
CopyTried == importer.at = "copying"

CopyIsDone == importer.at = "copying" /\ importer.files = {}

CopyDone ==
    /\ CopyIsDone
    /\ importer' = [importer EXCEPT !.at = "registering", !.files = {}]
    /\ torn' = [torn EXCEPT !.scenarios = @ \ importer.ids]
    /\ UNCHANGED <<backendVars, rows, publishVars, others, assets>>

(* PUT manifestUrl: an answer that is not ok skips the row, no answer ends the script. *)
ManifestRegistered(s) ==
    /\ importer.at = "registering" /\ s \in importer.ids
    /\ Failed(Register(s))
    /\ importer' = [importer EXCEPT !.ids = @ \ {s}]
    /\ UNCHANGED <<backendVars, publishVars, others, assets, torn>>

(* The end, a failed copy, a failed call, no ADMIN_TOKEN, or Ctrl-C. *)
ImportStops ==
    /\ importer # Idle
    /\ importer' = Idle
    /\ UNCHANGED <<backendVars, rows, publishVars, others, assets, torn>>

-----------------------------------------------------------------------------
Publish ==
    \/ \E only \in Selections : PublisherStarts(only)
    \/ \E s \in Scenarios : ArchiveTaken(s) \/ RowPruned(s)
    \/ PublisherCalls \/ PublisherCallFails \/ PublisherPrunes \/ PublisherReports \/ PublisherStops

Import ==
    \/ \E r \in Releases : \E ids \in Readable(r) :
          \E missing \in SUBSET UNION {Objects[r][s] : s \in ids} : ImportStarts(r, ids, missing)
    \/ \E f \in importer.files : FileCopied(f)
    \/ \E s \in importer.ids : ManifestRegistered(s)
    \/ CopyDone \/ ImportStops

Next ==
    \/ StartNext /\ UNCHANGED toolVars
    \/ \E s \in Scenarios : OthersChange(s)
    \/ Publish
    \/ Import

Spec == Init /\ [][Next]_vars

-----------------------------------------------------------------------------
Rows == [status : {"absent", "draft", "review", "rejected", "published"},
         bytes : {"none", "other", "release"}, manifest : BOOLEAN]
Stored == UNION {UNION {Objects[r][s] : s \in Scenarios} : r \in Releases}

TypeOK ==
    /\ StartTypeOK
    /\ rows \in [Scenarios -> Rows]
    /\ publisher \in [at : {"rest", "next", "row", "upload", "move", "prune", "ok", "failed"},
                      id : Scenarios \cup {None}, list : [Scenarios -> Rows],
                      todo : SUBSET Scenarios, done : SUBSET Scenarios, problems : BOOLEAN]
    /\ changed \subseteq Scenarios /\ others \in Nat
    /\ importer \in [at : {"rest", "copying", "registering"}, release : Releases \cup {0},
                     files : SUBSET (({"object"} \X Stored) \cup ({"manifest"} \X Scenarios)),
                     ids : SUBSET Scenarios]
    /\ assets \in [objects : SUBSET Stored, manifest : [Scenarios -> Releases \cup {0}]]
    /\ torn \in [scenarios : SUBSET Scenarios, missing : SUBSET Stored]

(* When publish-release ends with OK, each scenario it reports is in the    *)
(* catalog with the archive of the release, and published exactly if the    *)
(* metadata says so: also on a second run over what a failed one left       *)
(* behind.  What others changed since the list was fetched is theirs.       *)
OkMeansPublished ==
    publisher.at = "ok" =>
        \A s \in publisher.done \ changed :
            /\ rows[s].bytes = "release"
            /\ rows[s].status = "published" <=> s \in Public

(* The script deletes a row only when its successor has the release's      *)
(* archive, unless somebody else changed the successor during the run.      *)
DeletesOnlyReplaced ==
    \A o \in Scenarios :
        Exists(o) /\ rows'[o] = NoRow /\ others' = others =>
            \E s \in InRelease : o \in Metadata[s].supersedes /\ (rows[s].bytes = "release" \/ s \in changed)
OnlyReplacedRowsAreDeleted == [][DeletesOnlyReplaced]_vars

(* A catalog row that names a streaming manifest names one that is in the   *)
(* store with every object it needs, except objects reported as missing     *)
(* from the release and scenarios whose copy was cut off or is under way.   *)
Resolves(s) ==
    /\ assets.manifest[s] # 0
    /\ Objects[assets.manifest[s]][s] \subseteq assets.objects \cup torn.missing

RegisteredManifestsResolve == \A s \in Scenarios \ torn.scenarios : rows[s].manifest => Resolves(s)

=============================================================================
