# Virtual lab: TLA+ models, checks and proofs

The virtual lab is a catalog of browser-run 3D scenarios. An Angular application shows the catalog, plays
scenarios and serves the authors' and moderators' admin pages; an Express API (`backend/`) keeps the catalog
in PostgreSQL and archives and cover images in a content-addressed store on disk; the same API is an LTI 1.3
tool that Moodle launches and that posts grades back. This directory models the parts of it in which several
requests, people or machines meet, checks them with TLC, and proves with TLAPS every
safety property that TLC checks.

## Inventory

| Part (source) | State | Operations | Talks to | Hard because | Correct when |
|---|---|---|---|---|---|
| Moderation workflow (`workflow.js`, `routes/workflow.js`) | `scenarios.status`, note | submit, withdraw, approve, reject, unpublish | version history, bulk, PUT isPublished | legal sequences of calls by several people | shown ⇒ has an archive; note ⇔ returned |
| Version history (`versions.js`, `routes/versions.js`) | `scenario_versions`, mirrored columns | upload, accept, reject, restore, delete | workflow, GC, grade passback | one of five routes forgetting a rule | one current, one pending; the row mirrors the current version |
| Archive uploads (`routes/archives.js`) | temp file, then rows | upload, from-archive | store, history | checks without the lock, seconds before the transaction | authors never change what students get |
| Catalog administration (`routes/catalog-admin.js`, `bulk.js`) | `scenarios` | create, update, delete, bulk | workflow, categories | compatibility fields beside the workflow | as above |
| Categories (`routes/categories.js`) | `categories`, copied labels | create, rename, delete | every route naming a category | no foreign key: only locks keep two tables together | locked copies in step; every transaction ends |
| Object store and GC (`storage.js`, `routes/storage-admin.js`, `previews.js`) | files and their mtimes | put, sweep | uploads, references in the database | unsynchronised file system calls | nothing vouched for is swept |
| Moderation queue (`pages/admin/queue`) | cards of the last load | publish, return | workflow, history | stale screens | a decision is about what was on the screen |
| Scenario editor (`pages/admin/scenario-edit`, `-meta-form`, `-files`, `-publish`, `-checks`) | row, typed text, version list, contents, busy flags | open, tabs, save, upload, decide | admin routes, admin session | a refetch after every act, answers in any order, panels that close under their requests | nothing of another scenario or an older answer; typed text stays |
| Admin access (`admin.service.ts`, `admin-session.ts`, guards, `auth.js`, `routes/keys.js`, `rate-limits.js`) | code in sessionStorage, identity, `publish_keys`, counters | sign in, restore, sign out, issue, revoke, count | every route | late answers of an earlier session, window edges, restarts | the identity is the code's; only a refused code ends a session; guesses are bounded |
| Grade passback (`lti/submission.js`, `grades.js`, `grade-cache.js`, `lti-submit.component.ts`) | in-flight guard, Result cache; panel | session, submit | Moodle | timeouts, retries, tabs, restarts | a score is posted once; the cache never lags a confirmation |
| LTI launch (`lti/launch.js`, `store.js`, `session.js`, `registration.js`, `deep-linking.js`) | registrations, states, sessions, cookies | register, login, launch, pick | Moodle, one browser's tabs | replay, two tabs, expiry, a stop between two statements | one session per login, of its browser, client and deployment |
| Viewer and telemetry (`viewer.component.ts`, `telemetry.service.ts`, `routes/telemetry.js`) | load token, frame, retained source, session | open, navigate, restart, leave | public API, player frame | lookups, downloads and starts that end late | nothing of an old run on a new one; a session is closed or known |
| Catalog, scenario page, picker (`scenario.service.ts`, `catalog.component.ts`, `scenario.component.ts`, `routes/catalog-public.js`) | filter in the address, list, detail | filter, search, sort, more, open | public routes | answers out of order, a list that changes under its pages | the list is the filter's, the detail the address's |
| Server start, migrations, tool key (`server.js`, `migrations.js`, `lti/keys.js`) | schema, advisory lock, key file | start, migrate, listen, stop, load the key | database, volume | a stop anywhere, two processes, two images | no request meets an older schema; one tool key |
| Release scripts (`publish-release.mjs`, `import-release-assets.mjs`) | what is left of a run; catalog rows; asset store | publish, prune, copy, register | admin API, `docker compose cp` | a run that stops half way and is repeated over other people's work | OK is true; nothing goes before its successor; registered manifests resolve |
| Archive validation, checks, image inspection | none | pure functions | uploads | — | — |
| Audit journal, dashboard | append-only rows | record, list | every transaction | — | written with what it records |

`PROJECT.json` lists the parts with their status, the hazards by line, and which property looks at each.

## Modules

### Catalog and moderation

**`Publishing`** — the core. A route is one transaction that holds the scenario's row lock (`FOR UPDATE`), so
it is one action; `StartUpload`/`FinishUpload` and `StartFromArchive`/`FinishFromArchive` are two each,
because the code looks at the row without the lock, receives and validates the body, stores it, and only then
opens its transaction. Anything may happen in between. `scenario[s]` holds the columns the rules are about
(status, owner, archive hash, graded, scenario_url, whether there is a note), `version[v]` the history,
`request[r]` the uploads in flight. The check order of a route (404, 403, 409) only chooses the error and is a
conjunction here; a refused request changes nothing and is no step. `letThrough` is a history variable: what
the last act of a moderator on a scenario left students with. A bootstrap token is a moderator. A column's
copy of the manifest other than `graded` is left out, and so is `manifest_url`, a streaming source that a
moderator may type, that students must opt into, and that no upload resets.

**`ModeratedCatalog`** — what the core promises its readers: each scenario has a set of archives on offer and
shows one of them or none; it can only show what is on offer. `Publishing!ImplementsCatalog` maps the history
to the offer.

**`ReviewDesk`** — extends `Publishing` with moderators who decide from queue cards loaded earlier. A card of
a published scenario carries the id of the proposal; any other card only the scenario's id, as in
`queue.component.ts`.

**`ScenarioEditor`** — the admin's page of one scenario: the row in the header (`page`), the form that stays
alive under every tab (`form`), the panel of the open tab (`panel`), and the requests on their way (`net`),
each with the part that asked for it. A request carries what the server answered when it got there, so an
answer can be older than the screen. `Handle` is the server, `Answered` takes an answer in the part that sent
it; a part that was closed meanwhile hears nothing (`Unheard`). The server's side of an operation is
`Publishing`'s, reduced to one row; `OthersAct` is everybody else. `seen` counts the states of the row a panel
has listed, to tell older answers from newer ones.

**`Access`** — publish keys and the bootstrap code, the fixed-window counter of wrong codes per address and of
uploads per author, and one tab of the admin panel between its awaits: sign-in, restore after a reload, route
guards, calls, issuing and revoking keys. Others at the same address guess; other moderators issue and revoke.
A backend restart forgets the counters. `counted` (per subject and instant, how many were let through until
then) and `crossed` are history variables.

### Files, categories, grades

**`ArchiveStore`** — `storage.put` (touch, else rename), the row that follows, and a sweep as query, cutoff
and `readdir`, `stat` by `stat`, `unlink` by `unlink`, with a clock. `vouched` is a history flag of a
reference: no running sweep had already judged its object when the upload committed it. The two stores are
alike; one object may be either. Time advances only as far as uploads and queries keep to `UploadTime` and
`ScanTime`, the assumption behind `GC_MIN_AGE_MS` (an hour against uploads of minutes). The model showed that
the age has to cover **two** upload times: of two uploads of the same new bytes the later `rename` installs
the older temp file, with its mtime. `StoreAssumption` states the bound that is enough.

**`Categories`** — the routes that read or write categories, statement by statement under READ COMMITTED, with
the locks PostgreSQL takes. `Begin` enumerates what the requests may ask; `WaitsFor` is the lock table. What a
transaction writes becomes visible in its last statement. `DeadlockAbort` is the database's deadlock
detection. `CategoriesAssumption` says that NULL is no
label and no row. A category's PUT without a label, icons, order and visibility are left out.

**`CategoryTables`** — what those routes promise together, without locks or statements: each act (add, rename,
delete, move, put, drop) happens at once on the tables as they are. A move takes the label the category has, an
insert overwrites no label, a category with a scenario moved into it under lock is not deleted; a scenario put
by a route that locks no category may carry any label, which is the code's own design.
`Categories!OneRouteAtATime` maps the committed tables to it.

**`GradePassback`** — the submit panel of several tabs, `describeSession` and `submitScore` between their
awaits, the guard, the Result cache with its generation tickets, and an LMS that answers late, never, or after
the ten-second abort. The key of guard and cache is one learner on one line item, so one of each is modelled.
A reload while a request is out is `LoseConnection` and then `OpenPage`. `taken` and `confirmed` are history
variables. The LMS is assumed to read its own writes and not to delete grades. The access-token cache is left
out: it changes which call fails, and every call may fail anyway.

**`LtiLaunch`** — the tool side of LTI 1.3: dynamic registration, the login that mints a state and its cookie,
the launch between its awaits (state taken, keys of the LMS fetched, session saved, answer sent), the session's
expiry, Deep Linking, the cleanup of old rows, and restarts. A *jar* is what cookies share: one browser within
one embedding site. The checks of a token are those that tell good tokens apart: its login, age, client and
deployment. The LMS is external and answers a login when it likes; the browser may post the form again.

### What visitors see

**`Viewer`** — the page that plays a scenario. A *load* (`loads`) is a lookup, a download or an engine start
whose answer is awaited; it carries the `loadToken` of its time, and `IsStale` is the page's check after every
await. The player in its frame is external, a submodule: it is what its host client reports of it.
With it the telemetry client, which outlives the page, its requests and beacons, and the server's sessions.
`ran` and `overlapped` are history variables.

**`CatalogPages`** — catalog, scenario page and the teacher's picker on the one `ScenarioService` of a tab.
The address holds the filter; a change of the address and the effects it triggers are one step. Answers come
in any order, `latestRequest` decides whose is taken, and moderators publish and withdraw meanwhile
(`shelf`). `Listed` says where each scenario stands in the list by counting what comes before it, which is
what ORDER BY with a unique last key does. `seen` and `counted` in `service` are history: which catalogs the
pages of the list came from.

### Deployment

**`BackendStart`** — processes between `node server.js` and their exit, next to each other on one database and
one volume: the advisory lock, one migration per transaction, listening, SIGTERM or death at any point, and
the tool key's `readFile`, `writeFile` with `wx`, `readFile`. A key file that was created and not yet written
is a state of its own.

**`ReleaseTools`** — extends it with the two scripts an operator runs against it, call by call. A call is done,
fails, or is done and loses its answer; both scripts may be stopped anywhere and run again, `--only` narrows a
run, and others change the catalog in between (`changed` tells which rows). `torn` is history: scenarios whose
copy was cut off, and objects the import reported as missing.

### Proofs and instances

The theorems are in eight modules, each over the components named: `PublishingProofs` (`Publishing`,
`ModeratedCatalog`, `ReviewDesk`), `StorageProofs` (`ArchiveStore`, `Categories`, `CategoryTables`),
`VisitorProofs` (`Viewer`, `CatalogPages`), `EditorProofs` (`ScenarioEditor`), `AccessProofs`, `GradeProofs`,
`LtiProofs` and `ReleaseProofs` (`BackendStart`, `ReleaseTools`). Two components share a proof module only
because both are about one thing; `CatalogPages` and `Categories` therefore name their specifications
`PagesSpec` and `TablesSpec`. `MC*.tla` add the values, symmetry sets and the two constraints of the runs;
`*.cfg` the instances. Symmetry is used only where no liveness is checked. Definitions whose comment starts with
*Slip* are mistakes a programmer could make in the definition that follows them; no run uses them, they exist to
see that each property would notice.

## Runs

| Run | Shows | Instance | Distinct states |
|---|---|---|---|
| `publishing` (`MCReviewDesk`) | one current and one pending version, the row mirrors the history, nothing shown without an archive, **students only ever get what a moderator let through**, versions come from owners, nothing enters a scenario under review, a decision on a proposal is about the archive on the card, and the core implements `ModeratedCatalog` | 1 scenario, 2 archives, 2 authors, 1 moderator with a card, 2 uploads in flight, 4 version ids, history of 2 | 287,591 |
| `archive_store` | no vouched object is swept | 2 rows, 2 uploads, 2 sweeps, 6 ticks for an age of 4 | 786,898 |
| `categories` | locked moves stay in step with renames and deletions; what is committed could have been done one route at a time (`CategoryTables`); every transaction ends, deadlocks included | any contents of the tables, any 2 routes at once | 143,232 |
| `grade_passback` | a score is taken once unless the backend gave up on an answer; the guard is held exactly by a running submission; the cache never says "not submitted" after a confirmation; every waiting page is answered | 2 tabs, 2 calls, any number of timeouts and restarts | 789,546 |
| `viewer` | what runs, is retained and is counted is what the newest address asks for; score and pause are of the run on the screen; a telemetry session stays open only where nobody could know its id; no load leaves a spinner | 2 scenarios, one streamed, 4 query strings, 3 loads | 846,710 |
| `catalog_pages` | the list is of the announced filter and, over an unchanged catalog, has no scenario twice or skipped; the scenario page shows its address; nothing stays "loading" | 3 scenarios, one category chip, one text, pages of one, 3 list requests, 2 lookups, 1 edit | 476,940 |
| `lti_launch` | one session per login, of its browser, client and deployment; two logins do not clobber each other | 2 logins, 2 jars, 2 deployments, 1 client, 2 registrations under way, lifetimes of 1 in 2 ticks | 714,952 |
| `scenario_editor` | no part shows another scenario's data, or contents of another version than the one listed; a list never goes back in time; typed text is kept | 2 scenarios, 2 titles, 1 change on the server; the user starts a request when none is out, refetches and navigation add theirs | 1,103,836 |
| `access` | less than twice the limit of wrong codes in any window, and a right code is never turned away by them; the identity shown is the code's; a session ends for a reason | 1 key and the bootstrap code, 2 requests of the tab, window of 2 | 1,940,121 |
| `deployment` (`MCReleaseTools`) | no process serves an old schema or trips over another's migration; one tool key; OK means published; only replaced rows are deleted; registered manifests resolve | 2 processes of 2 images; 3 catalog ids, 2 in the release, one of which replaces the third; 2 asset releases, 2 objects; 1 change by others | 939,892 |

Where the program disagrees with its own words:

| Run | The words | What happens |
|---|---|---|
| `review_desk_approve` | `versions.js` 91: a moderator never reviews bytes that then change | withdraw, upload, submit while the card is on the screen; approve publishes the new bytes |
| `archive_store_swept` | `storage.js` 61-64: must not be swept between this upload and its row | a sweep that had already judged the object unlinks it after the touch |

Known and without a run of their own: a category can be deleted while a catalog PUT moves a scenario into it
(`categories.js` 135; migration 006 tolerates it, the scenario keeps its copied label); the submit panel shows
every 409, also "no line item" and "another submission in flight", as submitted (`lti-submit.component.ts`
129; the next load asks the gradebook again); an instructor's grade entered between the Results read and the
score call is overwritten (`submission.js` 131). All three happen in the models.

### Why the bounds are enough

- `publishing`: every rule concerns one scenario; what couples scenarios is the version id, and the theorems
  cover any number of both. Two archives tell "the same bytes" from others and graded from not graded. Four ids
  against a history of two fill the history, overflow it and refill it after deletions. Two authors are needed
  for a scenario that changes hands.
- `archive_store`: objects do not influence each other (a sweep treats each alone), so one is enough; two
  uploads of it and two sweeps are what can race. Seven instants leave room for an object to age, be judged
  and be stored again.
- `categories`: two transactions are the pairs of routes; `LockedMovesStayInStep` and the deadlocks of these
  routes are about pairs. Initial tables are arbitrary, so what a third request did before is covered.
- `grade_passback`: the guard admits one submission, so two calls show every way to be beside it.
  Counters are saturated (`taken`), so nothing is bounded but tabs and calls.
- `viewer`: three loads are a scenario, another one and a restart, or a scenario left and returned to: an
  answer can be stale by one or by two. `MaxLoads` bounds nothing else.
- `catalog_pages`: pages of one over three scenarios need three requests for a whole list; three is also a
  filter, its next page and another filter under way together. One edit during paging is what shifts offsets.
- `lti_launch`: two logins meet in one jar or in two; both lifetimes fit once into the clock, so states and
  sessions expire in the middle of everything. A third login would meet either of them in the same way.
- `scenario_editor`: `MaxRequests` bounds what may be out when the user starts another request; the refetches
  that answers trigger and the requests of a navigation come on top, and those are what can overtake
  each other. One change on the server tells older from newer.
- `access`: `QuietWhileTimePasses` lets the clock leave 0 only while the tab is elsewhere and has no request
  out. Wrong codes and limits meet the tab's requests at time 0, and the counters meet all of time without the
  tab. Excluded is a request of the tab that is out while a window ends; the answer it gets was decided when
  it was counted, and the theorems about the tab hold for every interleaving.
- `deployment`: `OneAtATime` explores the starts alone, with scripts at rest, and then the scripts alone, with
  one process listening or none, publishing before importing. Excluded are scripts beside a start and the two
  scripts beside each other, which share only the rows; `ReleaseProofs` proves all five properties without the
  constraint.

`CHECK_DEADLOCK FALSE` stands in `categories`, whose requests are each served once, and in `viewer` and
`catalog_pages`, which end when the bounds on what a visitor does are used up.

### Fairness

`Categories!FairTablesSpec`: a statement that waits for no lock runs, and deadlock detection acts (weak fairness of
each transaction's next statement); waiting is resolved by others ending. A run has finitely many requests: an
endless stream of `FOR SHARE` readers could starve a `FOR UPDATE`, which PostgreSQL does not rule out.
`GradePassback!FairSpec`: weak fairness of the backend's own steps. Each step from a call to the LMS is
enabled throughout, because `AbortSignal.timeout` ends it; nothing is assumed of the LMS.
`Viewer!Spec`: weak fairness of `LoadNext`, the answers a load waits for. The browser ends a lookup and a
download, be it with an error, and the player's host gives up on a silent engine after its own timeout; which
answer comes, and in which order, stays open, and the player and visitor owe nothing.
`CatalogPages!PagesSpec`: weak fairness of `AnswerNext`, for the same reason: a fetch ends. The other modules
promise nothing that must happen and state no fairness.

## Proofs

Each theorem holds for every value of the constants that the named `ASSUME` of its module admits. The
inductive invariants:

**Core.** `PublishingProofs` proves `TypeCorrect`, and through `Invariance` the theorems `HistoryIsConsistent`,
`RowMirrors`, `ShownHasArchive`, `StudentsAreSafe`, `NoteIsCurrent`, `OnlyOwnersUpload`. `IInv` is the
conjunction of the type invariant, these properties and `FreshIds` (ids the SERIAL has not handed out have no
row). None of them is inductive by itself: that students see what was let through needs the row to mirror a
unique current version; that a shown scenario has an archive needs promote to replace rather than lose it; that
only owners' versions exist needs that no version survives its scenario; an upload writes a fresh id, else it
would overwrite another scenario's current version. The proof goes by kinds of step: `RowStep` (a row changes,
no version does), `NewRowStep`, `DeleteStep`, `InstallStep`, `PromoteStep`, `RemoveStep`; `MoveStep` and
`FinishStep` reduce the routes to them, `IInvStep` assembles one step per action. `NoteExplainsRejection` and
`HistoryBounded` are proved only, not run.

*History.* `HistoryStaysBounded` and `ReviewIsFrozen` rest on two lemmas: a step that installs no upload leaves
every history as it was or smaller (`OnlyInstallsGrow`), and one that does adds one version to one history, in
the room left by the versions it drops (`InstallGrowth`).

*Catalog.* `PublishingImplementsCatalog` is the refinement. The mapping shows a published scenario's `archive`
column; that this is an archive of its own history (`ShownIsOffered`) is where the inductive invariant is
needed, before and after the step. `OneScenarioStep` states the five ways in which the view of one scenario may
change and `StepImplements` puts every route into one of them.

*Queue.* `DeskImplementsPublishing` says that moderators with stale cards do nothing the routes alone do not
do, so what is proved of the core holds with the queue in front of it. `DecisionsAreOnTheCard` is about the
bytes: the invariant of `DeskInvariance` says that the version id on an open card is still the archive the card
shows, or is gone for good. It needs `FreshIds`, since an id used twice would be a card about other bytes, and
that no route changes a version's archive or its scenario.

**Store.** `StorageProofs`: `StoreTypeCorrect` and `VouchedAreNotSwept`. That a vouched object is stored is not
inductive: a sweep may be on its way to it. `Kept` says why none is: no sweep has judged it, and each sweep
under way either knows it as referenced or will find it too young. For an upload that has not written its row
yet, `Fresh` bounds how much older than the upload its object's mtime may be, one `UploadTime`, because a
second upload of the same bytes may have renamed an older file over it. `FreshIsYoung` is where
`2 * UploadTime + ScanTime < MinAge` enters.

**Categories.** `StorageProofs`: `TablesTypesHold` and `LockedMovesAreInStep`, for any number of transactions
where the run has two. `TablesInv` adds to the property what each transaction may rely on, `Fits`: a holder FOR
SHARE has read the label that is there, an uncommitted write is of a category that is there or not as its route
found it, a category about to be deleted has no locked scenario, a locked scenario row is there. `Apart`: two
transactions hold one category's row only FOR SHARE. That `Fits` survives the others is shown once for a write of
a scenario (`RowWritten`) and once for a write of a category nobody else holds (`CategoryWritten`), and every
last statement is one of the two. The plain INSERT of a category locks no row that exists; it keeps `Apart`
because it finds the category missing, which no holder but another INSERT admits. The same invariant gives the
refinement, `RoutesAreAtomic`: a last statement is an act of `CategoryTables` because what `Fits` says of the
transaction is the act's guard, and every other step changes no table.

**Grades.** `GradeProofs`: `GradeTypeCorrect`, `WorkIsTakenOnce`, `GuardIsOwned`, `CacheIsNotBehind`.
`AllGood` says what each request may still do, given the gradebook, `Ledger` that what was taken or confirmed
shows in the gradebook, `GuardOwned` that one submission owns the guard. A submission past its read has seen an
empty gradebook, and it can stay empty only because nobody else owns the guard; a session read that is still
current when a submission is confirmed has read after it.

**LTI.** `LtiProofs`: `LtiTypeCorrect`, `LoginIsGoodOnce`, `SessionIsOfItsLogin`, `LoginsAreApart`. States and
cookies exist only of logins that were begun, where they were begun; a launch under way and a session hold
their login, alone, with its state taken; a launch that has saved is the only one beside its own session. Taking
the state is one statement, which is what the whole argument rests on.

**Access.** `AccessProofs`: `AccessTypeCorrect`, `IdentityStaysTheCodes`, `SessionsAreNotLost`,
`GuessesStayBounded`. Keys only age: issued once, revoked for good. `Good` says of every request what its phase
proves about its code, whatever happened to the key since; a rejected request therefore carries a code that is
bad now, or not the tab's. The bound on guesses is about any span as long as a window, which need not begin with
one. `SpansGood` makes it inductive: a window begins with the first guess it lets through, so a span that also
meets the window before has that one's first guess behind it, and saw at most `Limit - 1` until the later one
began. `counted` is a running total so that no sum over a window is needed: what a span lets through is a
difference of two of its values.

**Deployment.** `ReleaseProofs`: `ToolsTypeCorrect`, `ServedSchemaIsReady`, `KeyIsTheFiles`, `OkIsTrue`,
`PruningIsSafe`, `RegisteredIsThere`. A process that migrates holds the lock and knows exactly what is applied
(`SchemaGood`); a key in use is the file's, and one process writes the file (`KeyGood`). Of a publisher's run,
`Ahead`, `Underway` and `Behind` say what the row of an archive is before, during and after its three calls,
unless others changed it; that the list is fetched once is harmless because a row's status is still the listed
one when its turn comes. `Copying` says that what a copy has not left in the store is still among its files.

**Viewer.** `VisitorProofs`: `TheAddressRuns`, `TheHudIsOfThisRun`, `OpenSessionsAreKnown`. Tokens of loads
never exceed the page's, and one load at most carries it (`LoadsInOrder`); that load knows what the page waits
for, and on the last of its steps the frame is its own (`LiveLoads`). A stale load may still end in any order; it
changes nothing but its own row. For telemetry, every session is of a run that reached its scene, a run has one
start at most, and a session nobody holds was started while another start was out.

**Catalog pages.** `VisitorProofs`: `TheListIsSorted` proves of the operator `Listed`, for any catalog, that it
is a sequence of what matches, in order and each once: positions are counts of predecessors, two scenarios never
share one, and by cardinality every position is taken. `TheListIsOfItsFilter` needs `PagesInv`: the one request
whose answer will be taken is of the announced filter and, if it appends, starts where the list ends; the list
is a beginning of what its filter finds over the catalogs it has seen. An appended page of an unchanged catalog
is then the next part of the same sorted list. `TheDetailIsOfItsAddress` is the same argument about lookups.

**Editor.** `EditorProofs`: `PanelsAreOfTheAddress`, `ListsNeverGoBack`, `TextIsKept`. A request of the form or
of a panel is about the scenario in the address, since leaving it closes the part; one list request at most is
`newest`, and what it has read is no older than the list on the screen (`NetGood`). The last two theorems are
about steps and hold of every step from a state of the invariant.

### Only model-checked

Liveness (`EveryTransactionEnds`, `EveryPageIsAnswered`, `EveryLoadEnds`, `EveryRequestEnds`), since the prover
has no support for fairness and ENABLED. The two disagreements are counterexamples of TLC. Every other property
of a passing run is a theorem.

## Plan

1. *(done)* `Publishing`, `ModeratedCatalog`, `ReviewDesk` and their proofs.
2. *(done)* `ArchiveStore`, `Categories`, `GradePassback`, and the proofs of the first and the last.
3. *(done)* `LtiLaunch`, `Viewer`, `CatalogPages`, `ScenarioEditor`, `Access`, `BackendStart`, `ReleaseTools`;
   proofs of launch, access and deployment.
4. *(done)* The safety properties of `ReviewDesk`, `Viewer`, `CatalogPages`, `ScenarioEditor`, `Categories` and
   the bound on guesses as theorems.
5. `LtiLaunch` composed with `GradePassback` by the session, and a property of what the panel announces against
   what is posted when `graded` changes in between.

## Not modelled

- Pure checks of one input: archive validation, player formats, image inspection, form limits, JWT structure.
  Their verdict is a nondeterministic refusal. The audit journal and the dashboard: written in the transactions
  of the modelled actions and only displayed.
- Of the release scripts, `--dry-run` and a staged-only import, which change nothing. Of the tool key, keys from
  the environment and ephemeral ones, and an empty key file left behind by a stop between creating and writing
  it: the model has that state, and every process fails to load a key until somebody removes the file; that
  removal is not modelled. Of registration, the secret of its URL and the pinning of the LMS's addresses.
- `last_used_at` of a key, labels, the list of the access page and the one display of a new code; the queue
  badge, the scenario list, the upload wizard; category icons, order and visibility; `manifest_url` typed by
  hand and its reset.
- Of the scenario editor: the publish panel's note, which a refetch wipes, and cancelling an upload whose body
  the server has already taken. Of the LTI session, its cookie under two tabs at once beyond the session id it
  names. Of the store, the removal of stale temp files at start.
- A key revoked while its request runs is seen at the request's start only, as in the code.
- The reverse proxy and the containers are configuration.
