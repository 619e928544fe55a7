---------------------------- MODULE ScenarioEditor ----------------------------
(***************************************************************************)
(* The admin's page of one scenario (pages/admin/scenario-edit): the row   *)
(* in the header, the metadata form that stays alive under every tab, and  *)
(* the panel of the open tab: files, publish or checks.  Each part sends   *)
(* its own requests and takes their answers whenever they arrive; a        *)
(* refetched row resets the panel, and a closed panel hears nothing more.  *)
(* The server's side of each operation is the one of Publishing, reduced   *)
(* to one row; other users change the row meanwhile.                       *)
(***************************************************************************)
EXTENDS Naturals, FiniteSetsExt

CONSTANTS
    Scenarios,
    Titles,        \* a title stands for every editable field of the form
    MaxChanges,    \* bound on the changes of the server's rows
    MaxRequests,   \* bound on requests in flight when the user starts another
    None

ASSUME EditorAssumption ==
    /\ None \notin Scenarios \cup Titles
    /\ Titles # {} /\ Scenarios # {}
    /\ MaxChanges \in Nat /\ MaxRequests \in Nat

VARIABLES
    srv,       \* the scenarios on the server
    codeValid, \* the user's code is still accepted
    role,      \* the role of that code, never changing
    signed,    \* AdminService holds a code
    page,      \* the open page: address, tab, and the row it shows
    form,      \* the metadata form: what is typed, and its two busy flags
    panel,     \* the panel of the open tab
    net        \* requests in flight and answers on their way

vars == <<srv, codeValid, role, signed, page, form, panel, net>>

Moves ==
    [submit    |-> [from |-> {"draft", "rejected"}, to |-> "review"],
     withdraw  |-> [from |-> {"review"}, to |-> "draft"],
     approve   |-> [from |-> {"review", "draft", "rejected"}, to |-> "published"],
     reject    |-> [from |-> {"review"}, to |-> "rejected"],
     unpublish |-> [from |-> {"published"}, to |-> "draft"]]
MoveOps == DOMAIN Moves
VersionOps == {"accept", "turnDown", "retract", "restore", "remove"}
CheckOps == {"rerun", "testRun"}
PanelOps == MoveOps \cup VersionOps \cup CheckOps
ReadOps == {"row", "list", "contents"}

NoPage == [id |-> None, tab |-> "meta", shown |-> None, failed |-> FALSE]
NoForm == [edits |-> None, busy |-> FALSE, previewBusy |-> FALSE]
NoPanel == [open |-> FALSE, list |-> None, contents |-> None, busy |-> FALSE, uploading |-> FALSE, seen |-> 0]

(* A draft with a second archive, or a published scenario with a proposal. *)
FirstRows(t) ==
    {[title |-> t, status |-> "draft", cur |-> 2, pend |-> 0, old |-> {1}, journal |-> 0],
     [title |-> t, status |-> "published", cur |-> 1, pend |-> 2, old |-> {}, journal |-> 0]}

Init ==
    /\ \E t \in Titles : \E r \in FirstRows(t) : srv = [s \in Scenarios |-> r]
    /\ codeValid = TRUE
    /\ role \in {"author", "moderator"}
    /\ signed = TRUE
    /\ page = NoPage
    /\ form = NoForm
    /\ panel = NoPanel
    /\ net = {}

-----------------------------------------------------------------------------
(* The server: the rows an operation may leave, none when it is refused. *)

(* journal counts the audit rows written from the start on. *)
NewVersion(r) == r.journal + 3

WithCurrent(r, v) == [r EXCEPT !.cur = v, !.old = (@ \cup {r.cur}) \ {v}]

VersionRowsAfter(r, as, op, v) ==
    CASE op = "upload" /\ r.status = "published" /\ as = "author" -> {[r EXCEPT !.pend = NewVersion(r)]}
      [] op = "upload" /\ r.status # "published" /\ r.status # "review" ->
            {[WithCurrent(r, NewVersion(r)) EXCEPT !.pend = 0]}
      [] op = "upload" /\ r.status = "published" /\ as = "moderator" -> {WithCurrent(r, NewVersion(r))}
      [] op = "accept" /\ r.pend = v /\ as = "moderator" -> {[WithCurrent(r, v) EXCEPT !.pend = 0]}
      [] op = "turnDown" /\ r.pend = v /\ as = "moderator" -> {[r EXCEPT !.pend = 0]}
      [] op = "retract" /\ r.pend = v -> {[r EXCEPT !.pend = 0]}
      [] op = "restore" /\ v \in r.old /\ as = "moderator" -> {WithCurrent(r, v)}
      [] op = "remove" /\ v \in r.old /\ as = "moderator" -> {[r EXCEPT !.old = @ \ {v}]}
      [] OTHER -> {}

MayMove(r, as, op) ==
    /\ r.status \in Moves[op].from
    /\ op \in {"approve", "reject", "unpublish"} => as = "moderator"

RowsAfter(r, as, op, arg) ==
    CASE op = "save" -> {[r EXCEPT !.title = arg]}
      [] op = "preview" -> {r}
      [] op \in CheckOps /\ arg \in {r.cur, r.pend} \cup r.old -> {r}
      [] op \in MoveOps /\ MayMove(r, as, op) -> {[r EXCEPT !.status = Moves[op].to]}
      [] OTHER -> VersionRowsAfter(r, as, op, arg)

Room == MapThenSumSet(LAMBDA x : srv[x].journal, Scenarios) < MaxChanges

Carried(s, as, op, arg) ==
    \E r \in RowsAfter(srv[s], as, op, arg) :
        srv' = [srv EXCEPT ![s] = [r EXCEPT !.journal = @ + 1]]

Snapshot(s) == [s |-> s, row |-> srv[s]]

-----------------------------------------------------------------------------
(* Requests. *)

(* Tells requests of one kind apart, nothing else. *)
FreeNumber(sent, op) ==
    CHOOSE n \in 1..(Cardinality(sent) + 1) : \A q \in sent : q.op = op => q.no # n

(* then is TRUE when the sender awaits this answer to end its action. *)
Sent(sent, op, from, s, arg, then) ==
    sent \cup {[no |-> FreeNumber(sent, op), op |-> op, from |-> from, s |-> s, arg |-> arg,
                then |-> then, newest |-> TRUE, ans |-> "none", got |-> None]}

MayStart == signed /\ page.shown # None /\ Cardinality(net) < MaxRequests

(* Slip: an older request still counts as the newest. *)
StillNewest(sent) == sent

(* ++versionsRequest, ++historyRequest; the checks panel counts nothing. *)
Outdated(sent) ==
    {IF q.op = "list" /\ q.from = "panel" /\ page'.tab # "checks" THEN [q EXCEPT !.newest = FALSE] ELSE q :
        q \in sent}

ListAsked(sent, then) == Sent(Outdated(sent), "list", "panel", page'.id, 0, then)
RowAsked(sent) == Sent(sent, "row", "page", page'.id, 0, FALSE)

(* What the parts named from sent is heard by nobody; their reads are dropped. *)
Unheard(sent, from) ==
    {IF q.from \in from THEN [q EXCEPT !.from = "gone"] ELSE q :
        q \in {r \in sent : ~(r.from \in from /\ r.op \in ReadOps)}}

(* The server takes a request: it refuses the code, refuses the act, or does it. *)
Handle(q) ==
    /\ q \in net /\ q.ans = "none"
    /\ LET Answer(a) == net' = (net \ {q}) \cup {[q EXCEPT !.ans = a]} IN
       \/ ~codeValid /\ Answer("rejected") /\ UNCHANGED srv
       \/ /\ codeValid /\ q.op \in ReadOps
          /\ net' = (net \ {q}) \cup {[q EXCEPT !.ans = "ok", !.got = Snapshot(q.s)]}
          /\ UNCHANGED srv
       \/ codeValid /\ q.op \notin ReadOps /\ Room /\ Carried(q.s, role, q.op, q.arg) /\ Answer("ok")
       \/ codeValid /\ q.op \notin ReadOps /\ Answer("refused") /\ UNCHANGED srv
    /\ UNCHANGED <<codeValid, role, signed, page, form, panel>>

OthersAct(s) ==
    /\ Room
    /\ \E as \in {"author", "moderator"} :
          \/ \E t \in Titles : Carried(s, as, "save", t)
          \/ \E op \in MoveOps \cup {"upload"} : Carried(s, as, op, 0)
          \/ \E op \in VersionOps \cup CheckOps, v \in ({srv[s].cur, srv[s].pend} \cup srv[s].old) \ {0} :
                Carried(s, as, op, v)
    /\ UNCHANGED <<codeValid, role, signed, page, form, panel, net>>

CodeRevoked ==
    /\ codeValid /\ codeValid' = FALSE
    /\ UNCHANGED <<srv, role, signed, page, form, panel, net>>

-----------------------------------------------------------------------------
(* The address. *)

dirty == form.edits # None /\ page.shown # None /\ form.edits # page.shown.row.title

(* The component of another scenario: the row goes, and the form and panel with it. *)
Open(s, tab) ==
    /\ signed /\ s # page.id
    /\ Cardinality(net) <= MaxRequests
    /\ page' = [id |-> s, tab |-> tab, shown |-> None, failed |-> FALSE]
    /\ form' = NoForm /\ panel' = NoPanel
    /\ net' = RowAsked(Unheard(net, {"form", "panel"} \cup (IF page.id = None THEN {"page"} ELSE {})))
    /\ UNCHANGED <<srv, codeValid, role, signed>>

(* To another screen: with unsaved edits the user was asked and agreed, unless the
   session has ended, which leads to the sign-in screen without asking. *)
Leave ==
    /\ page.id # None
    /\ page' = NoPage /\ form' = NoForm /\ panel' = NoPanel
    /\ net' = Unheard(net, {"page", "form", "panel"})
    /\ UNCHANGED <<srv, codeValid, role, signed>>

(* Another tab of the same scenario: the form is hidden, the panel replaced. *)
ShowTab(tab) ==
    /\ page.id # None /\ tab # page.tab
    /\ Cardinality(net) <= MaxRequests
    /\ page' = [page EXCEPT !.tab = tab]
    /\ panel' = [NoPanel EXCEPT !.open = (tab # "meta" /\ page.shown # None)]
    /\ net' = IF panel'.open THEN ListAsked(Unheard(net, {"panel"}), FALSE) ELSE Unheard(net, {"panel"})
    /\ UNCHANGED <<srv, codeValid, role, signed, form>>

(* The button of a failed first load. *)
Retry ==
    /\ page.failed /\ signed
    /\ page' = page
    /\ Cardinality(net) < MaxRequests
    /\ net' = RowAsked(net)
    /\ UNCHANGED <<srv, codeValid, role, signed, form, panel>>

(* After the sign-in screen, with a valid code; what the old code still has out is Access'. *)
SignInAgain ==
    /\ ~signed /\ page.id = None /\ net = {}
    /\ signed' = TRUE /\ codeValid' = TRUE
    /\ UNCHANGED <<srv, role, page, form, panel, net>>

-----------------------------------------------------------------------------
(* What the user does in the form and in the panels. *)

Type(t) ==
    /\ page.shown # None
    /\ form' = [form EXCEPT !.edits = t]
    /\ UNCHANGED <<srv, codeValid, role, signed, page, panel, net>>

Discard ==
    /\ dirty /\ ~form.busy
    /\ form' = [form EXCEPT !.edits = None]
    /\ UNCHANGED <<srv, codeValid, role, signed, page, panel, net>>

Save ==
    /\ MayStart /\ dirty /\ ~form.busy
    /\ form' = [form EXCEPT !.busy = TRUE]
    /\ net' = Sent(net, "save", "form", page.id, form.edits, FALSE)
    /\ UNCHANGED <<srv, codeValid, role, signed, page, panel>>

(* A cover uploaded or removed. *)
ChangePreview ==
    /\ MayStart /\ ~form.previewBusy
    /\ form' = [form EXCEPT !.previewBusy = TRUE]
    /\ net' = Sent(net, "preview", "form", page.id, 0, FALSE)
    /\ UNCHANGED <<srv, codeValid, role, signed, page, panel>>

(* The buttons drawn: by role, by the row for publish, by the loaded list elsewhere. *)
Offered(op, v) ==
    CASE page.tab = "publish" ->
            v = 0 /\ op \in MoveOps /\ MayMove(page.shown.row, role, op)
      [] page.tab = "files" ->
            /\ panel.list # None
            /\ \/ op \in {"accept", "turnDown"} /\ role = "moderator" /\ v = panel.list.row.pend /\ v # 0
               \/ op = "retract" /\ role = "author" /\ v = panel.list.row.pend /\ v # 0
               \/ op \in {"restore", "remove"} /\ role = "moderator" /\ v \in panel.list.row.old
      [] page.tab = "checks" ->
            /\ panel.list # None
            /\ v \in {panel.list.row.cur, panel.list.row.pend} \ {0}
            /\ op \in (IF role = "moderator" THEN CheckOps ELSE {"rerun"})
      [] OTHER -> FALSE

Act(op, v) ==
    /\ MayStart /\ panel.open /\ ~panel.busy
    /\ Offered(op, v)
    /\ panel' = [panel EXCEPT !.busy = TRUE]
    /\ net' = Sent(net, op, "panel", page.id, v, FALSE)
    /\ UNCHANGED <<srv, codeValid, role, signed, page, form>>

(* The drop zone of the files tab; its request is cut by Cancel and by leaving. *)
Upload ==
    /\ MayStart /\ panel.open /\ page.tab = "files" /\ ~panel.uploading
    /\ page.shown.row.status # "review"
    /\ panel' = [panel EXCEPT !.uploading = TRUE]
    /\ net' = Sent(net, "upload", "panel", page.id, 0, FALSE)
    /\ UNCHANGED <<srv, codeValid, role, signed, page, form>>

CancelUpload ==
    /\ panel.uploading
    /\ panel' = [panel EXCEPT !.uploading = FALSE]
    /\ net' = {IF q.op = "upload" /\ q.from = "panel" THEN [q EXCEPT !.from = "gone"] ELSE q : q \in net}
    /\ UNCHANGED <<srv, codeValid, role, signed, page, form>>

-----------------------------------------------------------------------------
(* Answers.  ok is FALSE for a refusal, a 5xx and a network failure, after which
   the request may or may not have been carried out; for a read that is all one. *)

Outcome(q, ok) ==
    /\ q \in net
    /\ IF ok THEN q.ans = "ok" ELSE q.op \in ReadOps => q.ans # "ok"
    /\ signed' = (signed /\ ~(~ok /\ q.ans = "rejected"))
    /\ UNCHANGED <<srv, codeValid, role>>

(* Slip: a refetch drops what was typed. *)
Dropped(edits, row) == None

(* A refetched row of the same scenario only retires the edits it now equals. *)
Retired(edits, row) == IF edits = row.title THEN None ELSE edits

(* refresh(): a row for the address shown; every panel effect runs on it. *)
RowAnswered(q, ok) ==
    /\ q.op = "row" /\ q.from = "page" /\ Outcome(q, ok)
    /\ IF ~ok \/ q.s # page.id
       THEN /\ page' = [page EXCEPT !.failed = @ \/ (q.s = page.id /\ page.shown = None)]
            /\ net' = net \ {q}
            /\ UNCHANGED <<form, panel>>
       ELSE /\ page' = [page EXCEPT !.shown = q.got, !.failed = FALSE]
            /\ form' = IF page.shown = None THEN NoForm
                       ELSE [form EXCEPT !.edits = Retired(@, q.got.row)]
            /\ panel' = [panel EXCEPT !.open = page.tab # "meta", !.list = None, !.contents = None]
            /\ net' = IF panel'.open THEN ListAsked(net \ {q}, FALSE) ELSE net \ {q}

(* Slip: contents of any version are taken. *)
AnyContents(q) == panel.list # None

ContentsFit(q) == panel.list # None /\ panel.list.row.cur = q.arg

ContentsAnswered(q, ok) ==
    /\ q.op = "contents" /\ q.from = "panel" /\ Outcome(q, ok)
    /\ panel' = IF ok /\ ContentsFit(q)
                THEN [panel EXCEPT !.contents = [s |-> q.s, version |-> q.arg]] ELSE panel
    /\ net' = net \ {q}
    /\ UNCHANGED <<page, form>>

(* loadVersions, loadHistory, load: a taken list of the files tab asks for its contents. *)
Taken(q, ok) == ok /\ q.newest

ListAnswered(q, ok) ==
    /\ q.op = "list" /\ q.from = "panel" /\ Outcome(q, ok)
    /\ page' = page
    /\ LET rest == net \ {q}
           read == IF Taken(q, ok) /\ page.tab = "files"
                   THEN Sent(rest, "contents", "panel", page.id, q.got.row.cur, FALSE) ELSE rest
       IN net' = IF q.then /\ page.tab = "files" THEN RowAsked(read) ELSE read
    /\ panel' = LET ended == [panel EXCEPT !.busy = @ /\ ~q.then] IN
                IF Taken(q, ok)
                THEN [ended EXCEPT !.list = q.got, !.contents = None, !.seen = q.got.row.journal]
                ELSE ended
    /\ UNCHANGED form

(* The form's save and cover: the parent refetches after a success. *)
FormAnswered(q, ok) ==
    /\ q.op \in {"save", "preview"} /\ q.from = "form" /\ Outcome(q, ok)
    /\ page' = page
    /\ form' = IF q.op = "save" THEN [form EXCEPT !.busy = FALSE] ELSE [form EXCEPT !.previewBusy = FALSE]
    /\ net' = IF ok THEN RowAsked(net \ {q}) ELSE net \ {q}
    /\ UNCHANGED panel

(* What follows a success: files reloads the list and then tells the parent; publish
   tells the parent and reloads; a rerun tells the parent; a test run tells nobody. *)
ActAnswered(q, ok) ==
    /\ q.op \in PanelOps /\ q.from = "panel" /\ Outcome(q, ok)
    /\ page' = page
    /\ LET rest == net \ {q} IN
       net' = CASE ok /\ page.tab = "files"   -> ListAsked(rest, TRUE)
                [] ok /\ page.tab = "publish" -> ListAsked(RowAsked(rest), TRUE)
                [] ok /\ q.op = "rerun"       -> RowAsked(rest)
                [] OTHER                      -> rest
    /\ panel' = [panel EXCEPT !.busy = ok /\ page.tab # "checks"]
    /\ UNCHANGED form

UploadAnswered(q, ok) ==
    /\ q.op = "upload" /\ q.from = "panel" /\ Outcome(q, ok)
    /\ page' = page
    /\ panel' = [panel EXCEPT !.uploading = FALSE]
    /\ net' = IF ok THEN RowAsked(ListAsked(net \ {q}, FALSE)) ELSE net \ {q}
    /\ UNCHANGED form

(* The sender's part of the page is gone; a rejected code still ends the session. *)
UnheardAnswered(q, ok) ==
    /\ q.from = "gone" /\ Outcome(q, ok)
    /\ net' = net \ {q}
    /\ UNCHANGED <<page, form, panel>>

Answered(q, ok) ==
    \/ RowAnswered(q, ok)
    \/ ListAnswered(q, ok)
    \/ ContentsAnswered(q, ok)
    \/ FormAnswered(q, ok)
    \/ ActAnswered(q, ok)
    \/ UploadAnswered(q, ok)
    \/ UnheardAnswered(q, ok)

-----------------------------------------------------------------------------
Tabs == {"meta", "files", "publish", "checks"}

Next ==
    \/ \E s \in Scenarios : OthersAct(s)
    \/ \E s \in Scenarios, tab \in Tabs : Open(s, tab)
    \/ \E tab \in Tabs : ShowTab(tab)
    \/ CodeRevoked \/ SignInAgain \/ Leave \/ Retry
    \/ \E t \in Titles : Type(t)
    \/ Discard \/ Save \/ ChangePreview \/ Upload \/ CancelUpload
    \/ \E op \in PanelOps, v \in 0..(MaxChanges + 2) : Act(op, v)
    \/ \E q \in net : Handle(q)
    \/ \E q \in net, ok \in BOOLEAN : Answered(q, ok)

Spec == Init /\ [][Next]_vars

-----------------------------------------------------------------------------
(* Properties *)

(* What a part of the page shows is of the scenario in the address, and the listed
   contents are of the version listed as current, whatever was asked before a
   navigation, a decision or a refetch (scenario-edit refresh, scenario-files
   loadVersions and loadContents, scenario-publish loadHistory). *)
PanelsSpeakOfTheirScenario ==
    /\ page.shown # None => page.shown.s = page.id
    /\ panel.list # None => panel.list.s = page.id
    /\ panel.contents # None =>
          panel.list # None /\ panel.contents = [s |-> page.id, version |-> panel.list.row.cur]

(* While a files or publish panel stays open its list never goes back to an earlier
   state of the server, though every refetch of the row starts another load
   ("an older answer never replaces a newer one", scenario-files.component.ts). *)
NewestAnswersWin ==
    [][panel.open /\ panel'.open /\ <<page'.id, page'.tab>> = <<page.id, page.tab>> /\ page.tab # "checks"
          => panel'.seen >= panel.seen]_vars

(* Unsaved text leaves the form only by the user's hand, by leaving the scenario, or
   because the refetched row already says the same: no answer, refused save, refetch or
   change of tab loses it (scenario-meta-form constructor, scenario-edit). *)
TypedTextIsKept ==
    [][page'.id = page.id /\ dirty /\ form'.edits # form.edits
          => net' = net \/ page'.shown.row.title = form.edits]_vars


=============================================================================
