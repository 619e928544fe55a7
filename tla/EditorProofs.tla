----------------------------- MODULE EditorProofs -----------------------------
(***************************************************************************)
(* Theorems about ScenarioEditor for any scenarios, titles and number of   *)
(* requests: what the panels show is of the scenario in the address, their *)
(* lists never go back, and typed text is not lost to an answer.           *)
(***************************************************************************)
EXTENDS ScenarioEditor, TLAPS

Statuses == {"draft", "review", "published", "rejected"}
Rows == [title : Titles, status : Statuses, cur : Nat, pend : Nat, old : SUBSET Nat, journal : Nat]
Snapshots == [s : Scenarios, row : Rows]
Ops == PanelOps \cup ReadOps \cup {"save", "preview", "upload"}
Args == Titles \cup Nat

IsRequest(q) ==
    q \in [no : {q.no}, op : Ops, from : {"page", "form", "panel", "gone"}, s : Scenarios,
           arg : Args, then : {q.then}, newest : BOOLEAN,
           ans : {"none", "ok", "rejected", "refused"}, got : Snapshots \cup {None}]

Pages == [id : Scenarios \cup {None}, tab : Tabs, shown : Snapshots \cup {None}, failed : BOOLEAN]
Forms == [edits : Titles \cup {None}, busy : BOOLEAN, previewBusy : BOOLEAN]
Panels ==
    [open : BOOLEAN, list : Snapshots \cup {None},
     contents : [s : Scenarios, version : Nat] \cup {None},
     busy : BOOLEAN, uploading : BOOLEAN, seen : Nat]

Types == srv \in [Scenarios -> Rows] /\ page \in Pages /\ form \in Forms /\ panel \in Panels

(* A request of the form or of a panel is about the scenario with this id, *)
(* and what a read has got is no newer than the rows of the server.        *)
Fits(q, id, rows) ==
    /\ IsRequest(q)
    /\ q.from \in {"form", "panel"} => q.s = id
    /\ q.op = "save" => q.arg \in Titles
    /\ q.ans = "ok" /\ q.op \in ReadOps =>
          q.got \in Snapshots /\ q.got.s = q.s /\ q.got.row.journal <= rows[q.s].journal

IsNewest(q) == q.op = "list" /\ q.from = "panel" /\ q.newest

(* The list that will be taken is one, and was read after the one that is  *)
(* shown was taken.                                                        *)
OneIsNewest(sent, seen) ==
    /\ \A q, r \in sent : IsNewest(q) /\ IsNewest(r) => q = r
    /\ \A q \in sent : IsNewest(q) /\ q.ans = "ok" => q.got.row.journal >= seen

(* The checks panel counts nothing, so there any list is taken. *)
NetGood(sent, id, tab, seen, rows) ==
    /\ \A q \in sent : Fits(q, id, rows)
    /\ tab # "checks" => OneIsNewest(sent, seen)

NetOK == NetGood(net, page.id, page.tab, panel.seen, srv)

PageOK ==
    /\ page.id = None => page.shown = None /\ ~page.failed /\ panel.seen = 0
    /\ page.id # None => panel.seen <= srv[page.id].journal
    /\ PanelsSpeakOfTheirScenario

IInv == Types /\ NetOK /\ PageOK

-----------------------------------------------------------------------------
(* The server's rows. *)

LEMMA MovesLead ==
    /\ MoveOps = {"submit", "withdraw", "approve", "reject", "unpublish"}
    /\ \A op \in MoveOps : Moves[op].to \in Statuses
BY DEF MoveOps, Moves, Statuses

LEMMA CurrentRow ==
    ASSUME NEW r \in Rows, NEW v \in Nat
    PROVE  WithCurrent(r, v) \in Rows /\ WithCurrent(r, v).journal = r.journal
BY DEF WithCurrent, Rows

(* A step on a row that only takes the proposal away, or gives it one. *)
LEMMA PendingRow ==
    ASSUME NEW r \in Rows, NEW v \in Nat 
    PROVE  [r EXCEPT !.pend = v] \in Rows /\ [r EXCEPT !.pend = v].journal = r.journal
BY DEF Rows

LEMMA OldRow ==
    ASSUME NEW r \in Rows, NEW v
    PROVE  [r EXCEPT !.old = @ \ {v}] \in Rows /\ [r EXCEPT !.old = @ \ {v}].journal = r.journal
BY DEF Rows

LEMMA VersionRowsType ==
    ASSUME NEW r \in Rows, NEW as, NEW op, NEW v, NEW x \in VersionRowsAfter(r, as, op, v)
    PROVE  x \in Rows /\ x.journal = r.journal
<1>1. /\ r.pend \in Nat /\ r.journal \in Nat /\ r.old \subseteq Nat
      /\ NewVersion(r) \in Nat
  BY DEF Rows, NewVersion
<1>2. WithCurrent(r, NewVersion(r)) \in Rows
  BY <1>1, CurrentRow
<1>3. \/ x = [r EXCEPT !.pend = NewVersion(r)]
      \/ x = [WithCurrent(r, NewVersion(r)) EXCEPT !.pend = 0]
      \/ x = WithCurrent(r, NewVersion(r))
      \/ r.pend = v /\ x = [WithCurrent(r, v) EXCEPT !.pend = 0]
      \/ x = [r EXCEPT !.pend = 0]
      \/ v \in r.old /\ x = WithCurrent(r, v)
      \/ x = [r EXCEPT !.old = @ \ {v}]
  BY DEF VersionRowsAfter
<1>4. r.pend = v \/ v \in r.old =>
          WithCurrent(r, v) \in Rows /\ WithCurrent(r, v).journal = r.journal
  BY <1>1, CurrentRow
<1>5. \A y \in Rows : [y EXCEPT !.pend = 0] \in Rows /\ [y EXCEPT !.pend = 0].journal = y.journal
  BY PendingRow
<1>6. WithCurrent(r, NewVersion(r)).journal = r.journal
  BY <1>1, CurrentRow
<1>7. CASE x = [r EXCEPT !.pend = NewVersion(r)]
  BY <1>1, <1>7, PendingRow
<1>8. CASE x = [r EXCEPT !.old = @ \ {v}]
  BY <1>8, OldRow
<1>9. QED
  BY <1>2, <1>3, <1>4, <1>5, <1>6, <1>7, <1>8

LEMMA RowsType ==
    ASSUME NEW r \in Rows, NEW as, NEW op, NEW arg, op = "save" => arg \in Titles,
           NEW x \in RowsAfter(r, as, op, arg)
    PROVE  x \in Rows /\ x.journal = r.journal
<1>1. \/ op = "save" /\ x = [r EXCEPT !.title = arg]
      \/ x = r
      \/ op \in MoveOps /\ x = [r EXCEPT !.status = Moves[op].to]
      \/ x \in VersionRowsAfter(r, as, op, arg)
  BY DEF RowsAfter
<1>2. CASE op = "save" /\ x = [r EXCEPT !.title = arg]
  BY <1>2 DEF Rows
<1>3. CASE op \in MoveOps /\ x = [r EXCEPT !.status = Moves[op].to]
  <2>1. Moves[op].to \in Statuses
    BY <1>3, MovesLead
  <2>2. QED
    BY <1>3, <2>1 DEF Rows
<1>4. QED
  BY <1>1, <1>2, <1>3, VersionRowsType

(* What the server carries out is one more audit row of one scenario. *)
LEMMA CarriedEffect ==
    ASSUME srv \in [Scenarios -> Rows], NEW s \in Scenarios, NEW as, NEW op, NEW arg,
           op = "save" => arg \in Titles, Carried(s, as, op, arg)
    PROVE  /\ srv' \in [Scenarios -> Rows]
           /\ \A x \in Scenarios : srv'[x].journal >= srv[x].journal
<1>1. PICK r \in RowsAfter(srv[s], as, op, arg) :
          srv' = [srv EXCEPT ![s] = [r EXCEPT !.journal = @ + 1]]
  BY DEF Carried
<1>2. r \in Rows /\ r.journal = srv[s].journal
  <2>1. srv[s] \in Rows
    OBVIOUS
  <2>2. \A y \in Rows : \A x \in RowsAfter(y, as, op, arg) : x \in Rows /\ x.journal = y.journal
    BY RowsType
  <2>3. QED
    BY <1>1, <2>1, <2>2
<1> DEFINE row == [r EXCEPT !.journal = @ + 1]
<1>3. row \in Rows /\ row.journal = r.journal + 1 /\ r.journal \in Nat
  BY <1>2 DEF Rows
<1> HIDE DEF row
<1>5. srv' = [srv EXCEPT ![s] = row]
  BY <1>1 DEF row
<1>6. \A x \in Scenarios : srv[x].journal \in Nat
  BY DEF Rows
<1>7. QED
  BY <1>2, <1>3, <1>5, <1>6

-----------------------------------------------------------------------------
(* What is sent, outdated and left unheard. *)

New(sent, op, from, s, arg, then) ==
    [no |-> FreeNumber(sent, op), op |-> op, from |-> from, s |-> s, arg |-> arg,
     then |-> then, newest |-> TRUE, ans |-> "none", got |-> None]

LEMMA SentIsNew ==
    ASSUME NEW sent, NEW op, NEW from, NEW s, NEW arg, NEW then
    PROVE  Sent(sent, op, from, s, arg, then) = sent \cup {New(sent, op, from, s, arg, then)}
BY DEF New, Sent

LEMMA NewRequest ==
    ASSUME NEW sent, NEW op \in Ops, NEW from \in {"page", "form", "panel"},
           NEW s \in Scenarios, NEW arg \in Args, NEW then
    PROVE  IsRequest(New(sent, op, from, s, arg, then))
BY DEF New, IsRequest

LEMMA NewFields ==
    ASSUME NEW sent, NEW op, NEW from, NEW s, NEW arg, NEW then,
           NEW n, n = New(sent, op, from, s, arg, then)
    PROVE  n.op = op /\ n.from = from /\ n.s = s /\ n.arg = arg /\ n.ans = "none"
BY DEF New

LEMMA SentGood ==
    ASSUME NEW sent, NEW id, NEW tab, NEW seen, NEW rows, NetGood(sent, id, tab, seen, rows),
           NEW op \in Ops, op # "list", NEW from \in {"page", "form", "panel"},
           NEW s \in Scenarios, from \in {"form", "panel"} => s = id,
           NEW arg \in Args, op = "save" => arg \in Titles, NEW then
    PROVE  NetGood(Sent(sent, op, from, s, arg, then), id, tab, seen, rows)
<1> DEFINE n == New(sent, op, from, s, arg, then)
<1>1. Sent(sent, op, from, s, arg, then) = sent \cup {n}
  BY SentIsNew
<1>2. IsRequest(n)
  BY NewRequest
<1>3. n.op = op /\ n.from = from /\ n.s = s /\ n.arg = arg /\ n.ans = "none"
  BY NewFields
<1> HIDE DEF n
<1>4. Fits(n, id, rows) /\ ~IsNewest(n)
  BY <1>2, <1>3 DEF Fits, IsNewest
<1>5. QED
  BY <1>1, <1>4 DEF NetGood, OneIsNewest

LEMMA RowAskedGood ==
    ASSUME NEW sent, NEW id, NEW tab, NEW seen, NEW rows, NetGood(sent, id, tab, seen, rows),
           page'.id \in Scenarios
    PROVE  NetGood(RowAsked(sent), id, tab, seen, rows)
<1>1. "row" \in Ops /\ 0 \in Args
  BY DEF Ops, ReadOps, Args
<1>2. QED
  BY <1>1, SentGood DEF RowAsked

Older(q) == [q EXCEPT !.newest = FALSE]
Gone(q) == [q EXCEPT !.from = "gone"]

LEMMA OlderRequest ==
    ASSUME NEW q, IsRequest(q)
    PROVE  /\ IsRequest(Older(q))
           /\ Older(q).op = q.op /\ Older(q).from = q.from /\ Older(q).s = q.s
           /\ Older(q).arg = q.arg /\ Older(q).ans = q.ans /\ Older(q).got = q.got
           /\ ~IsNewest(Older(q))
BY DEF Older, IsRequest, IsNewest

LEMMA GoneRequest ==
    ASSUME NEW q, IsRequest(q)
    PROVE  /\ IsRequest(Gone(q))
           /\ Gone(q).op = q.op /\ Gone(q).from = "gone" /\ Gone(q).s = q.s
           /\ Gone(q).arg = q.arg /\ Gone(q).ans = q.ans /\ Gone(q).got = q.got
           /\ ~IsNewest(Gone(q))
BY DEF Gone, IsRequest, IsNewest

(* A list that is asked for is the only newest one. *)
LEMMA ListAskedGood ==
    ASSUME NEW sent, NEW id \in Scenarios, NEW tab, NEW seen, NEW old, NEW rows,
           NetGood(sent, id, tab, old, rows),
           page'.id = id, page'.tab = tab, NEW then
    PROVE  NetGood(ListAsked(sent, then), id, tab, seen, rows)
<1> DEFINE before == Outdated(sent)
<1>1. before = {IF q.op = "list" /\ q.from = "panel" /\ tab # "checks" THEN Older(q) ELSE q : q \in sent}
  BY DEF Outdated, Older
<1>2. "list" \in Ops /\ 0 \in Args
  BY DEF Ops, ReadOps, Args
<1> HIDE DEF before
<1> DEFINE n == New(before, "list", "panel", id, 0, then)
<1>3. /\ Sent(before, "list", "panel", id, 0, then) = before \cup {n}
      /\ IsRequest(n)
      /\ n.op = "list" /\ n.from = "panel" /\ n.s = id /\ n.arg = 0 /\ n.ans = "none"
  <2>1. Sent(before, "list", "panel", id, 0, then) = before \cup {n}
    BY SentIsNew
  <2>2. IsRequest(n)
    BY <1>2, NewRequest
  <2>3. n.op = "list" /\ n.from = "panel" /\ n.s = id /\ n.arg = 0 /\ n.ans = "none"
    BY NewFields
  <2>4. QED
    BY <2>1, <2>2, <2>3
<1> HIDE DEF n
<1>4. ListAsked(sent, then) = before \cup {n}
  BY <1>3 DEF ListAsked, before
<1>5. Fits(n, id, rows)
  BY <1>3 DEF Fits
<1>6. ASSUME NEW q \in before
      PROVE  Fits(q, id, rows) /\ (tab # "checks" => ~IsNewest(q))
  <2>1. PICK x \in sent : q = IF x.op = "list" /\ x.from = "panel" /\ tab # "checks" THEN Older(x) ELSE x
    BY <1>1
  <2>2. Fits(x, id, rows) /\ IsRequest(x)
    BY DEF NetGood, Fits
  <2>3. Fits(Older(x), id, rows) /\ ~IsNewest(Older(x))
    BY <2>2, OlderRequest DEF Fits
  <2>4. CASE x.op = "list" /\ x.from = "panel" /\ tab # "checks"
    BY <2>1, <2>3, <2>4
  <2>5. CASE ~(x.op = "list" /\ x.from = "panel" /\ tab # "checks")
    BY <2>1, <2>2, <2>5 DEF IsNewest
  <2>6. QED
    BY <2>4, <2>5
<1>7. QED
  BY <1>3, <1>4, <1>5, <1>6 DEF NetGood, OneIsNewest

(* Once its panel is gone no list will be taken. *)
LEMMA UnheardGood ==
    ASSUME NEW sent, NEW id, NEW tab, NEW seen, NEW rows, NetGood(sent, id, tab, seen, rows),
           NEW from, "panel" \in from,
           NEW newId, NEW newTab, NEW newSeen, newId = id \/ "form" \in from
    PROVE  NetGood(Unheard(sent, from), newId, newTab, newSeen, rows)
<1>1. Unheard(sent, from) =
          {IF q.from \in from THEN Gone(q) ELSE q :
              q \in {r \in sent : ~(r.from \in from /\ r.op \in ReadOps)}}
  BY DEF Unheard, Gone
<1>2. ASSUME NEW q \in Unheard(sent, from) PROVE Fits(q, newId, rows) /\ ~IsNewest(q)
  <2>1. PICK x \in sent : q = IF x.from \in from THEN Gone(x) ELSE x
    BY <1>1
  <2>2. Fits(x, id, rows) /\ IsRequest(x)
    BY DEF NetGood, Fits
  <2>3. CASE x.from \in from
    <3>1. Fits(Gone(x), newId, rows) /\ ~IsNewest(Gone(x))
      BY <2>2, GoneRequest DEF Fits
    <3>2. QED
      BY <2>1, <2>3, <3>1
  <2>4. CASE x.from \notin from
    <3>1. x.from # "panel" /\ (x.from = "form" => newId = id)
      BY <2>4
    <3>2. QED
      BY <2>1, <2>2, <2>4, <3>1 DEF Fits, IsNewest
  <2>5. QED
    BY <2>3, <2>4
<1>3. QED
  BY <1>2 DEF NetGood, OneIsNewest

LEMMA FewerGood ==
    ASSUME NEW sent, NEW id, NEW tab, NEW seen, NEW rows, NetGood(sent, id, tab, seen, rows),
           NEW fewer, fewer \subseteq sent
    PROVE  NetGood(fewer, id, tab, seen, rows)
BY DEF NetGood, OneIsNewest

(* One request is replaced by what became of it. *)
LEMMA ReplacedGood ==
    ASSUME NEW sent, NEW id, NEW tab, NEW seen, NEW rows, NetGood(sent, id, tab, seen, rows),
           NEW q \in sent, NEW r, Fits(r, id, rows), IsNewest(r) => IsNewest(q),
           IsNewest(r) /\ r.ans = "ok" => r.got.row.journal >= seen
    PROVE  NetGood((sent \ {q}) \cup {r}, id, tab, seen, rows)
<1>1. \A x \in (sent \ {q}) \cup {r} : Fits(x, id, rows)
  BY DEF NetGood
<1>2. ASSUME OneIsNewest(sent, seen) PROVE OneIsNewest((sent \ {q}) \cup {r}, seen)
  BY <1>2 DEF OneIsNewest
<1>3. QED
  BY <1>1, <1>2 DEF NetGood

(* After the newest list is taken there is none left to go back to. *)
LEMMA TakenGood ==
    ASSUME NEW sent, NEW id, NEW tab, NEW seen, NEW rows, NetGood(sent, id, tab, seen, rows),
           NEW q \in sent, IsNewest(q), NEW newSeen
    PROVE  NetGood(sent \ {q}, id, tab, newSeen, rows)
BY DEF NetGood, OneIsNewest

(* Time on the server only makes a snapshot older. *)
LEMMA RowsGrow ==
    ASSUME NEW sent, NEW id, NEW tab, NEW seen, NEW rows \in [Scenarios -> Rows],
           NetGood(sent, id, tab, seen, rows),
           NEW later \in [Scenarios -> Rows],
           \A x \in Scenarios : later[x].journal >= rows[x].journal
    PROVE  NetGood(sent, id, tab, seen, later)
<1>1. ASSUME NEW q \in sent PROVE Fits(q, id, later)
  <2>1. Fits(q, id, rows) /\ q.s \in Scenarios
    BY DEF NetGood, Fits, IsRequest
  <2>2. later[q.s].journal >= rows[q.s].journal /\ later[q.s].journal \in Nat /\ rows[q.s].journal \in Nat
    BY <2>1 DEF Rows
  <2>3. q.got \in Snapshots => q.got.row.journal \in Nat
    BY DEF Snapshots, Rows
  <2>4. QED
    BY <2>1, <2>2, <2>3 DEF Fits
<1>2. QED
  BY <1>1 DEF NetGood

-----------------------------------------------------------------------------
(* Steps. *)

(* The rows grow, and the page shows what it showed. *)
LEMMA SamePage ==
    ASSUME Types, PageOK, UNCHANGED page, srv' \in [Scenarios -> Rows],
           \A x \in Scenarios : srv'[x].journal >= srv[x].journal,
           panel'.list = panel.list, panel'.contents = panel.contents, panel'.seen = panel.seen
    PROVE  PageOK'
<1>1. page.id # None =>
          /\ page.id \in Scenarios /\ srv[page.id].journal \in Nat /\ srv'[page.id].journal \in Nat
          /\ panel.seen \in Nat
  BY DEF Types, Pages, Panels, Rows
<1>2. panel.seen <= srv[page.id].journal /\ page.id # None => panel'.seen <= srv'[page.id].journal
  BY <1>1
<1>3. QED
  BY <1>2 DEF PageOK, PanelsSpeakOfTheirScenario

LEMMA NothingGrows ==
    ASSUME Types PROVE \A x \in Scenarios : srv[x].journal >= srv[x].journal
BY DEF Types, Rows

(* A step of the user or an answer that shows nothing new. *)
LEMMA QuietStep ==
    ASSUME IInv, UNCHANGED <<srv, page>>, form' \in Forms, panel' \in Panels,
           panel'.list = panel.list, panel'.contents = panel.contents, panel'.seen = panel.seen,
           NetGood(net', page.id, page.tab, panel.seen, srv)
    PROVE  IInv'
<1>1. PageOK'
  BY SamePage, NothingGrows DEF IInv, Types
<1>2. NetOK'
  BY DEF NetOK
<1>3. Types'
  BY DEF IInv, Types
<1>4. QED
  BY <1>1, <1>2, <1>3 DEF IInv

(* The page of a scenario that is shown, or that a part asks about. *)
LEMMA ShownIsOpen ==
    ASSUME IInv, page.shown # None PROVE page.id \in Scenarios
BY DEF IInv, Types, Pages, PageOK

LEMMA SenderIsOpen ==
    ASSUME IInv, NEW q \in net, q.from \in {"form", "panel"}
    PROVE  q.s = page.id /\ page.id \in Scenarios
BY DEF IInv, NetOK, NetGood, Fits, IsRequest

LEMMA OthersStep ==
    ASSUME IInv, NEW s \in Scenarios, OthersAct(s) PROVE IInv'
<1>1. /\ srv' \in [Scenarios -> Rows]
      /\ \A x \in Scenarios : srv'[x].journal >= srv[x].journal
  <2>1. PICK as, op, arg : (op = "save" => arg \in Titles) /\ Carried(s, as, op, arg)
    <3>1. "save" \notin MoveOps \cup {"upload"} \cup VersionOps \cup CheckOps
      BY MovesLead DEF VersionOps, CheckOps
    <3>2. QED
      BY <3>1 DEF OthersAct
  <2>2. QED
    BY <2>1, CarriedEffect DEF IInv, Types
<1>2. PageOK'
  BY <1>1, SamePage DEF IInv, OthersAct
<1>3. NetOK'
  BY <1>1, RowsGrow DEF IInv, Types, NetOK, OthersAct
<1>4. Types'
  BY <1>1 DEF IInv, Types, OthersAct
<1>5. QED
  BY <1>2, <1>3, <1>4 DEF IInv

Told(q, a) == [q EXCEPT !.ans = a]
Read(q) == [q EXCEPT !.ans = "ok", !.got = Snapshot(q.s)]

LEMMA ToldFits ==
    ASSUME NEW q, NEW id, NEW rows, Fits(q, id, rows), NEW a \in {"ok", "rejected", "refused"},
           q.op \in ReadOps => a # "ok"
    PROVE  Fits(Told(q, a), id, rows) /\ (IsNewest(Told(q, a)) => IsNewest(q) /\ a # "ok")
           /\ Told(q, a).ans = a
<1>1. /\ IsRequest(Told(q, a))
      /\ Told(q, a).op = q.op /\ Told(q, a).from = q.from /\ Told(q, a).s = q.s
      /\ Told(q, a).arg = q.arg /\ Told(q, a).ans = a /\ Told(q, a).newest = q.newest
  BY DEF Fits, IsRequest, Told
<1>2. "list" \in ReadOps
  BY DEF ReadOps
<1>3. QED
  BY <1>1, <1>2 DEF Fits, IsNewest

LEMMA ReadFits ==
    ASSUME srv \in [Scenarios -> Rows], NEW q, NEW id, Fits(q, id, srv)
    PROVE  Fits(Read(q), id, srv) /\ (IsNewest(Read(q)) => IsNewest(q))
           /\ Read(q).got.row.journal = srv[q.s].journal
<1>1. q.s \in Scenarios /\ Snapshot(q.s) \in Snapshots
  BY DEF Fits, IsRequest, Snapshot, Snapshots
<1>2. /\ IsRequest(Read(q))
      /\ Read(q).op = q.op /\ Read(q).from = q.from /\ Read(q).s = q.s /\ Read(q).arg = q.arg
      /\ Read(q).got = Snapshot(q.s) /\ Read(q).newest = q.newest
  BY <1>1 DEF Fits, IsRequest, Read
<1>3. Snapshot(q.s).s = q.s /\ Snapshot(q.s).row = srv[q.s] /\ srv[q.s].journal \in Nat
  BY <1>1 DEF Snapshot, Rows
<1>4. QED
  BY <1>1, <1>2, <1>3 DEF Fits, IsNewest

LEMMA HandleStep == ASSUME IInv, NEW q \in net, Handle(q) PROVE IInv'
<1>0. /\ UNCHANGED <<page, form, panel>> /\ Types /\ PageOK
      /\ NetGood(net, page.id, page.tab, panel.seen, srv)
      /\ Fits(q, page.id, srv)
  BY DEF Handle, IInv, NetOK, NetGood
<1>1. ASSUME NEW a \in {"ok", "rejected", "refused"}, q.op \in ReadOps => a # "ok",
             net' = (net \ {q}) \cup {Told(q, a)}
      PROVE  NetGood(net', page.id, page.tab, panel.seen, srv)
  <2>1. Fits(Told(q, a), page.id, srv) /\ (IsNewest(Told(q, a)) => IsNewest(q) /\ a # "ok")
        /\ Told(q, a).ans = a
    BY <1>0, <1>1, ToldFits
  <2>2. QED
    BY <1>0, <1>1, <2>1, ReplacedGood
<1>2. ASSUME UNCHANGED srv, NetGood(net', page.id, page.tab, panel.seen, srv) PROVE IInv'
  BY <1>0, <1>2, QuietStep DEF Types
<1>3. CASE UNCHANGED srv /\ \E a \in {"rejected", "refused"} : net' = (net \ {q}) \cup {Told(q, a)}
  BY <1>1, <1>2, <1>3
<1>4. CASE UNCHANGED srv /\ net' = (net \ {q}) \cup {Read(q)} /\ q.op \in ReadOps
  <2>1. /\ Fits(Read(q), page.id, srv) /\ (IsNewest(Read(q)) => IsNewest(q))
        /\ Read(q).got.row.journal = srv[q.s].journal
    BY <1>0, ReadFits DEF Types
  <2>2. IsNewest(q) => srv[q.s].journal >= panel.seen
    <3>1. IsNewest(q) => q.s = page.id /\ page.id \in Scenarios /\ page.id # None
      BY <1>0, EditorAssumption DEF IsNewest, Fits, IsRequest
    <3>2. page.id \in Scenarios => srv[page.id].journal \in Nat /\ panel.seen \in Nat
      BY <1>0 DEF Types, Rows, Panels
    <3>3. QED
      BY <1>0, <3>1, <3>2 DEF PageOK
  <2>3. NetGood(net', page.id, page.tab, panel.seen, srv)
    BY <1>0, <1>4, <2>1, <2>2, ReplacedGood
  <2>4. QED
    BY <1>2, <1>4, <2>3
<1>5. CASE /\ q.op \notin ReadOps /\ Carried(q.s, role, q.op, q.arg)
           /\ net' = (net \ {q}) \cup {Told(q, "ok")}
  <2>1. q.s \in Scenarios /\ (q.op = "save" => q.arg \in Titles)
    BY <1>0 DEF Fits, IsRequest
  <2>2. /\ srv' \in [Scenarios -> Rows]
        /\ \A x \in Scenarios : srv'[x].journal >= srv[x].journal
    BY <1>0, <1>5, <2>1, CarriedEffect DEF Types
  <2>3. NetGood(net', page.id, page.tab, panel.seen, srv)
    BY <1>1, <1>5
  <2>4. NetOK'
    BY <1>0, <2>2, <2>3, RowsGrow DEF Types, NetOK
  <2>5. PageOK'
    BY <1>0, <2>2, SamePage
  <2>6. QED
    BY <1>0, <2>2, <2>4, <2>5 DEF IInv, Types
<1>6. QED
  BY <1>3, <1>4, <1>5 DEF Handle, Told, Read

LEMMA OpNames ==
    /\ PanelOps \subseteq Ops /\ ReadOps = {"row", "list", "contents"} /\ ReadOps \subseteq Ops
    /\ "save" \in Ops /\ "preview" \in Ops /\ "upload" \in Ops
    /\ "list" \notin PanelOps /\ "save" \notin PanelOps /\ 0 \in Args
BY MovesLead DEF Ops, ReadOps, PanelOps, VersionOps, CheckOps, Args

(* What the user sends from the form or the panel. *)
LEMMA UserSends ==
    ASSUME IInv, page.shown # None, UNCHANGED <<srv, page>>, form' \in Forms, panel' \in Panels,
           panel'.list = panel.list, panel'.contents = panel.contents, panel'.seen = panel.seen,
           NEW op \in Ops, op # "list", NEW from \in {"form", "panel"},
           NEW arg \in Args, op = "save" => arg \in Titles, NEW then,
           net' = Sent(net, op, from, page.id, arg, then)
    PROVE  IInv'
<1>1. page.id \in Scenarios
  BY ShownIsOpen
<1>2. NetGood(net, page.id, page.tab, panel.seen, srv)
  BY DEF IInv, NetOK
<1>3. from \in {"page", "form", "panel"}
  OBVIOUS
<1>4. NetGood(net', page.id, page.tab, panel.seen, srv)
  BY <1>1, <1>2, <1>3, SentGood
<1>5. QED
  BY <1>4, QuietStep

LEMMA SaveStep == ASSUME IInv, Save PROVE IInv'
<1>1. /\ page.shown # None /\ UNCHANGED <<srv, page, panel>> /\ form.edits # None
      /\ form' = [form EXCEPT !.busy = TRUE]
      /\ net' = Sent(net, "save", "form", page.id, form.edits, FALSE)
  BY DEF Save, MayStart, dirty
<1>2. /\ form' \in Forms /\ panel' \in Panels
      /\ form.edits \in Titles /\ form.edits \in Args
  BY <1>1 DEF IInv, Types, Forms, Args
<1>3. QED
  BY <1>1, <1>2, OpNames, UserSends

LEMMA ChangePreviewStep == ASSUME IInv, ChangePreview PROVE IInv'
<1>1. /\ page.shown # None /\ UNCHANGED <<srv, page, panel>>
      /\ form' = [form EXCEPT !.previewBusy = TRUE]
      /\ net' = Sent(net, "preview", "form", page.id, 0, FALSE)
  BY DEF ChangePreview, MayStart
<1>2. form' \in Forms /\ panel' \in Panels
  BY <1>1 DEF IInv, Types, Forms
<1>3. QED
  BY <1>1, <1>2, OpNames, UserSends

LEMMA ActStep ==
    ASSUME IInv, NEW op \in PanelOps, NEW v \in Nat, Act(op, v) PROVE IInv'
<1>1. /\ page.shown # None /\ UNCHANGED <<srv, page, form>>
      /\ panel' = [panel EXCEPT !.busy = TRUE]
      /\ net' = Sent(net, op, "panel", page.id, v, FALSE)
  BY DEF Act, MayStart
<1>2. /\ form' \in Forms /\ panel' \in Panels
      /\ panel'.list = panel.list /\ panel'.contents = panel.contents /\ panel'.seen = panel.seen
  BY <1>1 DEF IInv, Types, Panels
<1>3. op \in Ops /\ op # "list" /\ op # "save" /\ v \in Args
  BY OpNames DEF Args
<1>4. QED
  BY <1>1, <1>2, <1>3, UserSends

LEMMA UploadStep == ASSUME IInv, Upload PROVE IInv'
<1>1. /\ page.shown # None /\ UNCHANGED <<srv, page, form>>
      /\ panel' = [panel EXCEPT !.uploading = TRUE]
      /\ net' = Sent(net, "upload", "panel", page.id, 0, FALSE)
  BY DEF Upload, MayStart
<1>2. /\ form' \in Forms /\ panel' \in Panels
      /\ panel'.list = panel.list /\ panel'.contents = panel.contents /\ panel'.seen = panel.seen
  BY <1>1 DEF IInv, Types, Panels
<1>3. QED
  BY <1>1, <1>2, OpNames, UserSends

LEMMA CancelUploadStep == ASSUME IInv, CancelUpload PROVE IInv'
<1>1. /\ UNCHANGED <<srv, page, form>>
      /\ panel' = [panel EXCEPT !.uploading = FALSE]
      /\ net' = {IF q.op = "upload" /\ q.from = "panel" THEN Gone(q) ELSE q : q \in net}
  BY DEF CancelUpload, Gone
<1>2. /\ form' \in Forms /\ panel' \in Panels
      /\ panel'.list = panel.list /\ panel'.contents = panel.contents /\ panel'.seen = panel.seen
  BY <1>1 DEF IInv, Types, Panels
<1>3. NetGood(net, page.id, page.tab, panel.seen, srv)
  BY DEF IInv, NetOK
<1>4. ASSUME NEW r \in net'
      PROVE  Fits(r, page.id, srv) /\ (IsNewest(r) => r \in net)
  <2>1. PICK q \in net : r = IF q.op = "upload" /\ q.from = "panel" THEN Gone(q) ELSE q
    BY <1>1
  <2>2. Fits(q, page.id, srv) /\ IsRequest(q)
    BY <1>3 DEF NetGood, Fits
  <2>3. Fits(Gone(q), page.id, srv) /\ ~IsNewest(Gone(q))
    BY <2>2, GoneRequest DEF Fits
  <2>4. QED
    BY <2>1, <2>2, <2>3
<1>5. NetGood(net', page.id, page.tab, panel.seen, srv)
  BY <1>3, <1>4 DEF NetGood, OneIsNewest
<1>6. QED
  BY <1>1, <1>2, <1>5, QuietStep

LEMMA TypingStep ==
    ASSUME IInv, (\E t \in Titles : Type(t)) \/ Discard PROVE IInv'
<1>1. /\ UNCHANGED <<srv, page, panel, net>>
      /\ \E t \in Titles \cup {None} : form' = [form EXCEPT !.edits = t]
  BY DEF Type, Discard
<1>2. form' \in Forms /\ panel' \in Panels
  BY <1>1 DEF IInv, Types, Forms
<1>3. QED
  BY <1>1, <1>2, QuietStep DEF IInv, NetOK

(* Nothing of an earlier address is heard on the next one. *)
LEMMA OpenStep ==
    ASSUME IInv, NEW s \in Scenarios, NEW tab \in Tabs, Open(s, tab) PROVE IInv'
<1> DEFINE from == {"form", "panel"} \cup (IF page.id = None THEN {"page"} ELSE {})
<1>1. /\ UNCHANGED srv
      /\ page' = [id |-> s, tab |-> tab, shown |-> None, failed |-> FALSE]
      /\ form' = NoForm /\ panel' = NoPanel
      /\ net' = RowAsked(Unheard(net, from))
  BY DEF Open
<1>2. "panel" \in from /\ "form" \in from
  OBVIOUS
<1> HIDE DEF from
<1>3. /\ page'.id = s /\ page'.tab = tab /\ page'.shown = None /\ panel'.seen = 0
      /\ panel'.list = None /\ panel'.contents = None /\ s # None
  BY <1>1, EditorAssumption DEF NoPanel
<1>4. NetGood(Unheard(net, from), s, tab, 0, srv)
  BY <1>2, UnheardGood DEF IInv, NetOK
<1>5. NetGood(net', s, tab, 0, srv)
  BY <1>1, <1>3, <1>4, RowAskedGood
<1>6. NetOK'
  BY <1>1, <1>3, <1>5 DEF NetOK
<1>7. Types'
  BY <1>1 DEF IInv, Types, Pages, Forms, Panels, NoForm, NoPanel
<1>8. PageOK'
  BY <1>1, <1>3 DEF IInv, Types, Rows, PageOK, PanelsSpeakOfTheirScenario
<1>9. QED
  BY <1>6, <1>7, <1>8 DEF IInv

LEMMA LeaveStep == ASSUME IInv, Leave PROVE IInv'
<1>1. /\ UNCHANGED srv
      /\ page' = NoPage /\ form' = NoForm /\ panel' = NoPanel
      /\ net' = Unheard(net, {"page", "form", "panel"})
  BY DEF Leave
<1>2. /\ page'.id = None /\ page'.tab = "meta" /\ page'.shown = None /\ ~page'.failed
      /\ panel'.seen = 0 /\ panel'.list = None /\ panel'.contents = None
  BY <1>1 DEF NoPage, NoPanel
<1>3. NetGood(net', None, "meta", 0, srv)
  BY <1>1, UnheardGood DEF IInv, NetOK
<1>4. NetOK'
  BY <1>1, <1>2, <1>3 DEF NetOK
<1>5. Types'
  BY <1>1 DEF IInv, Types, Pages, Forms, Panels, NoPage, NoForm, NoPanel, Tabs
<1>6. PageOK'
  BY <1>2 DEF PageOK, PanelsSpeakOfTheirScenario
<1>7. QED
  BY <1>4, <1>5, <1>6 DEF IInv

LEMMA ShowTabStep ==
    ASSUME IInv, NEW tab \in Tabs, ShowTab(tab) PROVE IInv'
<1>1. /\ UNCHANGED <<srv, form>> /\ page.id # None
      /\ page' = [page EXCEPT !.tab = tab]
      /\ panel' = [NoPanel EXCEPT !.open = (tab # "meta" /\ page.shown # None)]
      /\ \/ net' = ListAsked(Unheard(net, {"panel"}), FALSE)
         \/ net' = Unheard(net, {"panel"})
  BY DEF ShowTab
<1>2. /\ page' \in Pages /\ page'.id = page.id /\ page'.tab = tab /\ page'.shown = page.shown
      /\ page.id \in Scenarios
  BY <1>1 DEF IInv, Types, Pages
<1>3. /\ panel' \in Panels
      /\ panel'.seen = 0 /\ panel'.list = None /\ panel'.contents = None
  <2>1. panel' = [open |-> (tab # "meta" /\ page.shown # None), list |-> None, contents |-> None,
                  busy |-> FALSE, uploading |-> FALSE, seen |-> 0]
    BY <1>1 DEF NoPanel
  <2>2. (tab # "meta" /\ page.shown # None) \in BOOLEAN
    OBVIOUS
  <2>3. QED
    BY <2>1, <2>2 DEF Panels
<1>4. NetGood(Unheard(net, {"panel"}), page.id, tab, 0, srv)
  BY UnheardGood DEF IInv, NetOK
<1>5. NetGood(net', page.id, tab, 0, srv)
  BY <1>1, <1>2, <1>4, ListAskedGood
<1>6. NetOK'
  BY <1>1, <1>2, <1>3, <1>5 DEF NetOK
<1>7. srv[page.id].journal \in Nat
  BY <1>2 DEF IInv, Types, Rows
<1>8. PageOK'
  BY <1>1, <1>2, <1>3, <1>7 DEF IInv, PageOK, PanelsSpeakOfTheirScenario
<1>9. QED
  BY <1>1, <1>2, <1>3, <1>6, <1>8 DEF IInv, Types

LEMMA RetryStep == ASSUME IInv, Retry PROVE IInv'
<1>1. /\ UNCHANGED <<srv, page, form, panel>> /\ page.failed
      /\ net' = RowAsked(net)
  BY DEF Retry
<1>2. page'.id \in Scenarios
  BY <1>1 DEF IInv, Types, Pages, PageOK
<1>3. NetGood(net', page.id, page.tab, panel.seen, srv)
  BY <1>1, <1>2, RowAskedGood DEF IInv, NetOK
<1>4. QED
  BY <1>1, <1>3, QuietStep DEF IInv, Types

-----------------------------------------------------------------------------
(* Answers. *)

(* A row for the address resets the panel, and its list is asked for again. *)
LEMMA RowAnsweredStep ==
    ASSUME IInv, NEW q \in net, NEW ok \in BOOLEAN, RowAnswered(q, ok) PROVE IInv'
<1>0. /\ UNCHANGED srv /\ q.op = "row" /\ Types /\ PageOK
      /\ NetGood(net \ {q}, page.id, page.tab, panel.seen, srv)
      /\ Fits(q, page.id, srv) /\ q.s \in Scenarios
  <2>1. NetGood(net, page.id, page.tab, panel.seen, srv) /\ Types /\ PageOK
    BY DEF IInv, NetOK
  <2>2. Fits(q, page.id, srv) /\ q.s \in Scenarios
    BY <2>1 DEF NetGood, Fits, IsRequest
  <2>3. NetGood(net \ {q}, page.id, page.tab, panel.seen, srv)
    BY <2>1, FewerGood
  <2>4. QED
    BY <2>1, <2>2, <2>3 DEF RowAnswered, Outcome
<1>1. CASE ~ok \/ q.s # page.id
  <2>1. /\ page' = [page EXCEPT !.failed = @ \/ (q.s = page.id /\ page.shown = None)]
        /\ net' = net \ {q} /\ UNCHANGED <<form, panel>>
    BY <1>1 DEF RowAnswered
  <2>2. /\ page' \in Pages /\ page'.id = page.id /\ page'.tab = page.tab /\ page'.shown = page.shown
        /\ page'.failed <=> page.failed \/ (q.s = page.id /\ page.shown = None)
    BY <1>0, <2>1 DEF Types, Pages
  <2>3. NetOK'
    BY <1>0, <2>1, <2>2 DEF NetOK
  <2>4. PageOK'
    BY <1>0, <2>1, <2>2, EditorAssumption DEF PageOK, PanelsSpeakOfTheirScenario
  <2>5. QED
    BY <1>0, <2>1, <2>2, <2>3, <2>4 DEF IInv, Types
<1>2. CASE ok /\ q.s = page.id
  <2>1. /\ page' = [page EXCEPT !.shown = q.got, !.failed = FALSE]
        /\ form' = IF page.shown = None THEN NoForm
                   ELSE [form EXCEPT !.edits = Retired(@, q.got.row)]
        /\ panel' = [panel EXCEPT !.open = page.tab # "meta", !.list = None, !.contents = None]
        /\ net' = ListAsked(net \ {q}, FALSE) \/ net' = net \ {q}
    BY <1>2 DEF RowAnswered
  <2>2. q.got \in Snapshots /\ q.got.s = page.id /\ page.id \in Scenarios
    BY <1>0, <1>2, OpNames DEF RowAnswered, Outcome, Fits
  <2>3. /\ page' \in Pages /\ page'.id = page.id /\ page'.tab = page.tab /\ page'.shown = q.got
    BY <1>0, <2>1, <2>2 DEF Types, Pages
  <2>4. form' \in Forms
    BY <1>0, <2>1 DEF Types, Forms, NoForm, Retired
  <2>5. /\ panel' \in Panels
        /\ panel'.seen = panel.seen /\ panel'.list = None /\ panel'.contents = None
    <3>1. (page.tab # "meta") \in BOOLEAN
      OBVIOUS
    <3>2. QED
      BY <1>0, <2>1, <3>1 DEF Types, Panels
  <2>6. NetGood(net', page.id, page.tab, panel.seen, srv)
    <3>1. NetGood(ListAsked(net \ {q}, FALSE), page.id, page.tab, panel.seen, srv)
      BY <1>0, <2>2, <2>3, ListAskedGood
    <3>2. QED
      BY <1>0, <2>1, <3>1
  <2>7. NetOK'
    BY <1>0, <2>3, <2>5, <2>6 DEF NetOK
  <2>8. PageOK'
    BY <1>0, <2>2, <2>3, <2>5, EditorAssumption DEF PageOK, PanelsSpeakOfTheirScenario
  <2>9. QED
    BY <1>0, <2>3, <2>4, <2>5, <2>7, <2>8 DEF IInv, Types
<1>3. QED
  BY <1>1, <1>2

LEMMA ContentsAnsweredStep ==
    ASSUME IInv, NEW q \in net, NEW ok \in BOOLEAN, ContentsAnswered(q, ok) PROVE IInv'
<1>0. /\ UNCHANGED <<srv, page, form>> /\ net' = net \ {q} /\ Types /\ PageOK
      /\ NetGood(net \ {q}, page.id, page.tab, panel.seen, srv)
      /\ q.s = page.id /\ page.id \in Scenarios
  BY FewerGood, SenderIsOpen DEF ContentsAnswered, Outcome, IInv, NetOK
<1>1. CASE panel' = panel
  BY <1>0, <1>1, QuietStep DEF Types
<1>2. CASE ContentsFit(q) /\ panel' = [panel EXCEPT !.contents = [s |-> q.s, version |-> q.arg]]
  <2>1. panel.list # None /\ panel.list.row.cur = q.arg /\ panel.list \in Snapshots
    BY <1>0, <1>2 DEF ContentsFit, Types, Panels
  <2>2. q.arg \in Nat
    BY <2>1 DEF Snapshots, Rows
  <2>3. [s |-> q.s, version |-> q.arg] \in [s : Scenarios, version : Nat]
    BY <1>0, <2>2
  <2>4. /\ panel' \in Panels /\ panel'.seen = panel.seen /\ panel'.list = panel.list
        /\ panel'.contents = [s |-> q.s, version |-> q.arg]
    BY <1>0, <1>2, <2>3 DEF Types, Panels
  <2>5. PageOK'
    BY <1>0, <2>1, <2>4 DEF PageOK, PanelsSpeakOfTheirScenario
  <2>6. QED
    BY <1>0, <2>4, <2>5 DEF IInv, NetOK, Types
<1>3. QED
  BY <1>1, <1>2 DEF ContentsAnswered

(* Only the newest list is taken, and it is of the scenario in the address. *)
LEMMA ListAnsweredStep ==
    ASSUME IInv, NEW q \in net, NEW ok \in BOOLEAN, ListAnswered(q, ok) PROVE IInv'
<1> DEFINE rest == net \ {q}
           read == IF Taken(q, ok) /\ page.tab = "files"
                   THEN Sent(rest, "contents", "panel", page.id, q.got.row.cur, FALSE) ELSE rest
           ended == [panel EXCEPT !.busy = @ /\ ~q.then]
<1>0. /\ UNCHANGED <<srv, page, form>> /\ Types /\ PageOK
      /\ NetGood(net, page.id, page.tab, panel.seen, srv)
      /\ Fits(q, page.id, srv)
      /\ q.op = "list" /\ q.from = "panel" /\ q.s = page.id /\ page.id \in Scenarios
  BY SenderIsOpen DEF ListAnswered, Outcome, IInv, NetOK, NetGood
<1>1. /\ net' = RowAsked(read) \/ net' = read
      /\ panel' = IF Taken(q, ok)
                  THEN [ended EXCEPT !.list = q.got, !.contents = None, !.seen = q.got.row.journal]
                  ELSE ended
  BY DEF ListAnswered
<1>2. /\ ended \in Panels
      /\ ended.list = panel.list /\ ended.contents = panel.contents /\ ended.seen = panel.seen
  BY <1>0 DEF Types, Panels
<1> HIDE DEF ended
<1>3. CASE ~Taken(q, ok)
  <2>1. NetGood(read, page.id, page.tab, panel.seen, srv)
    BY <1>0, <1>3, FewerGood
  <2>2. NetGood(net', page.id, page.tab, panel.seen, srv)
    <3> HIDE DEF read
    <3>1. QED
      BY <1>0, <1>1, <2>1, RowAskedGood
  <2>3. QED
    BY <1>0, <1>1, <1>2, <1>3, <2>2, QuietStep DEF Types
<1>4. CASE Taken(q, ok)
  <2>1. /\ q.got \in Snapshots /\ q.got.s = page.id
        /\ q.got.row.journal <= srv[page.id].journal
        /\ IsNewest(q)
    BY <1>0, <1>4, OpNames DEF Taken, ListAnswered, Outcome, Fits, IsNewest
  <2>2. q.got.row.cur \in Args /\ q.got.row.journal \in Nat
    BY <2>1 DEF Snapshots, Rows, Args
  <2>3. /\ panel' \in Panels /\ panel'.list = q.got /\ panel'.contents = None
        /\ panel'.seen = q.got.row.journal
    BY <1>1, <1>2, <1>4, <2>1, <2>2 DEF Panels
  <2>4. NetGood(rest, page.id, page.tab, q.got.row.journal, srv)
    BY <1>0, <2>1, TakenGood
  <2>5. NetGood(read, page.id, page.tab, q.got.row.journal, srv)
    BY <1>0, <2>2, <2>4, SentGood, OpNames
  <2>6. NetGood(net', page.id, page.tab, q.got.row.journal, srv)
    <3> HIDE DEF read
    <3>1. QED
      BY <1>0, <1>1, <2>5, RowAskedGood
  <2>7. NetOK'
    BY <1>0, <2>3, <2>6 DEF NetOK
  <2>8. PageOK'
    BY <1>0, <2>1, <2>3, EditorAssumption DEF PageOK, PanelsSpeakOfTheirScenario
  <2>9. QED
    BY <1>0, <2>3, <2>7, <2>8 DEF IInv, Types
<1>5. QED
  BY <1>3, <1>4

(* The other answers show nothing: they end what was busy and ask again. *)
LEMMA OtherAnswerStep ==
    ASSUME IInv, NEW q \in net, NEW ok \in BOOLEAN,
           \/ FormAnswered(q, ok) \/ ActAnswered(q, ok)
           \/ UploadAnswered(q, ok) \/ UnheardAnswered(q, ok)
    PROVE  IInv'
<1> DEFINE rest == net \ {q}
<1>0. /\ UNCHANGED <<srv, page>> /\ Types
      /\ NetGood(rest, page.id, page.tab, panel.seen, srv)
  <2>1. NetGood(rest, page.id, page.tab, panel.seen, srv) /\ Types
    BY FewerGood DEF IInv, NetOK
  <2>2. QED
    BY <2>1 DEF FormAnswered, ActAnswered, UploadAnswered, UnheardAnswered, Outcome
<1>1. q.from \in {"form", "panel"} => page'.id \in Scenarios
  BY <1>0, SenderIsOpen
<1>2. \/ net' = rest
      \/ /\ q.from \in {"form", "panel"}
         /\ \/ net' = RowAsked(rest)
            \/ net' = ListAsked(rest, TRUE)
            \/ net' = ListAsked(RowAsked(rest), TRUE)
            \/ net' = RowAsked(ListAsked(rest, FALSE))
  BY DEF FormAnswered, ActAnswered, UploadAnswered, UnheardAnswered
<1> HIDE DEF rest
<1>3. ASSUME NEW sent, NetGood(sent, page.id, page.tab, panel.seen, srv),
             q.from \in {"form", "panel"}
      PROVE  /\ NetGood(RowAsked(sent), page.id, page.tab, panel.seen, srv)
             /\ NetGood(ListAsked(sent, TRUE), page.id, page.tab, panel.seen, srv)
             /\ NetGood(ListAsked(sent, FALSE), page.id, page.tab, panel.seen, srv)
  <2>1. page.id \in Scenarios /\ page'.id = page.id /\ page'.tab = page.tab
    BY <1>0, <1>1, <1>3
  <2>2. NetGood(RowAsked(sent), page.id, page.tab, panel.seen, srv)
    BY <1>3, <2>1, RowAskedGood
  <2>3. \A then : NetGood(ListAsked(sent, then), page.id, page.tab, panel.seen, srv)
    BY <1>3, <2>1, ListAskedGood
  <2>4. QED
    BY <2>2, <2>3
<1>4. NetGood(net', page.id, page.tab, panel.seen, srv)
  <2>1. CASE net' = rest
    BY <1>0, <2>1
  <2>2. CASE q.from \in {"form", "panel"} /\ net' = RowAsked(rest)
    BY <1>0, <1>3, <2>2
  <2>3. CASE q.from \in {"form", "panel"} /\ net' = ListAsked(rest, TRUE)
    BY <1>0, <1>3, <2>3
  <2>4. CASE q.from \in {"form", "panel"} /\ net' = ListAsked(RowAsked(rest), TRUE)
    BY <1>0, <1>3, <2>4
  <2>5. CASE q.from \in {"form", "panel"} /\ net' = RowAsked(ListAsked(rest, FALSE))
    BY <1>0, <1>3, <2>5
  <2>6. QED
    BY <1>2, <2>1, <2>2, <2>3, <2>4, <2>5
<1>5. form' \in Forms
  BY <1>0 DEF Types, Forms, FormAnswered, ActAnswered, UploadAnswered, UnheardAnswered
<1>6. /\ panel' \in Panels
      /\ panel'.list = panel.list /\ panel'.contents = panel.contents /\ panel'.seen = panel.seen
  <2>1. CASE ActAnswered(q, ok)
    <3>1. panel' = [panel EXCEPT !.busy = ok /\ page.tab # "checks"]
      BY <2>1 DEF ActAnswered
    <3>2. (ok /\ page.tab # "checks") \in BOOLEAN
      OBVIOUS
    <3>3. QED
      BY <1>0, <3>1, <3>2 DEF Types, Panels
  <2>2. CASE UploadAnswered(q, ok)
    BY <1>0, <2>2 DEF Types, Panels, UploadAnswered
  <2>3. CASE UNCHANGED panel
    BY <1>0, <2>3 DEF Types
  <2>4. QED
    BY <2>1, <2>2, <2>3 DEF FormAnswered, UnheardAnswered
<1>7. QED
  BY <1>0, <1>4, <1>5, <1>6, QuietStep

LEMMA SamePlaceStep ==
    ASSUME IInv, UNCHANGED <<srv, page, form, panel, net>> PROVE IInv'
<1>1. form' \in Forms /\ panel' \in Panels
  BY DEF IInv, Types
<1>2. QED
  BY <1>1, QuietStep DEF IInv, NetOK

LEMMA IInvStep == ASSUME IInv, [Next]_vars PROVE IInv'
<1>1. CASE \E s \in Scenarios : OthersAct(s)
  BY <1>1, OthersStep
<1>2. CASE \E s \in Scenarios, tab \in Tabs : Open(s, tab)
  BY <1>2, OpenStep
<1>3. CASE \E tab \in Tabs : ShowTab(tab)
  BY <1>3, ShowTabStep
<1>4. CASE CodeRevoked \/ SignInAgain \/ UNCHANGED vars
  BY <1>4, SamePlaceStep DEF CodeRevoked, SignInAgain, vars
<1>5. CASE Leave \/ Retry
  BY <1>5, LeaveStep, RetryStep
<1>6. CASE (\E t \in Titles : Type(t)) \/ Discard
  BY <1>6, TypingStep
<1>7. CASE Save \/ ChangePreview \/ Upload \/ CancelUpload
  BY <1>7, SaveStep, ChangePreviewStep, UploadStep, CancelUploadStep
<1>8. CASE \E op \in PanelOps, v \in 0..(MaxChanges + 2) : Act(op, v)
  <2>1. PICK op \in PanelOps, v \in 0..(MaxChanges + 2) : Act(op, v)
    BY <1>8
  <2>2. v \in Nat
    BY <2>1, EditorAssumption
  <2>3. QED
    BY <2>1, <2>2, ActStep
<1>9. CASE \E q \in net : Handle(q)
  BY <1>9, HandleStep
<1>10. CASE \E q \in net, ok \in BOOLEAN : Answered(q, ok)
  <2>1. PICK q \in net, ok \in BOOLEAN : Answered(q, ok)
    BY <1>10
  <2>2. CASE RowAnswered(q, ok)
    BY <2>2, RowAnsweredStep
  <2>3. CASE ListAnswered(q, ok)
    BY <2>3, ListAnsweredStep
  <2>4. CASE ContentsAnswered(q, ok)
    BY <2>4, ContentsAnsweredStep
  <2>5. CASE \/ FormAnswered(q, ok) \/ ActAnswered(q, ok)
             \/ UploadAnswered(q, ok) \/ UnheardAnswered(q, ok)
    BY <2>5, OtherAnswerStep
  <2>6. QED
    BY <2>1, <2>2, <2>3, <2>4, <2>5 DEF Answered
<1>11. QED
  BY <1>1, <1>2, <1>3, <1>4, <1>5, <1>6, <1>7, <1>8, <1>9, <1>10 DEF Next

LEMMA IInvInit == ASSUME Init PROVE IInv
<1> USE DEF Init
<1>1. srv \in [Scenarios -> Rows]
  BY DEF FirstRows, Rows, Statuses
<1>2. page \in Pages /\ form \in Forms /\ panel \in Panels
  BY DEF NoPage, NoForm, NoPanel, Pages, Forms, Panels, Tabs
<1>3. NetOK
  BY DEF NetOK, NetGood, OneIsNewest
<1>4. PageOK
  BY DEF PageOK, PanelsSpeakOfTheirScenario, NoPage, NoPanel
<1>5. QED
  BY <1>1, <1>2, <1>3, <1>4 DEF IInv, Types

(* The inductive invariant: requests are about the part that sent them,    *)
(* and one list at most is the newest, read after the one on the screen.   *)
THEOREM EditorInvariance == Spec => []IInv
<1>1. Init => IInv
  BY IInvInit
<1>2. IInv /\ [Next]_vars => IInv'
  BY IInvStep
<1>3. QED
  BY <1>1, <1>2, PTL DEF Spec

(* The header, the panel and the listed contents are of the scenario in    *)
(* the address, whatever answers were out when the address changed.        *)
THEOREM PanelsAreOfTheAddress == Spec => []PanelsSpeakOfTheirScenario
<1>1. IInv => PanelsSpeakOfTheirScenario
  BY DEF IInv, PageOK
<1>2. QED
  BY <1>1, EditorInvariance, PTL

-----------------------------------------------------------------------------
(* Steps of the panel and of the form. *)

(* Only a list that is taken moves what the panel has seen; any other step *)
(* keeps it, or takes the panel away with its scenario or its tab.         *)
LEMMA SeenSteps ==
    ASSUME IInv, Next,
           panel'.open, page'.id = page.id, page'.tab = page.tab
    PROVE  \/ panel'.seen = panel.seen
           \/ \E q \in net : /\ IsNewest(q) /\ q.ans = "ok"
                             /\ panel'.seen = q.got.row.journal
<1>0. page \in Pages /\ panel \in Panels
  BY DEF IInv, Types
<1>1. CASE \E s \in Scenarios, tab \in Tabs : Open(s, tab)
  BY <1>1 DEF Open
<1>2. CASE \E tab \in Tabs : ShowTab(tab)
  BY <1>0, <1>2 DEF ShowTab, Pages
<1>3. CASE Leave
  BY <1>3 DEF Leave, NoPanel
<1>4. CASE \E q \in net, ok \in BOOLEAN : RowAnswered(q, ok)
  BY <1>0, <1>4 DEF RowAnswered, Panels
<1>5. CASE \E q \in net, ok \in BOOLEAN : ContentsAnswered(q, ok)
  BY <1>0, <1>5 DEF ContentsAnswered, Panels
<1>6. CASE \E q \in net, ok \in BOOLEAN : ListAnswered(q, ok)
  <2>1. PICK q \in net, ok \in BOOLEAN : ListAnswered(q, ok)
    BY <1>6
  <2> DEFINE ended == [panel EXCEPT !.busy = @ /\ ~q.then]
  <2>2. ended \in Panels /\ ended.seen = panel.seen
    BY <1>0 DEF Panels
  <2>3. panel' = IF Taken(q, ok)
                 THEN [ended EXCEPT !.list = q.got, !.contents = None, !.seen = q.got.row.journal]
                 ELSE ended
    BY <2>1 DEF ListAnswered
  <2> HIDE DEF ended
  <2>4. Taken(q, ok) => panel'.seen = q.got.row.journal
    BY <2>2, <2>3 DEF Panels
  <2>5. Taken(q, ok) => IsNewest(q) /\ q.ans = "ok"
    BY <2>1 DEF Taken, IsNewest, ListAnswered, Outcome
  <2>6. QED
    BY <2>2, <2>3, <2>4, <2>5
<1>7. CASE \E q \in net, ok \in BOOLEAN :
              \/ FormAnswered(q, ok) \/ ActAnswered(q, ok)
              \/ UploadAnswered(q, ok) \/ UnheardAnswered(q, ok)
  BY <1>0, <1>7 DEF FormAnswered, ActAnswered, UploadAnswered, UnheardAnswered, Panels
<1>8. CASE (\E op \in PanelOps, v \in 0..(MaxChanges + 2) : Act(op, v)) \/ Upload \/ CancelUpload
  BY <1>0, <1>8 DEF Act, Upload, CancelUpload, Panels
<1>9. CASE UNCHANGED panel
  BY <1>9
<1>10. QED
  <2>1. CASE \E s \in Scenarios : OthersAct(s)
    BY <1>9, <2>1 DEF OthersAct
  <2>2. CASE CodeRevoked \/ SignInAgain \/ Retry \/ Discard \/ Save \/ ChangePreview
    BY <1>9, <2>2 DEF CodeRevoked, SignInAgain, Retry, Discard, Save, ChangePreview
  <2>3. CASE (\E t \in Titles : Type(t)) \/ (\E q \in net : Handle(q))
    BY <1>9, <2>3 DEF Type, Handle
  <2>4. QED
    BY <1>1, <1>2, <1>3, <1>4, <1>5, <1>6, <1>7, <1>8, <2>1, <2>2, <2>3 DEF Next, Answered

(* While a files or publish panel stays open its list only moves forward:  *)
(* an older answer never replaces a newer one.                             *)
THEOREM ListsNeverGoBack == Spec => NewestAnswersWin
<1> DEFINE Forward ==
      panel.open /\ panel'.open /\ <<page'.id, page'.tab>> = <<page.id, page.tab>> /\ page.tab # "checks"
          => panel'.seen >= panel.seen
<1>1. IInv /\ [Next]_vars => [Forward]_vars
  <2> SUFFICES ASSUME IInv, Next, panel'.open, page'.id = page.id, page'.tab = page.tab,
                      page.tab # "checks"
               PROVE  panel'.seen >= panel.seen
    OBVIOUS
  <2>1. OneIsNewest(net, panel.seen) /\ panel.seen \in Nat
    BY DEF IInv, NetOK, NetGood, Types, Panels
  <2>2. CASE panel'.seen = panel.seen
    BY <2>1, <2>2
  <2>3. CASE \E q \in net : IsNewest(q) /\ q.ans = "ok" /\ panel'.seen = q.got.row.journal
    BY <2>1, <2>3 DEF OneIsNewest
  <2>4. QED
    BY <2>2, <2>3, SeenSteps
<1>2. QED
  BY <1>1, EditorInvariance, PTL DEF Spec, NewestAnswersWin

(* Typed text goes by the user's hand, or because the row says the same. *)
LEMMA EditsSteps ==
    ASSUME Types, Next, page'.id = page.id, page.shown # None, form'.edits # form.edits
    PROVE  net' = net \/ page'.shown.row.title = form.edits
<1>0. page \in Pages /\ form \in Forms
  BY DEF Types
<1>1. CASE \E s \in Scenarios, tab \in Tabs : Open(s, tab)
  BY <1>1 DEF Open
<1>2. CASE Leave
  BY <1>2 DEF Leave, NoPage
<1>3. CASE \E q \in net, ok \in BOOLEAN : RowAnswered(q, ok)
  <2>1. PICK q \in net, ok \in BOOLEAN : RowAnswered(q, ok)
    BY <1>3
  <2>2. /\ page' = [page EXCEPT !.shown = q.got, !.failed = FALSE]
        /\ form' = [form EXCEPT !.edits = Retired(@, q.got.row)]
    BY <2>1 DEF RowAnswered
  <2>3. page'.shown = q.got /\ form'.edits = Retired(form.edits, q.got.row)
    BY <1>0, <2>2 DEF Pages, Forms
  <2>4. QED
    BY <2>3 DEF Retired
<1>4. CASE \E q \in net, ok \in BOOLEAN : FormAnswered(q, ok)
  BY <1>0, <1>4 DEF FormAnswered, Forms
<1>5. CASE Save \/ ChangePreview
  BY <1>0, <1>5 DEF Save, ChangePreview, Forms
<1>6. CASE (\E t \in Titles : Type(t)) \/ Discard
  BY <1>6 DEF Type, Discard
<1>7. CASE UNCHANGED form
  BY <1>7
<1>8. QED
  <2>1. CASE \E s \in Scenarios : OthersAct(s)
    BY <1>7, <2>1 DEF OthersAct
  <2>2. CASE CodeRevoked \/ SignInAgain \/ Retry \/ Upload \/ CancelUpload
    BY <1>7, <2>2 DEF CodeRevoked, SignInAgain, Retry, Upload, CancelUpload
  <2>3. CASE (\E tab \in Tabs : ShowTab(tab)) \/ (\E q \in net : Handle(q))
    BY <1>7, <2>3 DEF ShowTab, Handle
  <2>4. CASE \E op \in PanelOps, v \in 0..(MaxChanges + 2) : Act(op, v)
    BY <1>7, <2>4 DEF Act
  <2>5. CASE \E q \in net, ok \in BOOLEAN :
                \/ ListAnswered(q, ok) \/ ContentsAnswered(q, ok) \/ ActAnswered(q, ok)
                \/ UploadAnswered(q, ok) \/ UnheardAnswered(q, ok)
    BY <1>7, <2>5 DEF ListAnswered, ContentsAnswered, ActAnswered, UploadAnswered, UnheardAnswered
  <2>6. QED
    BY <1>1, <1>2, <1>3, <1>4, <1>5, <1>6, <2>1, <2>2, <2>3, <2>4, <2>5 DEF Next, Answered

(* No answer, refused save, refetch or change of tab loses what was typed  *)
(* in the metadata form.                                                   *)
THEOREM TextIsKept == Spec => TypedTextIsKept
<1> DEFINE Kept ==
      page'.id = page.id /\ dirty /\ form'.edits # form.edits
          => net' = net \/ page'.shown.row.title = form.edits
<1>1. IInv /\ [Next]_vars => [Kept]_vars
  <2> SUFFICES ASSUME IInv, Next, page'.id = page.id, dirty, form'.edits # form.edits
               PROVE  net' = net \/ page'.shown.row.title = form.edits
    OBVIOUS
  <2>1. Types /\ page.shown # None
    BY DEF IInv, dirty
  <2>2. QED
    BY <2>1, EditsSteps
<1>2. QED
  BY <1>1, EditorInvariance, PTL DEF Spec, TypedTextIsKept

=============================================================================
