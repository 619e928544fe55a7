---------------------------- MODULE CatalogPages ----------------------------
(***************************************************************************)
(* What a visitor browses: the catalog (pages/catalog), the page of one    *)
(* scenario (pages/scenario) and the teacher's picker (pages/lti-pick), on *)
(* the one ScenarioService of the tab, against the public routes           *)
(* (routes/catalog-public.js).  The address holds the filter; answers come *)
(* in any order; the published catalog changes meanwhile.  A change of the *)
(* address and the effects it triggers are one step.                       *)
(***************************************************************************)
EXTENDS Integers, SequencesExt

CONSTANTS
    CatalogIds,   \* scenarios, numbered in the order of their creation
    TitleRank,    \* CatalogIds -> their place in the order of titles
    Categories,   \* the ones with a chip
    CategoryOf,
    OnShelf,      \* the scenarios published when the tab opens
    Texts,        \* search texts other than the empty one
    Mentions,     \* Texts -> the scenarios whose title or description has it
    PageSize,
    All, NoText,  \* no category filter, the empty search
    MaxRequests,  \* bound on catalog requests
    MaxLookups,   \* bound on scenarios opened in one scenario page
    MaxEdits      \* bound on publications and withdrawals

ASSUME CatalogAssumption ==
    /\ CatalogIds \subseteq Int /\ IsFiniteSet(CatalogIds)
    /\ TitleRank \in [CatalogIds -> Int]
    /\ DOMAIN CategoryOf = CatalogIds
    /\ OnShelf \subseteq CatalogIds
    /\ Mentions \in [Texts -> SUBSET CatalogIds]
    /\ PageSize \in Nat \ {0}
    /\ {MaxRequests, MaxLookups, MaxEdits} \subseteq Nat

VARIABLES
    shelf,     \* the published scenarios
    edits,     \* how often that set has changed
    page,      \* the page in the tab
    address,   \* the filter of the catalog's address, as parsed
    text,      \* what the search box says
    timer,     \* whether a search is pending
    service,   \* ScenarioService: list, filter, flags and request number
    requests,  \* catalog requests without an answer
    detail,    \* the scenario page: id, status, what it shows, request number
    lookups    \* its requests without an answer

serverVars == <<shelf, edits>>
catalogVars == <<address, text, timer>>
listVars == <<service, requests>>
detailVars == <<detail, lookups>>
pagesVars == <<serverVars, page, catalogVars, listVars, detailVars>>

Filters == [category : Categories \cup {All}, q : Texts \cup {NoText}, sort : {"new", "title"}]
Default == [category |-> All, q |-> NoText, sort |-> "new"]

(* What a hand-edited address may say. *)
RawQueries == [category : Categories \cup {All}, q : Texts \cup {NoText}, sort : {"new", "title", "junk"}]

(* parseCatalogQuery: an unknown value is the default. *)
Parsed(raw) == [raw EXCEPT !.sort = IF @ = "title" THEN @ ELSE "new"]

-----------------------------------------------------------------------------
(* GET /api/catalog. *)

Matching(shown, f) ==
    {s \in shown : /\ f.category \in {All, CategoryOf[s]}
                   /\ f.q = NoText \/ s \in Mentions[f.q]}

(* CATALOG_SORTS: newest first, or by title; the id settles the rest. *)
Precedes(sort, s, t) ==
    IF sort = "new" THEN s > t
    ELSE TitleRank[s] < TitleRank[t] \/ (TitleRank[s] = TitleRank[t] /\ s < t)

(* Where a scenario comes in the order. *)
Place(found, sort, s) == 1 + Cardinality({t \in found : Precedes(sort, t, s)})

Listed(shown, f) ==
    LET found == Matching(shown, f) IN
    [i \in 1..Cardinality(found) |-> CHOOSE s \in found : Place(found, f.sort, s) = i]

PageOf(shown, f, offset) ==
    LET found == Listed(shown, f)
    IN  SubSeq(found, offset + 1, Min({offset + PageSize, Len(found)}))

(* A moderator publishes or withdraws a scenario. *)
Edit(s) ==
    /\ edits < MaxEdits
    /\ edits' = edits + 1
    /\ shelf' = IF s \in shelf THEN shelf \ {s} ELSE shelf \cup {s}
    /\ requests' = {[r EXCEPT !.shelves = @ \cup {shelf'}] : r \in requests}
    /\ UNCHANGED <<page, catalogVars, service, detailVars>>

-----------------------------------------------------------------------------
(* ScenarioService. *)

HasMore == Len(service.rows) < service.total

(* fetchPage up to its await. *)
FetchPage(f, offset, append) ==
    /\ service.latest < MaxRequests
    /\ service' = [service EXCEPT !.latest = @ + 1, !.loading = TRUE, !.error = FALSE, !.filter = f]
    /\ requests' = requests \cup
          {[n |-> service.latest + 1, filter |-> f, offset |-> offset, append |-> append,
            shelves |-> {shelf}]}

LoadCatalog(f) == FetchPage(f, 0, FALSE)

(* Slip: a click that comes while a request is out is let through. *)
MayLoadMoreMeanwhile == HasMore

MayLoadMore == ~service.loading /\ HasMore

(* Slip: every answer is taken. *)
IsAnyRequest(n, latest) == TRUE

(* An answer for an older request is dropped. *)
IsLatest(n, latest) == n = latest

(* The rows and the count are two queries: each sees the shelf of some moment *)
(* since the request was sent.                                                *)
Taken(r, shown, counted) ==
    LET rows == PageOf(shown, r.filter, r.offset) IN
    [service EXCEPT !.rows = IF r.append THEN @ \o rows ELSE rows,
                    !.total = Cardinality(Matching(counted, r.filter)),
                    !.seen = IF r.append THEN @ \cup {shown} ELSE {shown},
                    !.counted = {counted},
                    !.loading = FALSE, !.loaded = TRUE]

(* Slip: loading is reset only on success. *)
FailedStillLoading(r) == [service EXCEPT !.error = TRUE, !.rows = <<>>, !.total = 0]

(* A failed next page keeps the list, a failed first page does not. *)
Failed(r) ==
    [service EXCEPT !.error = TRUE, !.loading = FALSE, !.loaded = TRUE,
                    !.rows = IF r.append THEN @ ELSE <<>>,
                    !.total = IF r.append THEN @ ELSE 0,
                    !.seen = IF r.append THEN @ ELSE {},
                    !.counted = IF r.append THEN @ ELSE {}]

Answered(r) ==
    /\ requests' = requests \ {r}
    /\ IF ~IsLatest(r.n, service.latest) THEN UNCHANGED service
       ELSE \/ \E shown, counted \in r.shelves : service' = Taken(r, shown, counted)
            \/ service' = Failed(r)
    /\ UNCHANGED <<serverVars, page, catalogVars, detailVars>>

-----------------------------------------------------------------------------
(* The catalog page. *)

(* The box follows the address unless a search is about to say something newer. *)
BoxAfter(q, pending) == IF pending THEN text ELSE q

(* The address changes to f: equal filters are no change and load nothing. *)
AddressBecomes(f, pending) ==
    /\ page = "catalog" /\ f # address
    /\ address' = f
    /\ text' = BoxAfter(f.q, pending)
    /\ timer' = pending
    /\ LoadCatalog(f)
    /\ UNCHANGED <<serverVars, page, detailVars>>

SelectCategory(c) == AddressBecomes([address EXCEPT !.category = c], timer)
SetSort(sort) == AddressBecomes([address EXCEPT !.sort = sort], timer)

(* Back, Forward, a link or a hand-edited address. *)
FollowLink(raw) == AddressBecomes(Parsed(raw), timer)

Type(t) ==
    /\ page # "scenario"
    /\ text' = t /\ timer' = TRUE
    /\ UNCHANGED <<serverVars, page, address, listVars, detailVars>>

(* The debounce has passed: the address takes the text over, if it is news. *)
SearchFires ==
    /\ timer
    /\ \/ AddressBecomes([address EXCEPT !.q = text], FALSE)
       \/ /\ page = "catalog" /\ address.q = text
          /\ timer' = FALSE
          /\ UNCHANGED <<serverVars, page, address, text, listVars, detailVars>>
       \/ /\ page = "pick"
          /\ timer' = FALSE
          /\ LoadCatalog([Default EXCEPT !.q = text])
          /\ UNCHANGED <<serverVars, page, address, text, detailVars>>

(* clearSearch and resetFilters drop the pending search, empty the box and navigate. *)
Reset(f) ==
    /\ page = "catalog"
    /\ text' = NoText /\ timer' = FALSE /\ address' = f
    /\ IF f = address THEN UNCHANGED listVars ELSE LoadCatalog(f)
    /\ UNCHANGED <<serverVars, page, detailVars>>

ClearSearch == Reset([address EXCEPT !.q = NoText])
ResetFilters == Reset(Default)

Reload ==
    /\ page = "catalog" /\ service.error
    /\ LoadCatalog(address)
    /\ UNCHANGED <<serverVars, page, catalogVars, detailVars>>

LoadMore ==
    /\ page = "catalog" /\ MayLoadMore
    /\ FetchPage(address, Len(service.rows), TRUE)
    /\ UNCHANGED <<serverVars, page, catalogVars, detailVars>>

-----------------------------------------------------------------------------
(* The scenario page: a card, a related scenario, a shared link, a retry.   *)
(* The catalog page is destroyed with its box and its timer, and answers    *)
(* that come after the scenario page was have nothing to write to.          *)

NoDetail == [id |-> 0, status |-> "left", shows |-> {}, latest |-> 0]

OpenDetail(s) ==
    /\ page # "pick" /\ detail.latest < MaxLookups
    /\ page' = "scenario"
    /\ address' = Default /\ text' = NoText /\ timer' = FALSE
    /\ detail' = [detail EXCEPT !.id = s, !.status = "loading", !.latest = @ + 1]
    /\ lookups' = lookups \cup {[n |-> detail.latest + 1, id |-> s]}
    /\ UNCHANGED <<serverVars, listVars>>

(* The public lookup finds published scenarios only; any request may fail. *)
DetailAnswered(l, failed) ==
    /\ lookups' = lookups \ {l}
    /\ IF ~IsLatest(l.n, detail.latest) THEN UNCHANGED detail
       ELSE detail' = [detail EXCEPT
                          !.shows = IF ~failed /\ l.id \in shelf THEN {l.id} ELSE {},
                          !.status = IF failed THEN "error"
                                     ELSE IF l.id \in shelf THEN "ready" ELSE "not-found"]
    /\ UNCHANGED <<serverVars, page, catalogVars, listVars>>

(* "Catalog" leads back to the list the visitor came from (backQuery). *)
BackToCatalog ==
    /\ page = "scenario"
    /\ page' = "catalog"
    /\ address' = service.filter /\ text' = service.filter.q /\ timer' = FALSE
    /\ LoadCatalog(service.filter)
    /\ detail' = NoDetail /\ lookups' = {}
    /\ UNCHANGED serverVars

-----------------------------------------------------------------------------

FirstRequest(f) == [n |-> 1, filter |-> f, offset |-> 0, append |-> FALSE, shelves |-> {OnShelf}]

(* A tab opens on the catalog, or on the picker once the session allowed it. *)
PagesInit ==
    /\ shelf = OnShelf
    /\ edits = 0
    /\ page \in {"catalog", "pick"}
    /\ address = Default /\ text = NoText /\ timer = FALSE
    /\ service = [rows |-> <<>>, total |-> 0, seen |-> {}, counted |-> {}, filter |-> Default,
                  loading |-> TRUE, loaded |-> FALSE, error |-> FALSE, latest |-> 1]
    /\ requests = {FirstRequest(Default)}
    /\ detail = NoDetail
    /\ lookups = {}

ServerNext == \E s \in CatalogIds : Edit(s)

AnswerNext ==
    \/ \E r \in requests : Answered(r)
    \/ \E l \in lookups, failed \in BOOLEAN : DetailAnswered(l, failed)

VisitNext ==
    \/ \E c \in Categories \cup {All} : SelectCategory(c)
    \/ \E sort \in {"new", "title"} : SetSort(sort)
    \/ \E raw \in RawQueries : FollowLink(raw)
    \/ \E t \in Texts \cup {NoText} : Type(t)
    \/ SearchFires \/ ClearSearch \/ ResetFilters \/ Reload \/ LoadMore
    \/ \E s \in CatalogIds : OpenDetail(s)
    \/ BackToCatalog

PagesNext == ServerNext \/ AnswerNext \/ VisitNext

(* A request is answered, be it with an error; a visitor need not do anything. *)
PagesSpec == PagesInit /\ [][PagesNext]_pagesVars /\ WF_pagesVars(AnswerNext)

-----------------------------------------------------------------------------

(***************************************************************************)
(* Once nothing is loading, the list is of the filter the page announces - *)
(* the address on the catalog page - and, if the catalog was the same at   *)
(* every page of it, it is the beginning of what that filter finds: no     *)
(* scenario twice, none skipped, "more" offered exactly when there is more,*)
(* however filters, next pages, failures and their answers crossed.        *)
(***************************************************************************)
ListIsOfItsFilter ==
    ~service.loading /\ service.rows # <<>> =>
        /\ page = "catalog" => service.filter = address
        /\ Cardinality(service.seen) = 1 =>
              LET shown == CHOOSE s \in service.seen : TRUE IN
              /\ IsPrefix(service.rows, Listed(shown, service.filter))
              /\ service.counted = service.seen
                    => (HasMore <=> Len(service.rows) < Len(Listed(shown, service.filter)))

(***************************************************************************)
(* A scenario page that is ready, or says not found, says it of the id in  *)
(* the address, not of one the visitor has left; and an answer that is     *)
(* still out never leaves the last scenario on a page that failed.         *)
(***************************************************************************)
DetailIsOfItsAddress ==
    page = "scenario" =>
        /\ detail.status = "ready" => detail.shows = {detail.id}
        /\ detail.status \in {"not-found", "error"} => detail.shows = {}

(* The list and the scenario page do not stay "loading". *)
EveryRequestEnds ==
    /\ service.loading ~> ~service.loading
    /\ detail.status = "loading" ~> detail.status # "loading"

=============================================================================
