---------------------------- MODULE VisitorProofs ---------------------------
(***************************************************************************)
(* Theorems about what a visitor's tab shows.  Viewer, for any scenarios,  *)
(* queries and number of loads: what runs and what the panel says belong   *)
(* to the newest load, and a telemetry session is open only while somebody *)
(* knows of it.  CatalogPages, for any scenarios, filters and page sizes:  *)
(* the list is of the filter announced and the detail of its address.      *)
(***************************************************************************)
EXTENDS Viewer, CatalogPages, SequenceTheorems, FiniteSetTheorems, TLAPS

States == {"idle", "unsupported", "downloading", "loading-engine", "running", "error"}
SomeScenario == Scenarios \cup {NoScenario}
SomeSource == Sources \cup {NoSource}

Views ==
    [state : States, routeId : SomeScenario, scn : SomeScenario, source : SomeSource,
     result : Nat, contextLost : BOOLEAN, paused : BOOLEAN]
LoadRows ==
    [token : Nat, id : Scenarios, step : {"lookup", "download", "engine"}, source : SomeSource]
Frames ==
    [run : Nat, plays : SomeSource, phase : {"none", "loading", "running", "dead"}, paused : BOOLEAN]

PageTypes ==
    /\ query \in Queries \cup {NoQuery}
    /\ token \in Nat
    /\ view \in Views
    /\ loads \subseteq LoadRows
    /\ frame \in Frames

PostRows == [run : Nat, scn : SomeScenario, id : Nat, heard : BOOLEAN]
SessionRows == [scn : SomeScenario, run : Nat, open : BOOLEAN]

TelemetryTypes ==
    /\ ran \in Seq(SomeScenario)
    /\ sessions \in Seq(SessionRows)
    /\ sessionId \in 0..Len(sessions)
    /\ beacons \subseteq 1..Len(sessions)
    /\ posts \subseteq PostRows
    /\ overlapped \subseteq Nat

Types == PageTypes /\ TelemetryTypes

-----------------------------------------------------------------------------
(* The page.  A load is live while its token is the newest. *)

(* The run that was handed to the player is the one the address asks for,  *)
(* and everything on the screen is about it.                               *)
RunIsTheAddress ==
    /\ view.scn = view.routeId /\ view.routeId \in Scenarios
    /\ view.source = SourceOf(view.routeId)
    /\ frame.plays = view.source
    /\ frame.run = token
    /\ view.result \in {0, token}
    /\ view.paused = frame.paused

(* A live load knows the state the page is in; only the last of its steps  *)
(* has a frame.                                                            *)
LiveLoad(l) ==
    /\ IsOpen
    /\ l.step = "lookup" => view.state = "downloading" /\ l.id = view.routeId
    /\ l.step = "download" =>
          /\ view.state = "downloading"
          /\ l.id = view.routeId /\ view.scn = view.routeId
          /\ l.source = SourceOf(view.routeId)
    /\ l.step = "engine" =>
          /\ view.state = "loading-engine" /\ frame.phase = "loading"
          /\ RunIsTheAddress /\ l.source = view.source

LoadsInOrder ==
    /\ \A l \in loads : l.token <= token
    /\ \A l, m \in loads : l.token = m.token => l = m

LiveLoads == \A l \in loads : l.token = token => LiveLoad(l)

RunningIsLoaded ==
    view.state = "running" =>
        /\ IsOpen
        /\ frame.phase = "running" /\ RunIsTheAddress
        /\ \A l \in loads : l.token # token

PageGood == LoadsInOrder /\ LiveLoads /\ RunningIsLoaded

-----------------------------------------------------------------------------
(* Telemetry. *)

(* A post is of a run that ran, and its answer will name that run's session. *)
PostsAreOfRuns ==
    /\ \A p \in posts :
          /\ p.run \in DOMAIN ran /\ p.scn = ran[p.run]
          /\ p.id = 0 => \A i \in DOMAIN sessions : sessions[i].run # p.run
          /\ p.id # 0 => p.id \in DOMAIN sessions /\ sessions[p.id].run = p.run
    /\ \A p, q \in posts : p.run = q.run => p = q

(* Two posts that are out together, and a session held while another post  *)
(* is still heard, are of overlapping starts.                              *)
OverlapsAreKnown ==
    /\ \A p, q \in posts : p # q => p.run \in overlapped
    /\ \A p \in posts : p.heard /\ sessionId # 0 => sessions[sessionId].run \in overlapped

TelemetryGood == PostsAreOfRuns /\ OverlapsAreKnown /\ OnlyOverlappingStartsAreForgotten

IInv == Types /\ PageGood /\ TelemetryGood

-----------------------------------------------------------------------------
(* Lemmas about the page's operators. *)

LEMMA QueryIsOpen ==
    ASSUME NEW q \in Queries PROVE q # NoQuery
BY ViewerAssumption DEF NoQuery

LEMMA SourceType ==
    ASSUME PageTypes, NEW id \in Scenarios PROVE SourceOf(id) \in Sources
BY DEF SourceOf, Sources, Versions

(* What the address asks for changes with the address only. *)
LEMMA SourceStays ==
    ASSUME UNCHANGED query, view'.routeId = view.routeId
    PROVE  SourceOf(view.routeId)' = SourceOf(view.routeId)
BY DEF SourceOf, DraftOf

LEMMA RunSourceEffect ==
    ASSUME NEW v \in Views, NEW source \in Sources, NEW tok \in Nat, NEW rest,
           RunSource(v, source, tok, rest)
    PROVE  /\ view' \in Views
           /\ view'.state = "loading-engine" /\ view'.routeId = v.routeId /\ view'.scn = v.scn
           /\ view'.source = source /\ view'.result = 0 /\ view'.paused = FALSE
           /\ frame' \in Frames
           /\ frame'.run = tok /\ frame'.plays = source
           /\ frame'.phase = "loading" /\ frame'.paused = FALSE
           /\ loads' = rest \cup {Awaits(tok, source.scn, "engine", source)}
<1> DEFINE w == [v EXCEPT !.source = source]
<1>1. /\ w \in Views /\ w.routeId = v.routeId /\ w.scn = v.scn /\ w.source = source
  BY DEF Views, SomeSource
<1>2. view' = [w EXCEPT !.state = "loading-engine", !.paused = FALSE, !.result = 0]
  BY DEF RunSource, FreshRun
<1>3. /\ view' \in Views
      /\ view'.state = "loading-engine" /\ view'.routeId = v.routeId /\ view'.scn = v.scn
      /\ view'.source = source /\ view'.result = 0 /\ view'.paused = FALSE
  <2> HIDE DEF w
  <2>1. QED
    BY <1>1, <1>2 DEF Views, States
<1>4. frame' = [run |-> tok, plays |-> source, phase |-> "loading", paused |-> FALSE]
  BY DEF RunSource, NoFrame
<1>5. frame' \in Frames
  BY <1>4 DEF Frames, SomeSource
<1>6. loads' = rest \cup {Awaits(tok, source.scn, "engine", source)}
  BY DEF RunSource
<1>7. QED
  BY <1>3, <1>4, <1>5, <1>6

LEMMA OpenScenarioEffect ==
    ASSUME NEW v \in Views, NEW id \in Scenarios, NEW draft, OpenScenario(v, id, draft)
    PROVE  /\ view' \in Views /\ view'.routeId = id
           /\ token' = token + 1
           /\ \/ view'.state = "error" /\ loads' = loads
              \/ /\ view'.state = "downloading"
                 /\ loads' = loads \cup {Awaits(token + 1, id, "lookup", NoSource)}
BY DEF OpenScenario, Views, States, SomeScenario

LEMMA AwaitsType ==
    ASSUME NEW tok \in Nat, NEW id \in Scenarios,
           NEW step \in {"lookup", "download", "engine"}, NEW source \in SomeSource
    PROVE  /\ Awaits(tok, id, step, source) \in LoadRows
           /\ Awaits(tok, id, step, source).token = tok
           /\ Awaits(tok, id, step, source).id = id
           /\ Awaits(tok, id, step, source).step = step
           /\ Awaits(tok, id, step, source).source = source
BY DEF Awaits, LoadRows

(* The order of the loads when some go, when one takes its next step, and  *)
(* when a new one starts.                                                  *)
LEMMA FewerLoads ==
    ASSUME LoadsInOrder, UNCHANGED token, loads' \subseteq loads
    PROVE  LoadsInOrder'
BY DEF LoadsInOrder

LEMMA NextLoad ==
    ASSUME LoadsInOrder, UNCHANGED token, NEW l \in loads, NEW n, n.token = l.token,
           loads' = (loads \ {l}) \cup {n}
    PROVE  LoadsInOrder' /\ \A m \in loads' : m.token = l.token => m = n
BY DEF LoadsInOrder

LEMMA NewestLoad ==
    ASSUME PageTypes, LoadsInOrder, token' = token + 1, NEW n, n.token = token + 1,
           loads' \subseteq loads \cup {n}
    PROVE  LoadsInOrder' /\ \A m \in loads' : m.token = token' => m = n
<1>1. \A l \in loads : l.token \in Nat /\ l.token <= token
  BY DEF PageTypes, LoadRows, LoadsInOrder
<1>2. \A l \in loads : l.token # token + 1 /\ l.token <= token + 1
  BY <1>1 DEF PageTypes
<1>3. token \in Nat
  BY DEF PageTypes
<1>4. \A m \in loads' : m.token = token' => m = n
  BY <1>2
<1>5. \A m \in loads' : m.token <= token'
  BY <1>2, <1>3
<1>6. QED
  BY <1>4, <1>5 DEF LoadsInOrder

(* A step of the player that leaves the address, the source and the run as *)
(* they are.                                                               *)
LEMMA SameRun ==
    ASSUME RunIsTheAddress, UNCHANGED <<query, token>>,
           view'.routeId = view.routeId, view'.scn = view.scn, view'.source = view.source,
           frame'.run = frame.run, frame'.plays = frame.plays,
           view'.result \in {view.result, frame.run},
           view'.paused = frame'.paused
    PROVE  RunIsTheAddress'
<1>1. SourceOf(view.routeId)' = SourceOf(view.routeId)
  BY SourceStays
<1>2. QED
  BY <1>1 DEF RunIsTheAddress

-----------------------------------------------------------------------------
(* Steps of the page. *)

PageOK == PageTypes /\ PageGood

(* A page on a new address waits for one lookup, or shows an error. *)
LEMMA OpenScenarioStep ==
    ASSUME PageOK, NEW v \in Views, NEW id \in Scenarios, NEW draft, OpenScenario(v, id, draft),
           query' \in Queries, UNCHANGED frame
    PROVE  PageOK'
<1> DEFINE n == Awaits(token + 1, id, "lookup", NoSource)
<1> USE DEF PageOK, PageGood
<1>0. token \in Nat /\ token + 1 \in Nat
  BY DEF PageTypes
<1>1. n \in LoadRows /\ n.token = token + 1 /\ n.step = "lookup" /\ n.id = id
  BY <1>0, AwaitsType DEF SomeSource
<1>2. /\ view' \in Views /\ view'.routeId = id /\ token' = token + 1
      /\ \/ view'.state = "error" /\ loads' = loads
         \/ view'.state = "downloading" /\ loads' = loads \cup {n}
  BY OpenScenarioEffect
<1> HIDE DEF n
<1>3. PageTypes'
  BY <1>0, <1>1, <1>2 DEF PageTypes
<1>4. LoadsInOrder' /\ \A m \in loads' : m.token = token' => m = n
  BY <1>1, <1>2, NewestLoad
<1>5. \A m \in loads : m.token # token + 1
  BY <1>0 DEF LoadsInOrder, PageTypes, LoadRows
<1>6. LiveLoads'
  <2> SUFFICES ASSUME NEW m \in loads', m.token = token' PROVE LiveLoad(m)'
    BY DEF LiveLoads
  <2>1. m = n /\ n \notin loads
    BY <1>1, <1>4, <1>5
  <2>2. view'.state = "downloading"
    BY <1>2, <2>1
  <2>3. query' # NoQuery
    BY QueryIsOpen
  <2>4. QED
    BY <1>1, <1>2, <2>1, <2>2, <2>3 DEF LiveLoad, IsOpen
<1>7. RunningIsLoaded'
  BY <1>2 DEF RunningIsLoaded
<1>8. QED
  BY <1>3, <1>4, <1>6, <1>7

LEMMA BlankType == Blank \in Views
BY DEF Blank, Views, States, SomeScenario, SomeSource

LEMMA OpenStep ==
    ASSUME PageOK, NEW q \in Queries, NEW id \in Scenarios, Open(q, id) PROVE PageOK'
<1>1. CASE OpenScenario(Blank, id, DraftOf(q))
  BY <1>1, BlankType, OpenScenarioStep DEF Open
<1>2. CASE view' = [Blank EXCEPT !.state = "unsupported"] /\ UNCHANGED <<token, loads>>
  <2>1. view' \in Views /\ view'.state = "unsupported"
    BY <1>2, BlankType DEF Views, States
  <2>2. \A l \in loads : l.token # token
    BY DEF PageOK, PageGood, LiveLoads, LiveLoad, Open
  <2>3. QED
    BY <1>2, <2>1, <2>2 DEF PageOK, PageGood, PageTypes, Open, LoadsInOrder, LiveLoads, RunningIsLoaded
<1>3. QED
  BY <1>1, <1>2 DEF Open

LEMMA NavigateStep ==
    ASSUME PageOK, NEW id \in Scenarios, Navigate(id) PROVE PageOK'
<1>1. query' \in Queries /\ view \in Views
  BY DEF Navigate, IsOpen, PageOK, PageTypes
<1>2. QED
  BY <1>1, OpenScenarioStep DEF Navigate

(* The newest load has its source and hands it to a fresh frame. *)
LEMMA RunStep ==
    ASSUME PageOK, IsOpen, UNCHANGED query, token' \in Nat,
           NEW v \in Views, v.routeId \in Scenarios, v.routeId = view.routeId, v.scn = v.routeId,
           NEW rest, RunSource(v, SourceOf(v.routeId), token', rest),
           LoadsInOrder',
           rest \subseteq loads, \A m \in rest : m.token # token'
    PROVE  PageOK'
<1> USE DEF PageOK, PageGood
<1> DEFINE source == SourceOf(v.routeId)
           n == Awaits(token', source.scn, "engine", source)
<1>1. source \in Sources /\ source.scn = v.routeId
  BY SourceType DEF SourceOf
<1>2. n \in LoadRows /\ n.token = token' /\ n.step = "engine" /\ n.source = source
  BY <1>1, AwaitsType DEF SomeSource
<1>3. /\ view' \in Views
      /\ view'.state = "loading-engine" /\ view'.routeId = v.routeId /\ view'.scn = v.scn
      /\ view'.source = source /\ view'.result = 0 /\ view'.paused = FALSE
      /\ frame' \in Frames
      /\ frame'.run = token' /\ frame'.plays = source
      /\ frame'.phase = "loading" /\ frame'.paused = FALSE
      /\ loads' = rest \cup {n}
  BY <1>1, RunSourceEffect
<1>4. SourceOf(view.routeId)' = source
  BY <1>3, SourceStays
<1> HIDE DEF source, n
<1>5. PageTypes'
  BY <1>2, <1>3 DEF PageTypes
<1>6. RunIsTheAddress'
  BY <1>3, <1>4 DEF RunIsTheAddress
<1>7. LiveLoads'
  BY <1>2, <1>3, <1>6 DEF LiveLoads, LiveLoad, IsOpen
<1>8. RunningIsLoaded'
  BY <1>3 DEF RunningIsLoaded
<1>9. QED
  BY <1>5, <1>7, <1>8

(* The newest load ends on an error screen. *)
LEMMA ErrorStep ==
    ASSUME PageOK, UNCHANGED <<query, token>>, view' \in Views, view'.state = "error",
           frame' \in Frames, loads' \subseteq loads,
           \A l \in loads' : l.token # token
    PROVE  PageOK'
<1> USE DEF PageOK, PageGood
<1>1. LoadsInOrder'
  BY FewerLoads
<1>2. QED
  BY <1>1 DEF PageTypes, LiveLoads, RunningIsLoaded

LEMMA ShowErrorType ==
    ASSUME PageTypes PROVE ShowError \in Views /\ ShowError.state = "error"
BY DEF PageTypes, ShowError, SetState, Views, States

(* The only live load is the one that is answered. *)
LEMMA OneIsLive ==
    ASSUME PageOK, NEW l \in loads, l.token = token
    PROVE  /\ LiveLoad(l)
           /\ \A m \in loads \ {l} : m.token # token
           /\ view.state # "running"
BY DEF PageOK, PageGood, LoadsInOrder, LiveLoads, RunningIsLoaded

LEMMA LookupStep ==
    ASSUME PageOK, NEW l \in loads, NEW answer \in Answers, LookupAnswered(l, answer)
    PROVE  PageOK'
<1> DEFINE found == [view EXCEPT !.scn = l.id]
           rest == loads \ {l}
<1>1. l.step = "lookup" /\ l.token = token /\ UNCHANGED <<query, token>>
  BY DEF LookupAnswered, IsStale
<1>2. LiveLoad(l) /\ \A m \in rest : m.token # token
  BY <1>1, OneIsLive
<1>3. IsOpen /\ l.id = view.routeId /\ view.routeId \in Scenarios
  BY <1>1, <1>2 DEF LiveLoad, PageOK, PageTypes, LoadRows
<1>4. /\ view \in Views /\ token \in Nat /\ frame \in Frames
      /\ LoadsInOrder
  BY DEF PageOK, PageGood, PageTypes
<1>5. found \in Views /\ found.routeId = view.routeId /\ found.scn = view.routeId
  BY <1>3, <1>4 DEF Views, SomeScenario
<1> HIDE DEF found
<1>6. ASSUME answer = "failed", view' = ShowError, loads' = rest, UNCHANGED frame
      PROVE  PageOK'
  BY <1>1, <1>2, <1>4, <1>6, ErrorStep, ShowErrorType DEF PageOK
<1>7. ASSUME view' = [found EXCEPT !.state = "error"], loads' = rest, UNCHANGED frame
      PROVE  PageOK'
  <2>1. view' \in Views /\ view'.state = "error"
    BY <1>5, <1>7 DEF Views, States
  <2>2. QED
    BY <1>1, <1>2, <1>4, <1>7, <2>1, ErrorStep
<1>8. ASSUME RunSource(found, SourceOf(l.id), l.token, rest)
      PROVE  PageOK'
  <2>1. loads' = rest \cup {Awaits(token, SourceOf(l.id).scn, "engine", SourceOf(l.id))}
    BY <1>1, <1>8 DEF RunSource
  <2>2. Awaits(token, SourceOf(l.id).scn, "engine", SourceOf(l.id)).token = token
    BY DEF Awaits
  <2>3. LoadsInOrder'
    BY <1>1, <1>4, <2>1, <2>2, NextLoad
  <2>4. token' \in Nat /\ token' = l.token
    BY <1>1, <1>4
  <2>5. RunSource(found, SourceOf(found.routeId), token', rest)
    BY <1>3, <1>5, <1>8, <2>4
  <2>6. QED
    BY <1>1, <1>2, <1>3, <1>5, <2>3, <2>4, <2>5, RunStep
<1>9. ASSUME view' = [found EXCEPT !.state = "downloading"],
             loads' = rest \cup {Awaits(l.token, l.id, "download", SourceOf(l.id))},
             UNCHANGED frame
      PROVE  PageOK'
  <2> DEFINE n == Awaits(l.token, l.id, "download", SourceOf(l.id))
  <2>1. SourceOf(l.id) \in Sources
    BY <1>3, SourceType DEF PageOK
  <2>2. /\ n \in LoadRows /\ n.token = token /\ n.step = "download"
        /\ n.id = view.routeId /\ n.source = SourceOf(view.routeId)
    <3>1. l.token \in Nat /\ l.id \in Scenarios /\ SourceOf(l.id) \in SomeSource
      BY <1>1, <1>3, <1>4, <2>1 DEF SomeSource
    <3>2. /\ n \in LoadRows /\ n.token = l.token /\ n.step = "download"
          /\ n.id = l.id /\ n.source = SourceOf(l.id)
      BY <3>1, AwaitsType
    <3> QED
      BY <1>1, <1>3, <3>2
  <2>3. loads' = rest \cup {n}
    BY <1>9
  <2> HIDE DEF n
  <2>4. /\ view' \in Views /\ view'.state = "downloading"
        /\ view'.routeId = view.routeId /\ view'.scn = view.routeId
    BY <1>5, <1>9 DEF Views, States
  <2>5. LoadsInOrder' /\ \A m \in loads' : m.token = l.token => m = n
    BY <1>1, <1>4, <2>2, <2>3, NextLoad
  <2>6. SourceOf(view.routeId)' = SourceOf(view.routeId)
    BY <1>1, <2>4, SourceStays
  <2>7. LiveLoads'
    <3> SUFFICES ASSUME NEW m \in loads', m.token = token' PROVE LiveLoad(m)'
      BY DEF LiveLoads
    <3>1. m = n
      BY <1>1, <2>5
    <3>2. QED
      BY <1>1, <1>3, <2>2, <2>4, <2>6, <3>1 DEF LiveLoad, IsOpen
  <2>8. RunningIsLoaded' /\ PageTypes'
    BY <1>1, <1>9, <2>2, <2>3, <2>4 DEF RunningIsLoaded, PageTypes, PageOK
  <2>9. QED
    BY <2>5, <2>7, <2>8 DEF PageOK, PageGood
<1>10. QED
  BY <1>6, <1>7, <1>8, <1>9 DEF LookupAnswered, found

LEMMA DownloadedStep ==
    ASSUME PageOK, NEW l \in loads, Downloaded(l) PROVE PageOK'
<1> DEFINE rest == loads \ {l}
<1>1. l.step = "download" /\ l.token = token /\ UNCHANGED <<query, token>>
  BY DEF Downloaded, IsStale
<1>2. LiveLoad(l) /\ \A m \in rest : m.token # token
  BY <1>1, OneIsLive
<1>3. /\ IsOpen /\ l.id = view.routeId /\ view.scn = view.routeId /\ view.routeId \in Scenarios
      /\ l.source = SourceOf(view.routeId)
  BY <1>1, <1>2 DEF LiveLoad, PageOK, PageTypes, LoadRows
<1>4. view \in Views /\ token \in Nat /\ LoadsInOrder
  BY DEF PageOK, PageGood, PageTypes
<1>5. loads' = rest \cup {Awaits(token, l.source.scn, "engine", l.source)}
  BY <1>1 DEF Downloaded, RunSource
<1>6. Awaits(token, l.source.scn, "engine", l.source).token = token
  BY DEF Awaits
<1>7. LoadsInOrder'
  BY <1>1, <1>4, <1>5, <1>6, NextLoad
<1>8. RunSource(view, SourceOf(view.routeId), token', rest)
  BY <1>1, <1>3 DEF Downloaded
<1>9. QED
  BY <1>1, <1>2, <1>3, <1>4, <1>7, <1>8, RunStep

LEMMA DownloadFailsStep ==
    ASSUME PageOK, NEW l \in loads, DownloadFails(l) PROVE PageOK'
BY OneIsLive, ErrorStep, ShowErrorType DEF DownloadFails, IsStale, PageOK, PageTypes

LEMMA StaleStep ==
    ASSUME PageOK, NEW l \in loads, StaleAnswer(l) PROVE PageOK'
<1> USE DEF PageOK, PageGood
<1>1. UNCHANGED <<query, token, view, frame>> /\ loads' = loads \ {l}
  BY DEF StaleAnswer
<1>2. LoadsInOrder'
  BY <1>1, FewerLoads
<1>3. RunIsTheAddress' <=> RunIsTheAddress
  BY <1>1 DEF RunIsTheAddress, SourceOf, DraftOf
<1>4. \A m : LiveLoad(m)' <=> LiveLoad(m)
  BY <1>1, <1>3 DEF LiveLoad, IsOpen, SourceOf, DraftOf
<1>5. QED
  BY <1>1, <1>2, <1>3, <1>4 DEF PageTypes, LiveLoads, RunningIsLoaded, IsOpen

(* An answer of the player's frame is an answer to the newest load, or     *)
(* there is none of the newest load with a frame and nothing runs.         *)
LEMMA StaleFrame ==
    ASSUME PageOK, frame.run # token
    PROVE  /\ view.state # "running"
           /\ \A m \in loads : m.token = token => m.step \in {"lookup", "download"}
                                                  /\ view.state = "downloading"
BY DEF PageOK, PageGood, PageTypes, LoadRows, LiveLoads, LiveLoad, RunningIsLoaded, RunIsTheAddress

(* What a stale frame does is no business of the page, unless it shows an  *)
(* error, which it may only when no load waits for the network.            *)
LEMMA StaleFrameStep ==
    ASSUME PageOK, frame.run # token, UNCHANGED <<query, token>>,
           loads' \subseteq loads, frame' \in Frames, view' \in Views,
           \/ view'.state = view.state
              /\ view'.routeId = view.routeId /\ view'.scn = view.scn
           \/ view.state # "downloading" /\ view'.state = "error"
    PROVE  PageOK'
<1> USE DEF PageOK, PageGood
<1>1. /\ view.state # "running"
      /\ \A m \in loads : m.token = token => m.step \in {"lookup", "download"}
                                             /\ view.state = "downloading"
  BY StaleFrame
<1>2. LoadsInOrder'
  BY FewerLoads
<1>3. LiveLoads'
  <2> SUFFICES ASSUME NEW m \in loads', m.token = token PROVE LiveLoad(m)'
    BY DEF LiveLoads
  <2>1. /\ LiveLoad(m) /\ m.step \in {"lookup", "download"} /\ view.state = "downloading"
    BY <1>1 DEF LiveLoads
  <2>2. view'.state = view.state /\ view'.routeId = view.routeId /\ view'.scn = view.scn
    BY <2>1
  <2>3. SourceOf(view.routeId)' = SourceOf(view.routeId)
    BY <2>2, SourceStays
  <2>4. QED
    BY <2>1, <2>2, <2>3 DEF LiveLoad, IsOpen
<1>4. RunningIsLoaded'
  BY <1>1 DEF RunningIsLoaded
<1>5. QED
  BY <1>2, <1>3, <1>4 DEF PageTypes

LEMMA EngineReadyStep ==
    ASSUME PageOK, NEW l \in loads, EngineReady(l) PROVE PageOK'
<1> USE DEF PageOK, PageGood
<1>1. /\ l.step = "engine" /\ frame.run = l.token /\ UNCHANGED <<query, token>>
      /\ loads' = loads \ {l}
      /\ frame' = [frame EXCEPT !.phase = "running"]
  BY DEF EngineReady
<1>2. /\ frame' \in Frames /\ frame'.phase = "running" /\ frame'.run = frame.run
      /\ frame'.plays = frame.plays /\ frame'.paused = frame.paused
  BY <1>1 DEF PageTypes, Frames
<1>3. CASE IsStale(l)
  <2>1. UNCHANGED view /\ frame.run # token
    BY <1>1, <1>3 DEF EngineReady, IsStale
  <2>2. QED
    BY <1>1, <1>2, <2>1, StaleFrameStep DEF PageTypes
<1>4. CASE ~IsStale(l)
  <2>1. view' = [view EXCEPT !.state = "running"] /\ l.token = token
    BY <1>4 DEF EngineReady, IsStale, SetState
  <2>2. LiveLoad(l) /\ \A m \in loads \ {l} : m.token # token
    BY <2>1, OneIsLive
  <2>3. /\ view' \in Views /\ view'.state = "running" /\ view'.routeId = view.routeId
        /\ view'.scn = view.scn /\ view'.source = view.source /\ view'.result = view.result
        /\ view'.paused = view.paused
    BY <2>1 DEF PageTypes, Views, States
  <2>4. IsOpen /\ RunIsTheAddress
    BY <1>1, <2>2 DEF LiveLoad
  <2>5. RunIsTheAddress'
    <3>1. view'.paused = frame'.paused
      BY <1>2, <2>3, <2>4 DEF RunIsTheAddress
    <3>2. QED
      BY <1>1, <1>2, <2>3, <2>4, <3>1, SameRun
  <2>6. RunningIsLoaded'
    BY <1>1, <1>2, <2>2, <2>4, <2>5 DEF RunningIsLoaded, IsOpen
  <2>7. LoadsInOrder' /\ LiveLoads' /\ PageTypes'
    BY <1>1, <1>2, <2>2, <2>3, FewerLoads DEF LiveLoads, PageTypes
  <2>8. QED
    BY <2>6, <2>7
<1>5. QED
  BY <1>3, <1>4

LEMMA EngineFailsStep ==
    ASSUME PageOK, NEW l \in loads, NEW code \in {"load", "runtime"}, EngineFails(l, code)
    PROVE  PageOK'
<1>1. /\ l.step = "engine" /\ frame.run = l.token /\ UNCHANGED <<query, token>>
      /\ loads' = loads \ {l} /\ view \in Views
  BY DEF EngineFails, PageOK, PageTypes
<1>2. frame' \in Frames
  BY DEF EngineFails, PageOK, PageTypes, Frames
<1>3. CASE IsStale(l)
  <2>1. frame.run # token
    BY <1>1, <1>3 DEF IsStale
  <2>2. CASE view' = view
    BY <1>1, <1>2, <2>1, <2>2, StaleFrameStep
  <2>3. CASE view' = ShowError /\ IsOurs
    BY <1>1, <1>2, <2>1, <2>3, ShowErrorType, StaleFrameStep DEF IsOurs, PageOK
  <2>4. QED
    BY <1>3, <2>2, <2>3 DEF EngineFails, FailureShown
<1>4. CASE ~IsStale(l)
  <2>1. l.token = token /\ LiveLoad(l) /\ \A m \in loads \ {l} : m.token # token
    BY <1>4, OneIsLive DEF IsStale
  <2>2. view' = ShowError
    BY <1>1, <1>4, <2>1 DEF EngineFails, FailureShown, LiveLoad
  <2>3. QED
    BY <1>1, <1>2, <2>1, <2>2, ErrorStep, ShowErrorType DEF PageOK
<1>5. QED
  BY <1>3, <1>4

(* The player speaks: of the newest run, or to a page that waits for the   *)
(* network or shows an error.                                              *)
LEMMA SpokenStep ==
    ASSUME PageOK, UNCHANGED <<query, token, loads>>,
           view' \in Views, frame' \in Frames,
           view'.state = view.state /\ view'.routeId = view.routeId,
           view'.scn = view.scn /\ view'.source = view.source,
           frame'.run = frame.run /\ frame'.plays = frame.plays /\ frame'.phase = frame.phase,
           view'.result \in {view.result, frame.run},
           view.paused = frame.paused => view'.paused = frame'.paused
    PROVE  PageOK'
<1> USE DEF PageOK, PageGood
<1>1. RunIsTheAddress => RunIsTheAddress'
  BY SameRun DEF RunIsTheAddress
<1>2. SourceOf(view.routeId)' = SourceOf(view.routeId)
  BY SourceStays
<1>3. \A m : LiveLoad(m) => LiveLoad(m)'
  BY <1>1, <1>2 DEF LiveLoad, IsOpen
<1>4. QED
  BY <1>1, <1>3, FewerLoads DEF PageTypes, LiveLoads, RunningIsLoaded, IsOpen

LEMMA PlayerStep == ASSUME PageOK, PlayerNext PROVE PageOK'
<1>0. view \in Views /\ frame \in Frames
  BY DEF PageOK, PageTypes
<1>1. CASE PlayerReports
  <2>1. /\ view' = [view EXCEPT !.result = frame.run]
        /\ UNCHANGED <<query, token, loads, frame>>
    BY <1>1 DEF PlayerReports
  <2>2. /\ view' \in Views /\ view'.state = view.state /\ view'.routeId = view.routeId
        /\ view'.scn = view.scn /\ view'.source = view.source
        /\ view'.result = frame.run /\ view'.paused = view.paused
    BY <1>0, <2>1 DEF Views, Frames
  <2>3. QED
    BY <1>0, <2>1, <2>2, SpokenStep
<1>2. CASE PlayerPauses
  <2>1. /\ frame' = [frame EXCEPT !.paused = ~@] /\ view' = [view EXCEPT !.paused = frame'.paused]
        /\ UNCHANGED <<query, token, loads>>
    BY <1>2 DEF PlayerPauses
  <2>2. /\ frame' \in Frames /\ frame'.run = frame.run /\ frame'.plays = frame.plays
        /\ frame'.phase = frame.phase /\ frame'.paused \in BOOLEAN
    BY <1>0, <2>1 DEF Frames
  <2>3. /\ view' \in Views /\ view'.state = view.state /\ view'.routeId = view.routeId
        /\ view'.scn = view.scn /\ view'.source = view.source
        /\ view'.result = view.result /\ view'.paused = frame'.paused
    BY <1>0, <2>1, <2>2 DEF Views
  <2>4. QED
    BY <2>1, <2>2, <2>3, SpokenStep
<1>3. CASE PlayerLosesContext
  <2>1. /\ view' = [view EXCEPT !.contextLost = TRUE]
        /\ UNCHANGED <<query, token, loads, frame>>
    BY <1>3 DEF PlayerLosesContext
  <2>2. /\ view' \in Views /\ view'.state = view.state /\ view'.routeId = view.routeId
        /\ view'.scn = view.scn /\ view'.source = view.source
        /\ view'.result = view.result /\ view'.paused = view.paused
    BY <1>0, <2>1 DEF Views
  <2>3. QED
    BY <1>0, <2>1, <2>2, SpokenStep
<1>4. CASE PlayerFails
  <2>1. /\ frame.phase = "running" /\ UNCHANGED <<query, token, loads>> /\ frame' \in Frames
        /\ view' = IF IsOurs THEN ShowError ELSE view
    BY <1>0, <1>4 DEF PlayerFails, Frames
  <2>2. CASE frame.run # token
    <3>1. CASE IsOurs
      BY <2>1, <2>2, <3>1, StaleFrameStep, ShowErrorType DEF IsOurs, PageOK
    <3>2. CASE ~IsOurs
      BY <1>0, <2>1, <2>2, <3>2, StaleFrameStep
    <3>3. QED
      BY <3>1, <3>2
  <2>3. CASE IsOurs /\ frame.run = token
    <3>1. \A l \in loads : l.token # token
      BY <2>1, <2>3 DEF IsOurs, PageOK, PageGood, PageTypes, LoadRows, LiveLoads, LiveLoad
    <3>2. QED
      BY <2>1, <2>3, <3>1, ErrorStep, ShowErrorType DEF PageOK
  <2>4. CASE ~IsOurs /\ frame.run = token
    <3>1. view.state # "running" /\ view' = view
      BY <2>1, <2>4 DEF IsOurs
    <3>2. \A m \in loads : m.token = token => m.step \in {"lookup", "download"}
      BY <2>4 DEF IsOurs, PageOK, PageGood, PageTypes, LoadRows, LiveLoads, LiveLoad
    <3>3. SourceOf(view.routeId)' = SourceOf(view.routeId)
      BY <2>1, <3>1, SourceStays
    <3>4. LiveLoads'
      BY <2>1, <3>1, <3>2, <3>3 DEF LiveLoads, LiveLoad, IsOpen, PageOK, PageGood
    <3>5. QED
      BY <1>0, <2>1, <3>1, <3>4, FewerLoads DEF PageOK, PageGood, PageTypes, RunningIsLoaded
  <2>5. QED
    BY <2>2, <2>3, <2>4
<1>5. QED
  BY <1>1, <1>2, <1>3, <1>4 DEF PlayerNext

LEMMA RestartStep == ASSUME PageOK, Restart PROVE PageOK'
<1>1. /\ view.state = "running" /\ token' = token + 1 /\ UNCHANGED query
      /\ RunSource(view, frame.plays, token + 1, loads)
  BY DEF Restart, CanRestart
<1>2. /\ IsOpen /\ view.scn = view.routeId /\ view.routeId \in Scenarios
      /\ frame.plays = SourceOf(view.routeId)
  BY <1>1 DEF PageOK, PageGood, RunningIsLoaded, RunIsTheAddress
<1>3. view \in Views /\ token \in Nat /\ LoadsInOrder /\ PageTypes
  BY DEF PageOK, PageGood, PageTypes
<1> DEFINE n == Awaits(token + 1, frame.plays.scn, "engine", frame.plays)
<1>4. n.token = token + 1
  BY DEF Awaits
<1>5. loads' = loads \cup {n}
  BY <1>1 DEF RunSource
<1>6. LoadsInOrder'
  BY <1>1, <1>3, <1>4, <1>5, NewestLoad
<1>7. \A m \in loads : m.token # token'
  BY <1>1, <1>3 DEF LoadsInOrder, PageTypes, LoadRows
<1>8. RunSource(view, SourceOf(view.routeId), token', loads) /\ token' \in Nat
  BY <1>1, <1>2, <1>3
<1>9. QED
  BY <1>1, <1>2, <1>3, <1>6, <1>7, <1>8, RunStep

LEMMA LeaveStep == ASSUME PageOK, Leave PROVE PageOK'
<1>1. /\ query' = NoQuery /\ view' = Blank /\ frame' = NoFrame /\ token' = token + 1
      /\ UNCHANGED loads
  BY DEF Leave, Gone
<1>2. frame' \in Frames
  BY <1>1 DEF NoFrame, Frames, SomeSource
<1>3. PageTypes'
  BY <1>1, <1>2, BlankType DEF PageOK, PageTypes
<1>4. \A l \in loads : l.token \in Nat /\ l.token <= token /\ token \in Nat
  BY DEF PageOK, PageGood, PageTypes, LoadRows, LoadsInOrder
<1>5. LoadsInOrder' /\ LiveLoads'
  BY <1>1, <1>4 DEF PageOK, PageGood, LoadsInOrder, LiveLoads
<1>6. RunningIsLoaded'
  BY <1>1 DEF RunningIsLoaded, Blank
<1>7. QED
  BY <1>3, <1>5, <1>6 DEF PageOK, PageGood

LEMMA CloseTabStep == ASSUME PageOK, CloseTab PROVE PageOK'
<1>1. /\ query' = NoQuery /\ view' = Blank /\ frame' = NoFrame /\ token' = token
      /\ loads' = {}
  BY DEF CloseTab, Gone
<1>2. frame' \in Frames
  BY <1>1 DEF NoFrame, Frames, SomeSource
<1>3. QED
  BY <1>1, <1>2, BlankType
  DEF PageOK, PageGood, PageTypes, LoadsInOrder, LiveLoads, RunningIsLoaded, Blank

(* No step makes the page speak of an older load. *)
LEMMA PageStep == ASSUME PageOK, [Next]_vars PROVE PageOK'
<1>1. CASE LoadNext
  BY <1>1, LookupStep, DownloadedStep, DownloadFailsStep, EngineReadyStep, EngineFailsStep, StaleStep
  DEF LoadNext
<1>2. CASE PlayerNext
  BY <1>2, PlayerStep
<1>3. CASE VisitorNext
  BY <1>3, NavigateStep, OpenStep, RestartStep, LeaveStep, CloseTabStep DEF VisitorNext
<1>4. CASE UNCHANGED pageVars
  <2>1. UNCHANGED <<query, token, view, loads, frame>>
    BY <1>4 DEF pageVars
  <2>2. RunIsTheAddress' <=> RunIsTheAddress
    BY <2>1 DEF RunIsTheAddress, SourceOf, DraftOf
  <2>3. \A m : LiveLoad(m)' <=> LiveLoad(m)
    BY <2>1, <2>2 DEF LiveLoad, IsOpen, SourceOf, DraftOf
  <2>4. QED
    BY <2>1, <2>2, <2>3
    DEF PageOK, PageGood, PageTypes, LoadsInOrder, LiveLoads, RunningIsLoaded, IsOpen
<1>5. CASE TelemetryNext
  BY <1>4, <1>5 DEF TelemetryNext, SessionInserted, SessionAnswered, SessionEnds
<1>6. QED
  BY <1>1, <1>2, <1>3, <1>4, <1>5 DEF Next, vars

-----------------------------------------------------------------------------
(* Steps of telemetry. *)

TelemetryOK == TelemetryTypes /\ TelemetryGood

(* Somebody can still close session i, or the model says why nobody can. *)
IsKnown(i) ==
    \/ i = sessionId \/ i \in beacons
    \/ \E p \in posts : p.id = i
    \/ sessions[i].run \in overlapped

LEMMA Domains ==
    ASSUME TelemetryTypes
    PROVE  /\ DOMAIN sessions = 1..Len(sessions) /\ Len(sessions) \in Nat
           /\ DOMAIN ran = 1..Len(ran) /\ Len(ran) \in Nat
           /\ \A i \in DOMAIN sessions : sessions[i] \in SessionRows
BY LenProperties, ElementOfSeq DEF TelemetryTypes

LEMMA EndedBeacons ==
    ASSUME NEW n \in Nat, NEW s \in 0..n, NEW B, B \subseteq 1..n
    PROVE  0 \in 0..n /\ (B \cup ({s} \ {0})) \subseteq 1..n
<1>1. s # 0 => s \in 1..n
  OBVIOUS
<1>2. 0 \in 0..n
  OBVIOUS
<1>3. QED
  BY <1>1, <1>2, Zenon

(* A post whose answer nobody hears is the same post. *)
Muted(p) == [p EXCEPT !.heard = FALSE]

LEMMA MutedPost ==
    ASSUME NEW p \in PostRows
    PROVE  /\ Muted(p) \in PostRows
           /\ Muted(p).run = p.run /\ Muted(p).scn = p.scn /\ Muted(p).id = p.id
BY DEF Muted, PostRows

(* A run starts: its post is the only one of it, and marks those it meets. *)
LEMMA StartStep ==
    ASSUME TelemetryOK, NEW scn \in SomeScenario, ran' = Append(ran, scn), StartSession(scn)
    PROVE  TelemetryOK'
<1> USE DEF TelemetryOK, TelemetryGood
<1> DEFINE p0 == [run |-> Len(ran'), scn |-> scn, id |-> 0, heard |-> TRUE]
<1>1. /\ ran' \in Seq(SomeScenario) /\ Len(ran') = Len(ran) + 1 /\ Len(ran) \in Nat
      /\ DOMAIN ran = 1..Len(ran) /\ DOMAIN ran' = 1..Len(ran')
      /\ \A i \in DOMAIN ran : ran'[i] = ran[i]
      /\ ran'[Len(ran')] = scn
  BY AppendProperties, LenProperties DEF TelemetryTypes
<1>2. /\ sessionId' = 0 /\ beacons' = beacons \cup ({sessionId} \ {0})
      /\ posts' = posts \cup {p0}
      /\ overlapped' = overlapped \cup
            (IF posts = {} THEN {} ELSE {Len(ran')} \cup {p.run : p \in posts})
      /\ sessions' = sessions
  BY DEF StartSession, EndSession
<1>3. p0 \in PostRows /\ p0.run = Len(ran') /\ p0.scn = scn /\ p0.id = 0
  BY <1>1 DEF PostRows
<1> HIDE DEF p0
<1>4. \A p \in posts : p \in PostRows /\ p.run \in Nat /\ p.run # p0.run
  BY <1>1, <1>3 DEF PostsAreOfRuns, TelemetryTypes, PostRows
<1>5. \A i \in DOMAIN sessions : sessions[i].run # p0.run
  BY <1>1, <1>3 DEF OnlyOverlappingStartsAreForgotten
<1>6. overlapped \subseteq overlapped'
      /\ \A p, q \in posts' : p # q => p.run \in overlapped'
  <2>1. overlapped \subseteq overlapped'
    BY <1>2
  <2>2. \A p \in posts : p.run \in overlapped' /\ p0.run \in overlapped'
    BY <1>2, <1>3
  <2>3. \A p, q \in posts' : p # q => p.run \in overlapped'
    BY <1>2, <2>2
  <2>4. QED
    BY <2>1, <2>3
<1>7. TelemetryTypes'
  <2>1. sessionId \in 0..Len(sessions) /\ beacons \subseteq 1..Len(sessions) /\ Len(sessions) \in Nat
    BY Domains DEF TelemetryTypes
  <2>2. sessionId' \in 0..Len(sessions') /\ beacons' \subseteq 1..Len(sessions')
    BY <1>2, <2>1, EndedBeacons
  <2>3. overlapped' \subseteq Nat
    <3>1. overlapped \subseteq Nat /\ Len(ran') \in Nat
      BY <1>1 DEF TelemetryTypes
    <3>2. {p.run : p \in posts} \subseteq Nat
      BY <1>4
    <3> QED
      BY <1>2, <3>1, <3>2
  <2>4. posts' \subseteq PostRows
    BY <1>2, <1>3, <1>4
  <2>5. QED
    BY <1>1, <1>2, <2>2, <2>3, <2>4 DEF TelemetryTypes
<1>8. PostsAreOfRuns'
  BY <1>1, <1>2, <1>3, <1>4, <1>5 DEF PostsAreOfRuns
<1>9. OverlapsAreKnown'
  BY <1>2, <1>6 DEF OverlapsAreKnown
<1>10. OnlyOverlappingStartsAreForgotten'
  <2>1. \A i, j \in DOMAIN sessions : sessions[i].run = sessions[j].run => i = j
    BY DEF OnlyOverlappingStartsAreForgotten
  <2>2. ASSUME NEW i \in DOMAIN sessions
        PROVE  /\ sessions[i].run \in DOMAIN ran' /\ sessions[i].scn = ran'[sessions[i].run]
               /\ sessions[i].open =>
                     \/ i = sessionId' \/ i \in beacons'
                     \/ \E p \in posts' : p.id = i
                     \/ sessions[i].run \in overlapped'
    <3>1. sessions[i].run \in DOMAIN ran /\ sessions[i].scn = ran[sessions[i].run]
      BY DEF OnlyOverlappingStartsAreForgotten
    <3>2. i # 0
      BY Domains
    <3>3. sessions[i].open => IsKnown(i)
      BY DEF OnlyOverlappingStartsAreForgotten, IsKnown
    <3>4. IsKnown(i) => \/ i \in beacons'
                        \/ \E p \in posts' : p.id = i
                        \/ sessions[i].run \in overlapped'
      BY <1>2, <1>6, <3>2 DEF IsKnown
    <3>5. QED
      BY <1>1, <3>1, <3>3, <3>4
  <2>3. QED
    BY <1>2, <2>1, <2>2 DEF OnlyOverlappingStartsAreForgotten
<1>11. QED
  BY <1>7, <1>8, <1>9, <1>10

(* The session the client held is closed by a beacon; posts may be unheard. *)
LEMMA EndStep ==
    ASSUME TelemetryOK, EndSession, UNCHANGED <<sessions, overlapped, ran>>,
           \/ UNCHANGED posts
           \/ posts' = {[p EXCEPT !.heard = FALSE] : p \in posts}
    PROVE  TelemetryOK'
<1> USE DEF TelemetryOK, TelemetryGood
<1>1. sessionId' = 0 /\ beacons' = beacons \cup ({sessionId} \ {0})
  BY DEF EndSession
<1>a. \A p \in posts : p \in PostRows
  BY DEF TelemetryTypes
<1>b. UNCHANGED posts \/ posts' = {Muted(p) : p \in posts}
  BY DEF Muted
<1>2. \A q \in posts' : \E p \in posts :
          /\ q \in PostRows
          /\ q.run = p.run /\ q.scn = p.scn /\ q.id = p.id
          /\ q = p \/ q = Muted(p)
  BY <1>a, <1>b, MutedPost
<1>3. \A p \in posts : \E q \in posts' : q.id = p.id
  BY <1>a, <1>b, MutedPost
<1>4. \A p, q \in posts' : p.run = q.run => p = q
  <2>1. CASE UNCHANGED posts
    BY <2>1 DEF PostsAreOfRuns
  <2>2. CASE posts' = {Muted(p) : p \in posts}
    <3>1. \A x, y \in posts : Muted(x).run = Muted(y).run => x = y
      BY <1>a, MutedPost DEF PostsAreOfRuns
    <3>2. QED
      BY <2>2, <3>1
  <2>3. QED
    BY <1>b, <2>1, <2>2
<1>5. PostsAreOfRuns'
  BY <1>2, <1>4 DEF PostsAreOfRuns
<1>6. OverlapsAreKnown'
  <2> SUFFICES ASSUME NEW p \in posts', NEW q \in posts', p # q
               PROVE  p.run \in overlapped
    BY <1>1 DEF OverlapsAreKnown
  <2>1. PICK x \in posts, y \in posts : x.run = p.run /\ y.run = q.run
    BY <1>2
  <2>2. x # y
    BY <1>4, <2>1
  <2>3. QED
    BY <2>1, <2>2 DEF OverlapsAreKnown
<1>7. TelemetryTypes'
  <2>1. sessionId \in 0..Len(sessions) /\ beacons \subseteq 1..Len(sessions) /\ Len(sessions) \in Nat
    BY Domains DEF TelemetryTypes
  <2>2. sessionId' \in 0..Len(sessions) /\ beacons' \subseteq 1..Len(sessions)
    BY <1>1, <2>1, EndedBeacons
  <2>3. QED
    BY <1>2, <2>2 DEF TelemetryTypes
<1>8. OnlyOverlappingStartsAreForgotten'
  <2>1. ASSUME NEW i \in DOMAIN sessions, sessions[i].open PROVE IsKnown(i)'
    <3>1. IsKnown(i) /\ i # 0
      BY <2>1, Domains DEF OnlyOverlappingStartsAreForgotten, IsKnown
    <3>2. QED
      BY <1>1, <1>3, <3>1 DEF IsKnown
  <2>2. QED
    BY <2>1 DEF OnlyOverlappingStartsAreForgotten, IsKnown
<1>9. QED
  BY <1>5, <1>6, <1>7, <1>8

(* One row per post: the run of a post without an id has none yet. *)
LEMMA InsertedStep ==
    ASSUME TelemetryOK, NEW p \in posts, SessionInserted(p) PROVE TelemetryOK'
<1> USE DEF TelemetryOK, TelemetryGood
<1> DEFINE row == [scn |-> p.scn, run |-> p.run, open |-> TRUE]
           n == Len(sessions) + 1
           p1 == [p EXCEPT !.id = n]
<1>1. /\ p.id = 0 /\ sessions' = Append(sessions, row)
      /\ posts' = (posts \ {p}) \cup {[p EXCEPT !.id = Len(sessions')]}
      /\ UNCHANGED <<sessionId, beacons, ran, overlapped>>
  BY DEF SessionInserted
<1>2. /\ \A q \in posts : q \in PostRows
      /\ Len(sessions) \in Nat /\ n \in Nat /\ n > Len(sessions)
      /\ DOMAIN sessions = 1..Len(sessions) /\ DOMAIN ran = 1..Len(ran)
      /\ \A i \in DOMAIN sessions : sessions[i] \in SessionRows
  BY Domains DEF TelemetryTypes
<1>3. row \in SessionRows /\ row.run = p.run /\ row.scn = p.scn
  BY <1>2 DEF SessionRows, PostRows
<1> HIDE DEF row
<1>4. /\ sessions' \in Seq(SessionRows) /\ Len(sessions') = n
      /\ \A i \in 1..Len(sessions) : sessions'[i] = sessions[i]
      /\ sessions'[n] = row
  BY <1>1, <1>3, AppendProperties DEF TelemetryTypes
<1>5. DOMAIN sessions' = 1..n
  BY <1>4, LenProperties
<1>6. p1 \in PostRows /\ p1.id = n /\ p1.run = p.run /\ p1.scn = p.scn /\ p1.heard = p.heard
  BY <1>2 DEF PostRows
<1>7. posts' = (posts \ {p}) \cup {p1}
  BY <1>1, <1>4
<1> HIDE DEF n, p1
<1>8. p.run \in DOMAIN ran /\ p.scn = ran[p.run]
      /\ \A i \in DOMAIN sessions : sessions[i].run # p.run
  BY <1>1 DEF PostsAreOfRuns
<1>9. \A i \in DOMAIN sessions : i \in DOMAIN sessions' /\ i # n /\ sessions'[i] = sessions[i]
  BY <1>2, <1>4, <1>5
<1>10. \A i \in DOMAIN sessions' : i \in DOMAIN sessions \/ (i = n /\ sessions'[i] = row)
  BY <1>2, <1>4, <1>5 DEF n
<1>11. TelemetryTypes'
  <2>1. sessionId' \in 0..Len(sessions') /\ beacons' \subseteq 1..Len(sessions')
    BY <1>1, <1>2, <1>4 DEF TelemetryTypes
  <2>2. QED
    BY <1>1, <1>2, <1>4, <1>6, <1>7, <2>1 DEF TelemetryTypes
<1>12. PostsAreOfRuns'
  <2>1. ASSUME NEW q \in posts \ {p}
        PROVE  /\ q.run \in DOMAIN ran /\ q.scn = ran[q.run] /\ q.run # p.run
               /\ q.id = 0 => \A i \in DOMAIN sessions' : sessions'[i].run # q.run
               /\ q.id # 0 => q.id \in DOMAIN sessions' /\ sessions'[q.id].run = q.run
    <3>1. /\ q.run \in DOMAIN ran /\ q.scn = ran[q.run] /\ q.run # p.run
          /\ q.id = 0 => \A i \in DOMAIN sessions : sessions[i].run # q.run
          /\ q.id # 0 => q.id \in DOMAIN sessions /\ sessions[q.id].run = q.run
      BY DEF PostsAreOfRuns
    <3>2. QED
      BY <1>3, <1>9, <1>10, <3>1
  <2>2. p1.id # 0 /\ p1.id \in DOMAIN sessions' /\ sessions'[p1.id].run = p1.run
    BY <1>2, <1>3, <1>4, <1>5, <1>6 DEF n
  <2>3. \A q, r \in posts \ {p} : q.run = r.run => q = r
    BY DEF PostsAreOfRuns
  <2>4. \A q, r \in posts' : q.run = r.run => q = r
    BY <1>6, <1>7, <2>1, <2>3
  <2>5. \A q \in posts' :
          /\ q.run \in DOMAIN ran' /\ q.scn = ran'[q.run]
          /\ q.id = 0 => \A i \in DOMAIN sessions' : sessions'[i].run # q.run
          /\ q.id # 0 => q.id \in DOMAIN sessions' /\ sessions'[q.id].run = q.run
    BY <1>1, <1>6, <1>7, <1>8, <2>1, <2>2
  <2>6. QED
    BY <2>4, <2>5 DEF PostsAreOfRuns
<1>13. OverlapsAreKnown'
  <2>1. ASSUME NEW q \in posts', NEW r \in posts', q # r PROVE q.run \in overlapped
    <3>1. CASE q \in posts \ {p} /\ r \in posts \ {p}
      BY <2>1, <3>1 DEF OverlapsAreKnown
    <3>2. CASE q = p1
      BY <1>6, <1>7, <2>1, <3>2 DEF OverlapsAreKnown
    <3>3. CASE r = p1
      BY <1>6, <1>7, <2>1, <3>3 DEF OverlapsAreKnown
    <3>4. QED
      BY <1>7, <3>1, <3>2, <3>3
  <2>2. ASSUME NEW q \in posts', q.heard, sessionId # 0
        PROVE  sessions'[sessionId].run \in overlapped
    <3>1. sessionId \in DOMAIN sessions
      BY <1>2, <2>2 DEF TelemetryTypes
    <3>2. sessions[sessionId].run \in overlapped
      BY <1>6, <1>7, <2>2 DEF OverlapsAreKnown
    <3>3. QED
      BY <1>9, <3>1, <3>2
  <2>3. QED
    BY <1>1, <2>1, <2>2 DEF OverlapsAreKnown
<1>14. OnlyOverlappingStartsAreForgotten'
  <2>1. \A i, j \in DOMAIN sessions' : sessions'[i].run = sessions'[j].run => i = j
    <3>1. \A i, j \in DOMAIN sessions : sessions[i].run = sessions[j].run => i = j
      BY DEF OnlyOverlappingStartsAreForgotten
    <3>2. QED
      BY <1>3, <1>8, <1>9, <1>10, <3>1
  <2>2. ASSUME NEW i \in DOMAIN sessions
        PROVE  /\ sessions[i].run \in DOMAIN ran /\ sessions[i].scn = ran[sessions[i].run]
               /\ sessions[i].open =>
                     \/ i = sessionId' \/ i \in beacons'
                     \/ \E q \in posts' : q.id = i
                     \/ sessions[i].run \in overlapped'
    <3>1. /\ sessions[i].run \in DOMAIN ran /\ sessions[i].scn = ran[sessions[i].run]
          /\ sessions[i].open => IsKnown(i)
      BY DEF OnlyOverlappingStartsAreForgotten, IsKnown
    <3>2. i # 0
      BY <1>2
    <3>3. (\E q \in posts : q.id = i) => (\E q \in posts' : q.id = i)
      BY <1>1, <1>7, <3>2
    <3>4. QED
      BY <1>1, <3>1, <3>3 DEF IsKnown
  <2>3. \E q \in posts' : q.id = n
    BY <1>6, <1>7
  <2>4. QED
    BY <1>1, <1>3, <1>8, <1>9, <1>10, <2>1, <2>2, <2>3 DEF OnlyOverlappingStartsAreForgotten
<1>15. QED
  BY <1>11, <1>12, <1>13, <1>14

(* An answer that replaces a held session does so only over an overlap. *)
LEMMA AnsweredStep ==
    ASSUME TelemetryOK, NEW p \in posts, NEW lost \in BOOLEAN, SessionAnswered(p, lost)
    PROVE  TelemetryOK'
<1> USE DEF TelemetryOK, TelemetryGood
<1>1. /\ posts' = posts \ {p}
      /\ sessionId' = IF ~p.heard THEN sessionId ELSE IF lost THEN 0 ELSE p.id
      /\ overlapped' = overlapped \cup (IF p.heard /\ ~lost THEN {} ELSE {p.run})
      /\ UNCHANGED <<beacons, sessions, ran>>
  BY DEF SessionAnswered
<1>2. /\ p \in PostRows /\ p.run \in Nat
      /\ Len(sessions) \in Nat /\ DOMAIN sessions = 1..Len(sessions)
  BY Domains DEF TelemetryTypes, PostRows
<1>3. /\ p.id = 0 => \A i \in DOMAIN sessions : sessions[i].run # p.run
      /\ p.id # 0 => p.id \in DOMAIN sessions /\ sessions[p.id].run = p.run
  BY DEF PostsAreOfRuns
<1>4. TelemetryTypes'
  <2>1. p.id \in 0..Len(sessions)
    BY <1>2, <1>3 DEF PostRows
  <2>2. sessionId' \in 0..Len(sessions')
    BY <1>1, <1>2, <2>1 DEF TelemetryTypes
  <2>3. overlapped' \subseteq Nat
    BY <1>1, <1>2 DEF TelemetryTypes
  <2>4. QED
    BY <1>1, <2>2, <2>3 DEF TelemetryTypes
<1>5. PostsAreOfRuns'
  BY <1>1 DEF PostsAreOfRuns
<1>6. overlapped \subseteq overlapped'
  BY <1>1
<1>7. OverlapsAreKnown'
  <2>1. \A q, r \in posts' : q # r => q.run \in overlapped'
    BY <1>1, <1>6 DEF OverlapsAreKnown
  <2>2. ASSUME NEW q \in posts', q.heard, sessionId' # 0
        PROVE  sessions[sessionId'].run \in overlapped'
    <3>1. CASE sessionId' = sessionId
      BY <1>1, <1>6, <2>2, <3>1 DEF OverlapsAreKnown
    <3>2. CASE sessionId' = p.id
      <4>1. p.run \in overlapped
        BY <1>1, <2>2 DEF OverlapsAreKnown
      <4>2. QED
        BY <1>3, <1>6, <2>2, <3>2, <4>1
    <3>3. QED
      BY <1>1, <2>2, <3>1, <3>2
  <2>3. QED
    BY <1>1, <2>1, <2>2 DEF OverlapsAreKnown
<1>8. OnlyOverlappingStartsAreForgotten'
  <2>1. ASSUME NEW i \in DOMAIN sessions, sessions[i].open PROVE IsKnown(i)'
    <3>1. IsKnown(i) /\ i # 0
      BY <1>2, <2>1 DEF OnlyOverlappingStartsAreForgotten, IsKnown
    <3>2. CASE i = sessionId
      <4>1. CASE p.heard
        BY <1>1, <1>6, <3>1, <3>2, <4>1 DEF OverlapsAreKnown, IsKnown
      <4>2. CASE ~p.heard
        BY <1>1, <3>2, <4>2 DEF IsKnown
      <4>3. QED
        BY <4>1, <4>2
    <3>3. CASE p.id = i
      <4>1. sessions[i].run = p.run
        BY <1>3, <3>1, <3>3
      <4>2. CASE p.heard /\ ~lost
        BY <1>1, <3>3, <4>2 DEF IsKnown
      <4>3. CASE ~(p.heard /\ ~lost)
        BY <1>1, <4>1, <4>3 DEF IsKnown
      <4>4. QED
        BY <4>2, <4>3
    <3>4. CASE \E q \in posts \ {p} : q.id = i
      BY <1>1, <3>4 DEF IsKnown
    <3>5. CASE i \in beacons \/ sessions[i].run \in overlapped
      BY <1>1, <1>6, <3>5 DEF IsKnown
    <3>6. QED
      BY <3>1, <3>2, <3>3, <3>4, <3>5 DEF IsKnown
  <2>2. QED
    BY <1>1, <2>1 DEF OnlyOverlappingStartsAreForgotten, IsKnown
<1>9. QED
  BY <1>4, <1>5, <1>7, <1>8

(* The session that is closed needs nobody; the others keep who knows them. *)
LEMMA EndsStep ==
    ASSUME TelemetryOK, NEW i \in beacons, SessionEnds(i) PROVE TelemetryOK'
<1> USE DEF TelemetryOK, TelemetryGood
<1> DEFINE row == [sessions[i] EXCEPT !.open = FALSE]
<1>1. /\ beacons' = beacons \ {i}
      /\ UNCHANGED <<sessionId, posts, ran, overlapped>>
  BY DEF SessionEnds
<1>2. sessions' = [sessions EXCEPT ![i] = row]
  BY DEF SessionEnds
<1>3. /\ i \in DOMAIN sessions /\ DOMAIN sessions = 1..Len(sessions)
      /\ \A j \in DOMAIN sessions : sessions[j] \in SessionRows
  BY Domains DEF TelemetryTypes
<1>4. /\ row \in SessionRows /\ ~row.open
      /\ row.run = sessions[i].run /\ row.scn = sessions[i].scn
  BY <1>3 DEF SessionRows
<1> HIDE DEF row
<1>5. /\ sessions' \in Seq(SessionRows) /\ Len(sessions') = Len(sessions)
      /\ \A j \in DOMAIN sessions : sessions'[j] = IF j = i THEN row ELSE sessions[j]
  BY <1>2, <1>3, <1>4, ExceptSeq DEF TelemetryTypes
<1>6. DOMAIN sessions' = DOMAIN sessions
  BY <1>2
<1>7. \A j \in DOMAIN sessions :
          /\ sessions'[j].run = sessions[j].run /\ sessions'[j].scn = sessions[j].scn
          /\ sessions'[j].open => j # i /\ sessions[j].open
  BY <1>4, <1>5
<1>8. TelemetryTypes'
  BY <1>1, <1>5 DEF TelemetryTypes
<1>9. PostsAreOfRuns'
  BY <1>1, <1>6, <1>7 DEF PostsAreOfRuns
<1>10. OverlapsAreKnown'
  <2>1. sessionId # 0 => sessionId \in DOMAIN sessions
    BY <1>3 DEF TelemetryTypes
  <2>2. QED
    BY <1>1, <1>7, <2>1 DEF OverlapsAreKnown
<1>11. OnlyOverlappingStartsAreForgotten'
  BY <1>1, <1>6, <1>7 DEF OnlyOverlappingStartsAreForgotten
<1>12. QED
  BY <1>8, <1>9, <1>10, <1>11

(* A launch is counted under the scenario that runs. *)
LEMMA CountedStep ==
    ASSUME IInv, NEW l \in loads, EngineReady(l) PROVE TelemetryOK'
<1>1. TelemetryOK /\ PageOK
  BY DEF IInv, Types, TelemetryOK, PageOK
<1>2. CASE IsStale(l)
  <2>1. UNCHANGED <<sessionId, posts, beacons, sessions, overlapped, ran>>
    BY <1>2 DEF EngineReady, telemetryVars
  <2>2. QED
    BY <1>1, <2>1 DEF TelemetryOK, TelemetryTypes, TelemetryGood, PostsAreOfRuns,
                      OverlapsAreKnown, OnlyOverlappingStartsAreForgotten
<1>3. CASE ~IsStale(l)
  <2>1. l.step = "engine" /\ l.token = token
    BY <1>3 DEF EngineReady, IsStale
  <2>2. LiveLoad(l)
    BY <1>1, <2>1, OneIsLive
  <2>3. RunIsTheAddress /\ l.source = view.source
    BY <2>1, <2>2 DEF LiveLoad
  <2>4. l.source.scn = view.scn /\ view.scn \in SomeScenario
    BY <2>3 DEF RunIsTheAddress, SourceOf, SomeScenario
  <2>5. ran' = Append(ran, view.scn) /\ StartSession(view.scn)
    BY <1>3, <2>4 DEF EngineReady
  <2>6. QED
    BY <1>1, <2>4, <2>5, StartStep
<1>4. QED
  BY <1>2, <1>3

LEMMA TelemetryStep == ASSUME IInv, [Next]_vars PROVE TelemetryOK'
<1>0. TelemetryOK
  BY DEF IInv, Types, TelemetryOK
<1>1. ASSUME UNCHANGED <<telemetryVars, ran>> PROVE TelemetryOK'
  BY <1>0, <1>1 DEF telemetryVars, TelemetryOK, TelemetryTypes, TelemetryGood, PostsAreOfRuns,
                    OverlapsAreKnown, OnlyOverlappingStartsAreForgotten
<1>2. CASE LoadNext
  <2>1. PICK l \in loads :
            \/ \E answer \in Answers : LookupAnswered(l, answer)
            \/ Downloaded(l) \/ DownloadFails(l)
            \/ EngineReady(l)
            \/ \E code \in {"load", "runtime"} : EngineFails(l, code)
            \/ StaleAnswer(l)
    BY <1>2 DEF LoadNext
  <2>2. CASE EngineReady(l)
    BY <2>2, CountedStep
  <2>3. CASE ~EngineReady(l)
    BY <1>1, <2>1, <2>3 DEF LookupAnswered, Downloaded, DownloadFails, EngineFails, StaleAnswer
  <2>4. QED
    BY <2>2, <2>3
<1>3. CASE PlayerNext
  BY <1>1, <1>3 DEF PlayerNext, PlayerReports, PlayerPauses, PlayerLosesContext, PlayerFails
<1>4. CASE VisitorNext
  <2>1. CASE Leave
    BY <1>0, <2>1, EndStep DEF Leave
  <2>2. CASE CloseTab
    BY <1>0, <2>2, EndStep DEF CloseTab
  <2>3. CASE ~Leave /\ ~CloseTab
    BY <1>1, <1>4, <2>3 DEF VisitorNext, Navigate, Open, Restart
  <2>4. QED
    BY <2>1, <2>2, <2>3
<1>5. CASE TelemetryNext
  BY <1>0, <1>5, InsertedStep, AnsweredStep, EndsStep DEF TelemetryNext
<1>6. CASE UNCHANGED vars
  BY <1>1, <1>6 DEF vars
<1>7. QED
  BY <1>2, <1>3, <1>4, <1>5, <1>6 DEF Next

-----------------------------------------------------------------------------

LEMMA IInvInit == ASSUME Init PROVE IInv
<1> USE DEF Init
<1>1. PageTypes
  BY BlankType DEF PageTypes, NoFrame, Frames, SomeSource
<1>2. PageGood
  BY DEF PageGood, LoadsInOrder, LiveLoads, RunningIsLoaded, Blank
<1>3. TelemetryTypes
  <2>1. ran \in Seq(SomeScenario) /\ sessions \in Seq(SessionRows) /\ Len(sessions) = 0
    BY EmptySeq
  <2>2. QED
    BY <2>1 DEF TelemetryTypes
<1>4. TelemetryGood
  <2>1. DOMAIN sessions = {}
    OBVIOUS
  <2>2. QED
    BY <2>1 DEF TelemetryGood, PostsAreOfRuns, OverlapsAreKnown, OnlyOverlappingStartsAreForgotten
<1>5. QED
  BY <1>1, <1>2, <1>3, <1>4 DEF IInv, Types

LEMMA IInvStep == ASSUME IInv, [Next]_vars PROVE IInv'
<1>1. PageOK'
  BY PageStep DEF IInv, Types, PageOK
<1>2. TelemetryOK'
  BY TelemetryStep
<1>3. QED
  BY <1>1, <1>2 DEF IInv, Types, PageOK, TelemetryOK

(* The inductive invariant: the loads carry their tokens in order, the     *)
(* newest one knows what the page shows, and every session that nobody can *)
(* close any more met another start.                                       *)
THEOREM ViewerInvariance == Spec => []IInv
<1>1. Init => IInv
  BY IInvInit
<1>2. IInv /\ [Next]_vars => IInv'
  BY IInvStep
<1>3. QED
  BY <1>1, <1>2, PTL DEF Spec

(* A running scene, the title its launch is counted under, the source the  *)
(* page keeps and the address are of one load, for every order in which    *)
(* lookups, downloads and starts end.                                      *)
THEOREM TheAddressRuns == Spec => []RunningIsWhatTheAddressSays
<1>1. ASSUME IInv PROVE RunningIsWhatTheAddressSays
  <2> SUFFICES ASSUME view.state = "running" PROVE
        /\ frame.run = token /\ frame.phase = "running"
        /\ frame.plays = view.source
        /\ view.source.scn = view.scn /\ view.scn = view.routeId
        /\ view.source.version = "draft" <=> ~query.lti /\ query.draft = "hash"
        /\ view.source.kind = "manifest" => query.stream /\ view.source.version = "current"
    BY DEF RunningIsWhatTheAddressSays
  <2>1. frame.phase = "running" /\ RunIsTheAddress
    BY <1>1 DEF IInv, PageGood, RunningIsLoaded
  <2>2. /\ frame.run = token /\ frame.plays = view.source /\ view.scn = view.routeId
        /\ view.source = SourceOf(view.routeId)
    BY <2>1 DEF RunIsTheAddress
  <2>3. /\ view.source.scn = view.routeId
        /\ view.source.version = "draft" <=> DraftOf(query) = "hash"
        /\ view.source.kind = "manifest" => query.stream /\ DraftOf(query) = "absent"
    BY <2>2 DEF SourceOf
  <2>4. DraftOf(query) = "hash" <=> ~query.lti /\ query.draft = "hash"
    BY DEF DraftOf
  <2>5. view.source.kind = "manifest" => view.source.version = "current"
    BY <2>2, <2>3 DEF SourceOf
  <2>6. QED
    BY <2>1, <2>2, <2>3, <2>4, <2>5
<1>2. QED
  BY <1>1, ViewerInvariance, PTL

(* The score a student would send and the pause the HUD shows are of the   *)
(* run on the screen: no frame of an earlier run is heard after it.        *)
THEOREM TheHudIsOfThisRun == Spec => []HudSpeaksOfThisRun
<1>1. ASSUME IInv PROVE HudSpeaksOfThisRun
  BY <1>1 DEF IInv, PageGood, RunningIsLoaded, RunIsTheAddress, HudSpeaksOfThisRun
<1>2. QED
  BY <1>1, ViewerInvariance, PTL

(* A session on the server that is open is held, about to be closed, or    *)
(* about to be named, unless its start overlapped another one's or was not *)
(* heard; and it is of a run that reached its scene.                       *)
THEOREM OpenSessionsAreKnown == Spec => []OnlyOverlappingStartsAreForgotten
<1>1. ASSUME IInv PROVE OnlyOverlappingStartsAreForgotten
  BY <1>1 DEF IInv, TelemetryGood
<1>2. QED
  BY <1>1, ViewerInvariance, PTL

-----------------------------------------------------------------------------
(* The order of the catalog (CatalogPages). *)

Shelves == SUBSET CatalogIds

LEMMA OrderFacts ==
    ASSUME NEW sort
    PROVE  /\ \A s \in CatalogIds : ~Precedes(sort, s, s)
           /\ \A s, t \in CatalogIds : s # t => Precedes(sort, s, t) \/ Precedes(sort, t, s)
           /\ \A s, t, u \in CatalogIds :
                 Precedes(sort, s, t) /\ Precedes(sort, t, u) => Precedes(sort, s, u)
<1>1. \A s \in CatalogIds : s \in Int /\ TitleRank[s] \in Int
  BY CatalogAssumption DEF CatalogAssumption
<1> QED
  BY <1>1 DEF Precedes

(* The places of some scenarios are the numbers up to how many they are. *)
LEMMA PlacesAreNumbers ==
    ASSUME NEW found \in Shelves, NEW sort
    PROVE  /\ Cardinality(found) \in Nat
           /\ \A s \in found : Place(found, sort, s) \in 1..Cardinality(found)
           /\ \A s, t \in found : Precedes(sort, s, t) => Place(found, sort, s) < Place(found, sort, t)
           /\ \A s, t \in found : Place(found, sort, s) = Place(found, sort, t) => s = t
           /\ \A i \in 1..Cardinality(found) : \E s \in found : Place(found, sort, s) = i
<1> DEFINE n == Cardinality(found)
           before(s) == {t \in found : Precedes(sort, t, s)}
           place(s) == Place(found, sort, s)
<1>1. IsFiniteSet(found) /\ n \in Nat /\ found \subseteq CatalogIds
  BY CatalogAssumption, FS_Subset, FS_CardinalityType DEF CatalogAssumption, Shelves
<1>2. ASSUME NEW s \in found
      PROVE  IsFiniteSet(before(s)) /\ Cardinality(before(s)) \in Nat /\ place(s) = 1 + Cardinality(before(s))
  <2>1. before(s) \in SUBSET found
    OBVIOUS
  <2>2. IsFiniteSet(before(s))
    BY <1>1, <2>1, FS_Subset
  <2> QED
    BY <2>2, FS_CardinalityType DEF Place
<1>3. ASSUME NEW s \in found PROVE place(s) \in 1..n
  <2>1. IsFiniteSet(found \ {s}) /\ Cardinality(found \ {s}) = n - 1
    BY <1>1, FS_RemoveElement
  <2>2. before(s) \in SUBSET (found \ {s})
    BY <1>1, OrderFacts
  <2>3. Cardinality(before(s)) <= n - 1
    BY <2>1, <2>2, FS_Subset
  <2> QED
    BY <1>1, <1>2, <2>3
<1>4. ASSUME NEW s \in found, NEW t \in found, Precedes(sort, s, t) PROVE place(s) < place(t)
  <2>1. s \notin before(s)
    BY <1>1, OrderFacts
  <2>2. IsFiniteSet(before(s) \cup {s}) /\ Cardinality(before(s) \cup {s}) = Cardinality(before(s)) + 1
    BY <1>2, <2>1, FS_AddElement
  <2>3. before(s) \cup {s} \in SUBSET before(t)
    BY <1>1, <1>4, OrderFacts
  <2>4. Cardinality(before(s) \cup {s}) <= Cardinality(before(t))
    BY <1>2, <2>3, FS_Subset
  <2> QED
    BY <1>2, <2>2, <2>4
<1>5. ASSUME NEW s \in found, NEW t \in found, place(s) = place(t) PROVE s = t
  <2> SUFFICES ASSUME s # t PROVE FALSE
    OBVIOUS
  <2>1. Precedes(sort, s, t) \/ Precedes(sort, t, s)
    BY <1>1, OrderFacts
  <2>2. place(s) \in Int /\ place(t) \in Int
    BY <1>3
  <2> QED
    BY <1>4, <1>5, <2>1, <2>2
<1> HIDE DEF n, place
<1>6. ASSUME NEW i \in 1..n PROVE \E s \in found : place(s) = i
  <2> DEFINE placed == [s \in found |-> place(s)]
  <2>1. placed \in Injection(found, 1..n)
    BY <1>3, <1>5 DEF Injection, IsInjective
  <2>2. IsFiniteSet(1..n) /\ Cardinality(1..n) = n
    BY <1>1, FS_Interval
  <2>3. placed \in Surjection(found, 1..n)
    <3>1. Cardinality(found) = Cardinality(1..n)
      BY <2>2 DEF n
    <3> QED
      BY <2>1, <2>2, <3>1, FS_Injection
  <2> QED
    BY <2>3 DEF Surjection
<1> QED
  BY <1>1, <1>3, <1>4, <1>5, <1>6 DEF n, place

LEMMA MatchingIsAShelf ==
    ASSUME NEW shown \in Shelves, NEW f
    PROVE  /\ Matching(shown, f) \in Shelves
           /\ Cardinality(Matching(shown, f)) \in Nat
<1>1. Matching(shown, f) \in Shelves
  BY DEF Matching, Shelves
<1> QED
  BY <1>1, PlacesAreNumbers

(* The list of a filter is a sequence of what matches it: each scenario once, *)
(* in the order asked for (catalog-public.js, ORDER BY ..., id).              *)
THEOREM TheListIsSorted ==
    ASSUME NEW shown \in Shelves, NEW f
    PROVE  LET list == Listed(shown, f) IN
           /\ list \in Seq(Matching(shown, f))
           /\ Len(list) = Cardinality(Matching(shown, f))
           /\ \A s \in Matching(shown, f) : \E i \in 1..Len(list) : list[i] = s
           /\ \A i, j \in 1..Len(list) : i < j => Precedes(f.sort, list[i], list[j])
<1> DEFINE found == Matching(shown, f)
           n == Cardinality(found)
           place(s) == Place(found, f.sort, s)
           list == Listed(shown, f)
<1>1. found \in Shelves /\ n \in Nat
  BY MatchingIsAShelf
<1>2. /\ \A s \in found : place(s) \in 1..n
      /\ \A s, t \in found : Precedes(f.sort, s, t) => place(s) < place(t)
      /\ \A s, t \in found : place(s) = place(t) => s = t
      /\ \A i \in 1..n : \E s \in found : place(s) = i
  BY <1>1, PlacesAreNumbers
<1>3. list = [i \in 1..n |-> CHOOSE s \in found : place(s) = i]
  BY DEF Listed
<1>4. found \subseteq CatalogIds
  BY <1>1 DEF Shelves
<1> HIDE DEF found, n, place, list
<1>5. \A i \in 1..n : list[i] \in found /\ place(list[i]) = i
  BY <1>2, <1>3
<1>6. list \in [1..n -> found]
  BY <1>3, <1>5
<1>7. list \in Seq(found) /\ Len(list) = n
  BY <1>1, <1>6, IsASeq, LenProperties
<1>8. \A s \in found : \E i \in 1..n : list[i] = s
  <2> TAKE s \in found
  <2>1. place(s) \in 1..n /\ place(list[place(s)]) = place(s) /\ list[place(s)] \in found
    BY <1>2, <1>5
  <2>2. list[place(s)] = s
    BY <1>2, <2>1
  <2> QED
    BY <2>1, <2>2
<1>9. ASSUME NEW i \in 1..n, NEW j \in 1..n, i < j PROVE Precedes(f.sort, list[i], list[j])
  <2>1. list[i] \in found /\ list[j] \in found /\ place(list[i]) = i /\ place(list[j]) = j
    BY <1>5
  <2>2. list[i] # list[j]
    BY <1>9, <2>1
  <2>3. ~Precedes(f.sort, list[j], list[i])
    BY <1>1, <1>2, <1>9, <2>1
  <2> QED
    BY <1>4, <2>1, <2>2, <2>3, OrderFacts
<1> QED
  BY <1>7, <1>8, <1>9 DEF found, n, list
-----------------------------------------------------------------------------
(* The invariant of the catalog page and the scenario page. *)

Services ==
    [rows : Seq(CatalogIds), total : Nat, seen : SUBSET Shelves, counted : SUBSET Shelves,
     filter : Filters, loading : BOOLEAN, loaded : BOOLEAN, error : BOOLEAN, latest : Nat]
CatalogRequests ==
    [n : Nat, filter : Filters, offset : Nat, append : BOOLEAN, shelves : SUBSET Shelves]
Details ==
    [id : CatalogIds \cup {0}, status : {"left", "loading", "ready", "not-found", "error"},
     shows : SUBSET CatalogIds, latest : Nat]
Lookups == [n : Nat, id : CatalogIds]

PagesTypes ==
    /\ shelf \in Shelves
    /\ page \in {"catalog", "pick", "scenario"}
    /\ address \in Filters /\ text \in Texts \cup {NoText} /\ timer \in BOOLEAN
    /\ service \in Services /\ IsFiniteSet(service.seen)
    /\ requests \subseteq CatalogRequests
    /\ detail \in Details
    /\ lookups \subseteq Lookups

(* A service's list is the beginning of what its filter finds, if it came from one shelf. *)
ListFits(sv) ==
    /\ sv.seen = {} => sv.rows = <<>>
    /\ \A shown \in Shelves : sv.seen = {shown} => IsPrefix(sv.rows, Listed(shown, sv.filter))
    /\ \A shown \in Shelves : sv.counted = {shown} => sv.total = Cardinality(Matching(shown, sv.filter))

(* The one answer that will be taken, if any is out, continues the list or replaces it. *)
AnswersFit(sv, rs) ==
    /\ ~sv.loading => ListFits(sv)
    /\ \A r, q \in rs : r.n = q.n => r = q
    /\ \A r \in rs :
          /\ r.n <= sv.latest
          /\ r.n = sv.latest =>
                /\ sv.loading /\ r.filter = sv.filter
                /\ r.append => r.offset = Len(sv.rows) /\ ListFits(sv)
                /\ ~r.append => r.offset = 0

(* The same for a scenario page. *)
DetailFits(d, ls) ==
    /\ \A l \in ls : l.n <= d.latest /\ (l.n = d.latest => l.id = d.id)
    /\ d.status = "ready" => d.shows = {d.id}
    /\ d.status \in {"not-found", "error"} => d.shows = {}

PagesInv ==
    /\ PagesTypes
    /\ page = "catalog" => service.filter = address
    /\ AnswersFit(service, requests)
    /\ DetailFits(detail, lookups)

-----------------------------------------------------------------------------
(* Lists and their pages. *)

LEMMA DefaultIsAFilter == Default \in Filters
BY DEF Default, Filters

LEMMA ListedIsASeq ==
    ASSUME NEW shown \in Shelves, NEW f
    PROVE  /\ Listed(shown, f) \in Seq(CatalogIds)
           /\ Len(Listed(shown, f)) = Cardinality(Matching(shown, f))
<1>1. Matching(shown, f) \subseteq CatalogIds
  BY MatchingIsAShelf DEF Shelves
<1>2. Listed(shown, f) \in Seq(Matching(shown, f))
      /\ Len(Listed(shown, f)) = Cardinality(Matching(shown, f))
  BY TheListIsSorted
<1> QED
  BY <1>1, <1>2, SeqMonotonic

LEMMA MinOfTwo ==
    ASSUME NEW a \in Nat, NEW b \in Nat
    PROVE  Min({a, b}) = IF a <= b THEN a ELSE b
BY DEF Min

LEMMA PageIsASeq ==
    ASSUME NEW shown \in Shelves, NEW f \in Filters, NEW offset \in Nat
    PROVE  PageOf(shown, f, offset) \in Seq(CatalogIds)
<1> DEFINE list == Listed(shown, f)
           last == Min({offset + PageSize, Len(list)})
<1>1. list \in Seq(CatalogIds) /\ Len(list) \in Nat /\ PageSize \in Nat
  BY ListedIsASeq, LenProperties, CatalogAssumption DEF CatalogAssumption
<1>2. last \in Nat /\ last <= Len(list)
  BY <1>1, MinOfTwo
<1>3. PageOf(shown, f, offset) = SubSeq(list, offset + 1, last)
  BY DEF PageOf
<1> HIDE DEF list, last
<1>4. SubSeq(list, offset + 1, last) \in Seq(CatalogIds)
  BY <1>1, <1>2, SubSeqProperties
<1> QED
  BY <1>3, <1>4

(* The next page of a list continues it. *)
LEMMA PageContinues ==
    ASSUME NEW shown \in Shelves, NEW f \in Filters, NEW rows \in Seq(CatalogIds),
           IsPrefix(rows, Listed(shown, f))
    PROVE  IsPrefix(rows \o PageOf(shown, f, Len(rows)), Listed(shown, f))
<1> DEFINE list == Listed(shown, f)
           last == Min({Len(rows) + PageSize, Len(list)})
<1>1. list \in Seq(CatalogIds) /\ Len(list) \in Nat /\ Len(rows) \in Nat
      /\ PageSize \in Nat /\ PageSize > 0
  BY ListedIsASeq, LenProperties, CatalogAssumption DEF CatalogAssumption
<1>2. Len(rows) <= Len(list) /\ SubSeq(rows, 1, Len(rows)) = SubSeq(list, 1, Len(rows))
  BY DEF IsPrefix
<1>3. rows = SubSeq(list, 1, Len(rows))
  BY <1>2, SubSeqFull
<1>4. last \in Nat /\ last <= Len(list) /\ Len(rows) <= last
  BY <1>1, <1>2, MinOfTwo
<1>5. PageOf(shown, f, Len(rows)) = SubSeq(list, Len(rows) + 1, last)
  BY DEF PageOf
<1> DEFINE k == Len(rows)
<1> HIDE DEF list, last, k
<1>6. k \in Nat /\ k <= last /\ last <= Len(list)
  BY <1>1, <1>4 DEF k
<1>7. SubSeq(list, 1, k) \o SubSeq(list, k + 1, last) = SubSeq(list, 1, last)
  <2>1. 1 \in 1..(Len(list) + 1) /\ k \in (1 - 1)..Len(list) /\ last \in k..Len(list)
    BY <1>1, <1>4, <1>6
  <2> QED
    BY <1>1, <2>1, ConcatAdjacentSubSeq
<1>8. rows \o PageOf(shown, f, Len(rows)) = SubSeq(list, 1, last)
  BY <1>3, <1>5, <1>7 DEF k
<1>9. IsPrefix(SubSeq(list, 1, last), list)
  BY <1>1, <1>4 DEF IsPrefix
<1> QED
  BY <1>8, <1>9 DEF list

LEMMA EmptyIsPrefix ==
    ASSUME NEW shown \in Shelves, NEW f \in Filters
    PROVE  IsPrefix(<<>>, Listed(shown, f))
<1>1. Listed(shown, f) \in Seq(CatalogIds)
  BY ListedIsASeq
<1> QED
  BY <1>1 DEF IsPrefix

-----------------------------------------------------------------------------
(* Steps of the list. *)

LEMMA RowsAreASeq == PagesTypes => service.rows \in Seq(CatalogIds) /\ Len(service.rows) \in Nat
BY LenProperties DEF PagesTypes, Services

LEMMA PagesInitHolds == PagesInit => PagesInv
<1> SUFFICES ASSUME PagesInit PROVE PagesInv
  OBVIOUS
<1>1. OnShelf \in Shelves /\ Default \in Filters /\ Default.q \in Texts \cup {NoText} /\ NoText \in Texts \cup {NoText}
  BY CatalogAssumption DEF CatalogAssumption, Shelves, Default, Filters
<1>2. service \in Services /\ IsFiniteSet(service.seen)
  BY <1>1, FS_EmptySet DEF PagesInit, Services
<1>3. requests \subseteq CatalogRequests
  BY <1>1 DEF PagesInit, CatalogRequests, FirstRequest
<1>4. detail \in Details /\ lookups \subseteq Lookups
  BY DEF PagesInit, Details, NoDetail
<1>5. PagesTypes
  BY <1>1, <1>2, <1>3, <1>4 DEF PagesTypes, PagesInit
<1>6. AnswersFit(service, requests)
  BY DEF AnswersFit, PagesInit, FirstRequest
<1>7. DetailFits(detail, lookups)
  BY DEF DetailFits, PagesInit, NoDetail
<1> QED
  BY <1>5, <1>6, <1>7 DEF PagesInv, PagesInit

(* What a request for a page, of the list shown or of a new one, leaves behind. *)
LEMMA FetchStep ==
    ASSUME PagesInv, NEW f \in Filters, NEW offset \in Nat, NEW append \in BOOLEAN,
           FetchPage(f, offset, append),
           append => ~service.loading /\ f = service.filter /\ offset = Len(service.rows),
           ~append => offset = 0
    PROVE  /\ service' \in Services /\ IsFiniteSet(service'.seen)
           /\ requests' \subseteq CatalogRequests
           /\ service'.filter = f
           /\ AnswersFit(service', requests')
<1> DEFINE new == [n |-> service.latest + 1, filter |-> f, offset |-> offset, append |-> append,
                   shelves |-> {shelf}]
<1>1. service \in Services /\ IsFiniteSet(service.seen) /\ requests \subseteq CatalogRequests
      /\ shelf \in Shelves
  BY DEF PagesInv, PagesTypes
<1>2. new \in CatalogRequests /\ new.n = service.latest + 1 /\ new.filter = f /\ new.offset = offset
      /\ new.append = append
  BY <1>1 DEF CatalogRequests, Services
<1>3. requests' = requests \cup {new}
  BY DEF FetchPage
<1>3a. service.latest + 1 \in Nat
  BY <1>1 DEF Services
<1>3b. service' = [service EXCEPT !.latest = service.latest + 1, !.loading = TRUE, !.error = FALSE, !.filter = f]
  BY DEF FetchPage
<1>4. /\ service' \in Services
      /\ service'.latest = service.latest + 1 /\ service'.loading = TRUE /\ service'.filter = f
      /\ service'.rows = service.rows /\ service'.total = service.total
      /\ service'.seen = service.seen /\ service'.counted = service.counted
  BY <1>1, <1>3a, <1>3b DEF Services
<1>5. AnswersFit(service, requests) /\ service.latest \in Nat
  BY <1>1 DEF PagesInv, Services
<1> HIDE DEF new
<1>6. \A r \in requests : r.n \in Nat /\ r.n <= service.latest
  BY <1>1, <1>5 DEF AnswersFit, CatalogRequests
<1>7. \A r, q \in requests' : r.n = q.n => r = q
  BY <1>2, <1>3, <1>5, <1>6 DEF AnswersFit
<1>8. append => ListFits(service')
  BY <1>4, <1>5 DEF AnswersFit, ListFits
<1>9. \A r \in requests' :
        /\ r.n <= service'.latest
        /\ r.n = service'.latest =>
              /\ service'.loading /\ r.filter = service'.filter
              /\ r.append => r.offset = Len(service'.rows) /\ ListFits(service')
              /\ ~r.append => r.offset = 0
  <2> TAKE r \in requests'
  <2>1. CASE r \in requests
    BY <1>4, <1>5, <1>6, <2>1
  <2>2. CASE r = new
    BY <1>2, <1>4, <1>5, <1>8, <2>2
  <2> QED
    BY <1>3, <2>1, <2>2
<1>10. AnswersFit(service', requests')
  BY <1>4, <1>7, <1>9 DEF AnswersFit
<1> QED
  BY <1>1, <1>2, <1>3, <1>4, <1>10

(* The list after the newest request's answer. *)
LEMMA TakenFits ==
    ASSUME PagesInv, NEW r \in requests, r.n = service.latest,
           NEW shown \in Shelves, NEW counted \in Shelves
    PROVE  /\ Taken(r, shown, counted) \in Services
           /\ IsFiniteSet(Taken(r, shown, counted).seen)
           /\ Taken(r, shown, counted).latest = service.latest
           /\ Taken(r, shown, counted).filter = service.filter
           /\ ~Taken(r, shown, counted).loading
           /\ ListFits(Taken(r, shown, counted))
<1> DEFINE sv == Taken(r, shown, counted)
           paged == PageOf(shown, r.filter, r.offset)
<1>1. service \in Services /\ IsFiniteSet(service.seen) /\ r \in CatalogRequests
  BY DEF PagesInv, PagesTypes
<1>2. r.filter \in Filters /\ r.offset \in Nat /\ service.rows \in Seq(CatalogIds) /\ r.append \in BOOLEAN
  BY <1>1 DEF CatalogRequests, Services
<1>3. r.filter = service.filter
      /\ (r.append => r.offset = Len(service.rows) /\ ListFits(service))
      /\ (~r.append => r.offset = 0)
  BY DEF PagesInv, AnswersFit
<1>4. paged \in Seq(CatalogIds) /\ service.rows \o paged \in Seq(CatalogIds)
  BY <1>2, PageIsASeq, ConcatProperties
<1>5. Cardinality(Matching(counted, r.filter)) \in Nat
  BY MatchingIsAShelf
<1>6. {shown} \in SUBSET Shelves /\ {counted} \in SUBSET Shelves /\ service.seen \cup {shown} \in SUBSET Shelves
  BY <1>1 DEF Services
<1>7. IsFiniteSet(service.seen \cup {shown}) /\ IsFiniteSet({shown})
  BY <1>1, FS_AddElement, FS_Singleton
<1> DEFINE rows2 == IF r.append THEN service.rows \o paged ELSE paged
           seen2 == IF r.append THEN service.seen \cup {shown} ELSE {shown}
           total2 == Cardinality(Matching(counted, r.filter))
<1>8. sv = [service EXCEPT !.rows = rows2, !.total = total2, !.seen = seen2, !.counted = {counted},
                           !.loading = FALSE, !.loaded = TRUE]
  BY DEF Taken
<1>9. rows2 \in Seq(CatalogIds) /\ seen2 \in SUBSET Shelves /\ IsFiniteSet(seen2) /\ total2 \in Nat
      /\ {counted} \in SUBSET Shelves
  BY <1>2, <1>4, <1>5, <1>6, <1>7
<1>10. /\ rows2 = IF r.append THEN service.rows \o paged ELSE paged
       /\ seen2 = IF r.append THEN service.seen \cup {shown} ELSE {shown}
       /\ total2 = Cardinality(Matching(counted, r.filter))
  OBVIOUS
<1> HIDE DEF sv, rows2, seen2, total2
<1>11. /\ sv \in Services
       /\ sv.rows = rows2 /\ sv.total = total2 /\ sv.seen = seen2 /\ sv.counted = {counted}
       /\ sv.loading = FALSE /\ sv.latest = service.latest /\ sv.filter = service.filter
  BY <1>1, <1>8, <1>9 DEF Services
<1>12. ASSUME NEW x \in Shelves, seen2 = {x} PROVE IsPrefix(rows2, Listed(x, service.filter))
  <2>1. x = shown
    BY <1>10, <1>12
  <2>2. CASE r.append
    <3>1. r.offset = Len(service.rows) /\ ListFits(service)
      BY <1>3, <2>2
    <3>2. service.seen = {} \/ service.seen = {shown}
      BY <1>10, <1>12, <2>1, <2>2
    <3>3. IsPrefix(service.rows, Listed(shown, service.filter))
      BY <1>2, <1>3, <3>1, <3>2, EmptyIsPrefix DEF ListFits
    <3>4. IsPrefix(service.rows \o PageOf(shown, service.filter, Len(service.rows)),
                   Listed(shown, service.filter))
      BY <1>2, <1>3, <3>3, PageContinues
    <3> QED
      BY <1>3, <1>10, <2>1, <2>2, <3>1, <3>4
  <2>3. CASE ~r.append
    <3>1. <<>> \in Seq(CatalogIds) /\ Len(<<>>) = 0 /\ <<>> \o paged = paged
      BY <1>4, EmptySeq, ConcatEmptySeq
    <3>2. IsPrefix(<<>> \o PageOf(shown, service.filter, Len(<<>>)), Listed(shown, service.filter))
      BY <1>2, <1>3, <3>1, EmptyIsPrefix, PageContinues
    <3> QED
      BY <1>3, <1>10, <2>1, <2>3, <3>1, <3>2
  <2> QED
    BY <2>2, <2>3
<1>13. seen2 # {}
  BY <1>10
<1>14. ListFits(sv)
  <2>1. \A x \in Shelves : sv.counted = {x} => sv.total = Cardinality(Matching(x, sv.filter))
    BY <1>3, <1>10, <1>11
  <2>2. \A x \in Shelves : sv.seen = {x} => IsPrefix(sv.rows, Listed(x, sv.filter))
    BY <1>11, <1>12
  <2> QED
    BY <1>11, <1>13, <2>1, <2>2 DEF ListFits
<1> QED
  BY <1>9, <1>11, <1>14 DEF sv

LEMMA FailedFits ==
    ASSUME PagesInv, NEW r \in requests, r.n = service.latest
    PROVE  /\ Failed(r) \in Services
           /\ IsFiniteSet(Failed(r).seen)
           /\ Failed(r).latest = service.latest /\ Failed(r).filter = service.filter
           /\ ~Failed(r).loading
           /\ ListFits(Failed(r))
<1> DEFINE sv == Failed(r)
<1>1. service \in Services /\ IsFiniteSet(service.seen) /\ r \in CatalogRequests
  BY DEF PagesInv, PagesTypes
<1>2. r.append \in BOOLEAN /\ (r.append => ListFits(service))
  BY <1>1 DEF PagesInv, AnswersFit, CatalogRequests
<1>3. <<>> \in Seq(CatalogIds)
  BY EmptySeq
<1>4. CASE r.append
  <2>1. /\ sv \in Services
        /\ sv.rows = service.rows /\ sv.total = service.total /\ sv.seen = service.seen
        /\ sv.counted = service.counted /\ sv.loading = FALSE
        /\ sv.latest = service.latest /\ sv.filter = service.filter
    BY <1>1, <1>4 DEF Failed, Services
  <2> HIDE DEF sv
  <2>2. ListFits(sv)
    BY <1>2, <1>4, <2>1 DEF ListFits
  <2> QED
    BY <1>1, <2>1, <2>2 DEF sv
<1>5. CASE ~r.append
  <2>1. /\ sv \in Services
        /\ sv.rows = <<>> /\ sv.total = 0 /\ sv.seen = {}
        /\ sv.counted = {} /\ sv.loading = FALSE
        /\ sv.latest = service.latest /\ sv.filter = service.filter
    BY <1>1, <1>3, <1>5 DEF Failed, Services
  <2> HIDE DEF sv
  <2>2. ListFits(sv)
    BY <2>1 DEF ListFits
  <2> QED
    BY <2>1, <2>2, FS_EmptySet DEF sv
<1> QED
  BY <1>4, <1>5

LEMMA OthersStillFit ==
    ASSUME PagesInv, NEW r \in requests, NEW sv,
           sv = service \/ (sv.latest = service.latest /\ ~sv.loading /\ ListFits(sv) /\ r.n = service.latest)
    PROVE  AnswersFit(sv, requests \ {r})
<1>1. AnswersFit(service, requests)
  BY DEF PagesInv
<1>2. CASE sv = service
  BY <1>1, <1>2 DEF AnswersFit
<1>3. CASE sv.latest = service.latest /\ ~sv.loading /\ ListFits(sv) /\ r.n = service.latest
  <2>1. \A q \in requests \ {r} : q.n # sv.latest /\ q.n <= sv.latest
    BY <1>1, <1>3 DEF AnswersFit
  <2> QED
    BY <1>1, <1>3, <2>1 DEF AnswersFit
<1> QED
  BY <1>2, <1>3

LEMMA ListAnsweredStep == ASSUME PagesInv, NEW r \in requests, Answered(r) PROVE PagesInv'
<1>1. PagesTypes /\ r.shelves \in SUBSET Shelves
  BY DEF PagesInv, PagesTypes, CatalogRequests
<1>2. requests' = requests \ {r} /\ UNCHANGED <<serverVars, page, catalogVars, detailVars>>
  BY DEF Answered
<1>3. /\ service' \in Services /\ IsFiniteSet(service'.seen)
      /\ service'.latest = service.latest /\ service'.filter = service.filter
      /\ service' = service \/ (~service'.loading /\ ListFits(service') /\ r.n = service.latest)
  <2>1. CASE ~IsLatest(r.n, service.latest)
    BY <1>1, <2>1 DEF Answered, PagesTypes
  <2>2. CASE IsLatest(r.n, service.latest)
    <3>0. r.n = service.latest
      BY <2>2 DEF IsLatest
    <3>1. ASSUME NEW shown \in r.shelves, NEW counted \in r.shelves, service' = Taken(r, shown, counted)
          PROVE  /\ service' \in Services /\ IsFiniteSet(service'.seen)
                 /\ service'.latest = service.latest /\ service'.filter = service.filter
                 /\ ~service'.loading /\ ListFits(service')
      BY <1>1, <3>0, <3>1, TakenFits
    <3>2. CASE service' = Failed(r)
      BY <3>0, <3>2, FailedFits
    <3> QED
      BY <2>2, <3>0, <3>1, <3>2 DEF Answered
  <2> QED
    BY <2>1, <2>2
<1>4. AnswersFit(service', requests')
  BY <1>2, <1>3, OthersStillFit
<1>5. PagesTypes'
  BY <1>1, <1>2, <1>3 DEF PagesTypes, serverVars, catalogVars, detailVars
<1> QED
  BY <1>2, <1>3, <1>4, <1>5 DEF PagesInv, serverVars, catalogVars, detailVars

LEMMA EditStep == ASSUME PagesInv, NEW s \in CatalogIds, Edit(s) PROVE PagesInv'
<1>1. PagesTypes /\ AnswersFit(service, requests)
  BY DEF PagesInv
<1>2. shelf' \in Shelves
  BY <1>1 DEF PagesTypes, Shelves, Edit
<1>3. UNCHANGED <<page, catalogVars, service, detailVars>>
  BY DEF Edit
<1> DEFINE seeing(r) == [r EXCEPT !.shelves = r.shelves \cup {shelf'}]
<1>4. requests' = {seeing(r) : r \in requests}
  BY DEF Edit
<1>5. \A r \in requests :
        /\ seeing(r) \in CatalogRequests
        /\ seeing(r).n = r.n /\ seeing(r).filter = r.filter
        /\ seeing(r).offset = r.offset /\ seeing(r).append = r.append
  BY <1>1, <1>2 DEF PagesTypes, CatalogRequests
<1> HIDE DEF seeing
<1>6. AnswersFit(service, requests')
  BY <1>1, <1>4, <1>5 DEF AnswersFit
<1>7. PagesTypes'
  BY <1>1, <1>2, <1>3, <1>4, <1>5 DEF PagesTypes, catalogVars, detailVars
<1> QED
  BY <1>3, <1>6, <1>7 DEF PagesInv, catalogVars, detailVars

-----------------------------------------------------------------------------
(* Steps of the visitor. *)

LEMMA LoadStep ==
    ASSUME PagesInv, NEW f \in Filters, LoadCatalog(f)
    PROVE  /\ service' \in Services /\ IsFiniteSet(service'.seen)
           /\ requests' \subseteq CatalogRequests
           /\ service'.filter = f
           /\ AnswersFit(service', requests')
BY FetchStep DEF LoadCatalog

LEMMA AddressBecomesStep ==
    ASSUME PagesInv, NEW f \in Filters, NEW pending \in BOOLEAN, AddressBecomes(f, pending)
    PROVE  PagesInv'
<1>1. /\ service' \in Services /\ IsFiniteSet(service'.seen)
      /\ requests' \subseteq CatalogRequests
      /\ service'.filter = f
      /\ AnswersFit(service', requests')
  BY LoadStep DEF AddressBecomes
<1>2. BoxAfter(f.q, pending) \in Texts \cup {NoText}
  BY DEF PagesInv, PagesTypes, BoxAfter, Filters
<1>3. PagesTypes'
  BY <1>1, <1>2 DEF PagesInv, PagesTypes, AddressBecomes, serverVars, detailVars
<1> QED
  BY <1>1, <1>3 DEF PagesInv, AddressBecomes, detailVars

LEMMA FilterFacts ==
    ASSUME NEW f \in Filters
    PROVE  /\ \A c \in Categories \cup {All} : [f EXCEPT !.category = c] \in Filters
           /\ \A q \in Texts \cup {NoText} : [f EXCEPT !.q = q] \in Filters
           /\ \A sort \in {"new", "title"} : [f EXCEPT !.sort = sort] \in Filters
           /\ f.q \in Texts \cup {NoText}
BY DEF Filters

LEMMA ParsedIsAFilter == ASSUME NEW raw \in RawQueries PROVE Parsed(raw) \in Filters
BY DEF RawQueries, Parsed, Filters

LEMMA ResetStep == ASSUME PagesInv, NEW f \in Filters, Reset(f) PROVE PagesInv'
<1>1. UNCHANGED <<serverVars, page, detailVars>> /\ page = "catalog" /\ address' = f
  BY DEF Reset
<1>2. /\ service' \in Services /\ IsFiniteSet(service'.seen)
      /\ requests' \subseteq CatalogRequests
      /\ service'.filter = f
      /\ AnswersFit(service', requests')
  <2>1. CASE f = address
    BY <2>1 DEF Reset, PagesInv, PagesTypes, listVars
  <2>2. CASE f # address
    BY <2>2, LoadStep DEF Reset
  <2> QED
    BY <2>1, <2>2
<1>3. PagesTypes'
  BY <1>1, <1>2 DEF PagesInv, PagesTypes, Reset, serverVars, detailVars
<1> QED
  BY <1>1, <1>2, <1>3 DEF PagesInv, serverVars, detailVars

LEMMA SearchFiresStep == ASSUME PagesInv, SearchFires PROVE PagesInv'
<1>1. address \in Filters /\ text \in Texts \cup {NoText} /\ Default \in Filters
  BY DefaultIsAFilter DEF PagesInv, PagesTypes
<1>2. [address EXCEPT !.q = text] \in Filters /\ [Default EXCEPT !.q = text] \in Filters
  BY <1>1, FilterFacts
<1>3. CASE AddressBecomes([address EXCEPT !.q = text], FALSE)
  BY <1>2, <1>3, AddressBecomesStep
<1>4. CASE timer' = FALSE /\ UNCHANGED <<serverVars, page, address, text, listVars, detailVars>>
  BY <1>4 DEF PagesInv, PagesTypes, serverVars, listVars, detailVars
<1>5. CASE /\ page = "pick" /\ timer' = FALSE
           /\ LoadCatalog([Default EXCEPT !.q = text])
           /\ UNCHANGED <<serverVars, page, address, text, detailVars>>
  <2>1. /\ service' \in Services /\ IsFiniteSet(service'.seen)
        /\ requests' \subseteq CatalogRequests
        /\ AnswersFit(service', requests')
    BY <1>2, <1>5, LoadStep
  <2>2. PagesTypes'
    BY <1>5, <2>1 DEF PagesInv, PagesTypes, serverVars, detailVars
  <2> QED
    BY <1>5, <2>1, <2>2 DEF PagesInv, detailVars
<1> QED
  BY <1>3, <1>4, <1>5 DEF SearchFires

LEMMA ReloadPageStep == ASSUME PagesInv, Reload PROVE PagesInv'
<1>1. address \in Filters
  BY DEF PagesInv, PagesTypes
<1>2. /\ service' \in Services /\ IsFiniteSet(service'.seen)
      /\ requests' \subseteq CatalogRequests
      /\ service'.filter = address
      /\ AnswersFit(service', requests')
  BY <1>1, LoadStep DEF Reload
<1>3. PagesTypes'
  BY <1>2 DEF PagesInv, PagesTypes, Reload, serverVars, catalogVars, detailVars
<1> QED
  BY <1>2, <1>3 DEF PagesInv, Reload, catalogVars, detailVars

LEMMA LoadMoreStep == ASSUME PagesInv, LoadMore PROVE PagesInv'
<1>1. address \in Filters /\ Len(service.rows) \in Nat
  BY RowsAreASeq DEF PagesInv, PagesTypes
<1>2. ~service.loading /\ address = service.filter
  BY DEF LoadMore, MayLoadMore, PagesInv
<1>3. FetchPage(address, Len(service.rows), TRUE)
  BY DEF LoadMore
<1>4. /\ service' \in Services /\ IsFiniteSet(service'.seen)
      /\ requests' \subseteq CatalogRequests
      /\ service'.filter = address
      /\ AnswersFit(service', requests')
  BY <1>1, <1>2, <1>3, FetchStep
<1>5. PagesTypes'
  BY <1>4 DEF PagesInv, PagesTypes, LoadMore, serverVars, catalogVars, detailVars
<1> QED
  BY <1>4, <1>5 DEF PagesInv, LoadMore, catalogVars, detailVars

LEMMA TypeStep == ASSUME PagesInv, NEW t \in Texts \cup {NoText}, Type(t) PROVE PagesInv'
BY DEF PagesInv, PagesTypes, Type, serverVars, listVars, detailVars

LEMMA OpenDetailStep == ASSUME PagesInv, NEW s \in CatalogIds, OpenDetail(s) PROVE PagesInv'
<1>0. detail \in Details /\ detail.latest \in Nat /\ detail.latest + 1 \in Nat
  BY DEF PagesInv, PagesTypes, Details
<1>1. /\ detail' \in Details
      /\ detail'.id = s /\ detail'.status = "loading" /\ detail'.latest = detail.latest + 1
  <2>1. detail' = [detail EXCEPT !.id = s, !.status = "loading", !.latest = detail.latest + 1]
    BY DEF OpenDetail
  <2> QED
    BY <1>0, <2>1 DEF Details
<1> DEFINE new == [n |-> detail.latest + 1, id |-> s]
<1>2. lookups' = lookups \cup {new} /\ new \in Lookups /\ new.n = detail.latest + 1 /\ new.id = s
      /\ detail.latest \in Nat
  BY DEF PagesInv, PagesTypes, OpenDetail, Lookups, Details
<1> HIDE DEF new
<1>3. \A l \in lookups : l.n \in Nat /\ l.n <= detail.latest
  BY DEF PagesInv, PagesTypes, DetailFits, Lookups
<1>4. DetailFits(detail', lookups')
  BY <1>1, <1>2, <1>3 DEF DetailFits
<1>5. UNCHANGED <<serverVars, listVars>> /\ page' = "scenario" /\ address' = Default
      /\ text' = NoText /\ timer' = FALSE
  BY DEF OpenDetail
<1>6. PagesTypes'
  BY <1>1, <1>2, <1>5, DefaultIsAFilter DEF PagesInv, PagesTypes, serverVars, listVars
<1> QED
  BY <1>4, <1>5, <1>6 DEF PagesInv, listVars

LEMMA DetailAnsweredStep ==
    ASSUME PagesInv, NEW l \in lookups, NEW failed \in BOOLEAN, DetailAnswered(l, failed)
    PROVE  PagesInv'
<1>1. lookups' = lookups \ {l} /\ UNCHANGED <<serverVars, page, catalogVars, listVars>>
  BY DEF DetailAnswered
<1>2. detail \in Details /\ l.id \in CatalogIds /\ DetailFits(detail, lookups)
  BY DEF PagesInv, PagesTypes, Lookups
<1>3. detail' \in Details /\ DetailFits(detail', lookups')
  <2>1. CASE ~IsLatest(l.n, detail.latest)
    BY <1>1, <1>2, <2>1 DEF DetailAnswered, DetailFits
  <2>2. CASE IsLatest(l.n, detail.latest)
    <3>1. l.id = detail.id
      BY <1>2, <2>2 DEF IsLatest, DetailFits
    <3>2. /\ detail' \in Details
          /\ detail'.id = detail.id /\ detail'.latest = detail.latest
          /\ detail'.status = "ready" => detail'.shows = {detail.id}
          /\ detail'.status \in {"not-found", "error"} => detail'.shows = {}
      <4> DEFINE sh == IF ~failed /\ l.id \in shelf THEN {l.id} ELSE {}
                 st == IF failed THEN "error" ELSE IF l.id \in shelf THEN "ready" ELSE "not-found"
      <4>1. detail' = [detail EXCEPT !.shows = sh, !.status = st]
        BY <2>2 DEF DetailAnswered
      <4>2. /\ sh \in SUBSET CatalogIds /\ st \in {"ready", "not-found", "error"}
            /\ st = "ready" => sh = {l.id}
            /\ st \in {"not-found", "error"} => sh = {}
        BY <1>2
      <4> HIDE DEF sh, st
      <4>3. /\ detail' \in Details /\ detail'.shows = sh /\ detail'.status = st
            /\ detail'.id = detail.id /\ detail'.latest = detail.latest
        BY <1>2, <4>1, <4>2 DEF Details
      <4> QED
        BY <3>1, <4>2, <4>3
    <3> QED
      BY <1>1, <1>2, <3>2 DEF DetailFits
  <2> QED
    BY <2>1, <2>2
<1>4. PagesTypes'
  BY <1>1, <1>3 DEF PagesInv, PagesTypes, serverVars, catalogVars, listVars
<1> QED
  BY <1>1, <1>3, <1>4 DEF PagesInv, catalogVars, listVars

LEMMA BackStep == ASSUME PagesInv, BackToCatalog PROVE PagesInv'
<1>1. service.filter \in Filters
  BY DEF PagesInv, PagesTypes, Services
<1>2. /\ service' \in Services /\ IsFiniteSet(service'.seen)
      /\ requests' \subseteq CatalogRequests
      /\ service'.filter = service.filter
      /\ AnswersFit(service', requests')
  BY <1>1, LoadStep DEF BackToCatalog
<1>3. detail' \in Details /\ lookups' \subseteq Lookups /\ DetailFits(detail', lookups')
  BY DEF BackToCatalog, NoDetail, Details, DetailFits
<1>4. PagesTypes'
  BY <1>1, <1>2, <1>3, FilterFacts DEF PagesInv, PagesTypes, BackToCatalog, serverVars
<1> QED
  BY <1>2, <1>3, <1>4 DEF PagesInv, BackToCatalog

LEMMA PagesInvStep == PagesInv /\ [PagesNext]_pagesVars => PagesInv'
<1> SUFFICES ASSUME PagesInv, [PagesNext]_pagesVars PROVE PagesInv'
  OBVIOUS
<1>1. address \in Filters /\ timer \in BOOLEAN
  BY DEF PagesInv, PagesTypes
<1>2. CASE UNCHANGED pagesVars
  BY <1>2 DEF PagesInv, PagesTypes, pagesVars, serverVars, catalogVars, listVars, detailVars
<1>3. CASE ServerNext
  BY <1>3, EditStep DEF ServerNext
<1>4. CASE AnswerNext
  BY <1>4, ListAnsweredStep, DetailAnsweredStep DEF AnswerNext
<1>5. CASE VisitNext
  <2>1. ASSUME NEW c \in Categories \cup {All}, SelectCategory(c) PROVE PagesInv'
    BY <1>1, <2>1, FilterFacts, AddressBecomesStep DEF SelectCategory
  <2>2. ASSUME NEW sort \in {"new", "title"}, SetSort(sort) PROVE PagesInv'
    <3>1. [address EXCEPT !.sort = sort] \in Filters
      BY <1>1, FilterFacts
    <3> QED
      BY <1>1, <2>2, <3>1, AddressBecomesStep DEF SetSort
  <2>3. ASSUME NEW raw \in RawQueries, FollowLink(raw) PROVE PagesInv'
    BY <1>1, <2>3, ParsedIsAFilter, AddressBecomesStep DEF FollowLink
  <2>4. ASSUME NEW t \in Texts \cup {NoText}, Type(t) PROVE PagesInv'
    BY <2>4, TypeStep
  <2>5. CASE ClearSearch
    BY <1>1, <2>5, FilterFacts, ResetStep DEF ClearSearch
  <2>6. CASE ResetFilters
    BY <2>6, DefaultIsAFilter, ResetStep DEF ResetFilters
  <2> QED
    BY <1>5, <2>1, <2>2, <2>3, <2>4, <2>5, <2>6, SearchFiresStep, ReloadPageStep, LoadMoreStep,
       OpenDetailStep, BackStep DEF VisitNext
<1> QED
  BY <1>2, <1>3, <1>4, <1>5 DEF PagesNext

(* The inductive invariant of the catalog and scenario pages: the answer     *)
(* that will be taken continues the list it was asked for or replaces it.    *)
THEOREM PagesInvariance == PagesSpec => []PagesInv
BY PagesInitHolds, PagesInvStep, PTL DEF PagesSpec

-----------------------------------------------------------------------------
LEMMA ListOfState == PagesInv => ListIsOfItsFilter
<1> SUFFICES ASSUME PagesInv, ~service.loading, service.rows # <<>>,
                    page = "catalog" => service.filter = address
             PROVE  ListIsOfItsFilter
  BY DEF ListIsOfItsFilter, PagesInv
<1>1. ListFits(service) /\ service.seen \in SUBSET Shelves /\ IsFiniteSet(service.seen)
      /\ service.filter \in Filters
  BY DEF PagesInv, PagesTypes, AnswersFit, Services
<1>2. ASSUME Cardinality(service.seen) = 1
      PROVE  LET shown == CHOOSE s \in service.seen : TRUE IN
             /\ IsPrefix(service.rows, Listed(shown, service.filter))
             /\ service.counted = service.seen
                   => (HasMore <=> Len(service.rows) < Len(Listed(shown, service.filter)))
  <2>1. PICK x : service.seen = {x}
    BY <1>1, <1>2, FS_Singleton
  <2>2. x \in Shelves /\ (CHOOSE s \in service.seen : TRUE) = x
    BY <1>1, <2>1
  <2>3. IsPrefix(service.rows, Listed(x, service.filter))
    BY <1>1, <2>1, <2>2 DEF ListFits
  <2>4. Len(Listed(x, service.filter)) = Cardinality(Matching(x, service.filter))
    BY <1>1, <2>2, ListedIsASeq
  <2>5. service.counted = service.seen => service.total = Len(Listed(x, service.filter))
    BY <1>1, <2>1, <2>2, <2>4 DEF ListFits
  <2> QED
    BY <2>2, <2>3, <2>5 DEF HasMore
<1> QED
  BY <1>2 DEF ListIsOfItsFilter

(* However filters, next pages, failures and their answers cross, a list     *)
(* that is not loading is of the filter announced, and the beginning of what *)
(* it finds if the catalog did not change between its pages                  *)
(* (ScenarioService.fetchPage).                                              *)
THEOREM TheListIsOfItsFilter == PagesSpec => []ListIsOfItsFilter
BY PagesInvariance, ListOfState, PTL

LEMMA DetailOfState == PagesInv => DetailIsOfItsAddress
BY DEF PagesInv, DetailFits, DetailIsOfItsAddress

(* A scenario page that is ready shows the scenario of its address, and one  *)
(* that is not found or failed shows none (ScenarioComponent.load).          *)
THEOREM TheDetailIsOfItsAddress == PagesSpec => []DetailIsOfItsAddress
BY PagesInvariance, DetailOfState, PTL

=============================================================================
