------------------------------- MODULE Viewer -------------------------------
(***************************************************************************)
(* The page that plays a scenario (pages/viewer), between its awaits: the  *)
(* lookup, the download and the start of the sandboxed player each end     *)
(* later, when the visitor may be on another scenario or gone.  With it    *)
(* the telemetry client, which outlives the page, and the server's         *)
(* sessions.  The player itself is external: its host client replaces the  *)
(* frame of the previous run and drops what that frame still says.         *)
(***************************************************************************)
EXTENDS Naturals, Sequences

CONSTANTS
    Scenarios,
    Streamed,    \* scenarios with a streaming manifest
    Queries,     \* the query strings the page is opened with
    MaxLoads,    \* bound on loads: visits, navigations and restarts
    NoScenario

ASSUME ViewerAssumption ==
    /\ Streamed \subseteq Scenarios
    /\ Queries \subseteq [lti : BOOLEAN, draft : {"absent", "hash", "malformed"}, stream : BOOLEAN]
    /\ NoScenario \notin Scenarios
    /\ MaxLoads \in Nat

VARIABLES
    query,     \* the options of the open page, read once; NoQuery when it is closed
    token,     \* loadToken
    view,      \* what the page shows
    loads,     \* the loads whose next answer is awaited, newest and stale ones
    frame,     \* the player frame: the run it is of, what it plays, how far it is
    sessionId, \* TelemetryService.sessionId, 0 for null
    posts,     \* POST /session requests without an answer yet
    beacons,   \* session ids whose end was sent and has not arrived
    sessions,  \* scenario_sessions: id -> scenario and whether it is open
    ran,       \* history: the scenarios of the runs that reached a running scene
    overlapped \* history: the runs whose start nobody can close: two were out at once, or unheard

pageVars == <<query, token, view, loads, frame>>
telemetryVars == <<sessionId, posts, beacons, sessions, overlapped>>
vars == <<pageVars, telemetryVars, ran>>

NoQuery == [lti |-> FALSE, draft |-> "closed", stream |-> FALSE]
IsOpen == query # NoQuery

Versions == {"current", "draft"}
Sources == [scn : Scenarios, version : Versions, kind : {"blob", "manifest"}]
NoSource == [scn |-> NoScenario, version |-> "current", kind |-> "blob"]
NoFrame == [run |-> 0, plays |-> NoSource, phase |-> "none", paused |-> FALSE]
Blank == [state |-> "idle", routeId |-> NoScenario, scn |-> NoScenario, source |-> NoSource,
          result |-> 0, contextLost |-> FALSE, paused |-> FALSE]

Init ==
    /\ query = NoQuery
    /\ token = 0
    /\ view = Blank
    /\ loads = {}
    /\ frame = NoFrame
    /\ sessionId = 0
    /\ posts = {}
    /\ beacons = {}
    /\ sessions = <<>>
    /\ ran = <<>>
    /\ overlapped = {}

-----------------------------------------------------------------------------
(* The telemetry client and its server. *)

(* Slip: no beacon is sent. *)
EndedSilently == sessionId' = 0 /\ UNCHANGED beacons

EndSession ==
    /\ sessionId' = 0
    /\ beacons' = beacons \cup ({sessionId} \ {0})

(* One post per run, named by the run's number. *)
StartSession(scn) ==
    /\ EndSession
    /\ posts' = posts \cup {[run |-> Len(ran'), scn |-> scn, id |-> 0, heard |-> TRUE]}
    /\ overlapped' = overlapped \cup
          (IF posts = {} THEN {} ELSE {Len(ran')} \cup {p.run : p \in posts})
    /\ UNCHANGED sessions

(* POST /api/telemetry/session is carried out: one row per request, open. *)
SessionInserted(p) ==
    /\ p \in posts /\ p.id = 0
    /\ sessions' = Append(sessions, [scn |-> p.scn, run |-> p.run, open |-> TRUE])
    /\ posts' = (posts \ {p}) \cup {[p EXCEPT !.id = Len(sessions')]}
    /\ UNCHANGED <<pageVars, sessionId, beacons, ran, overlapped>>

(* Its answer, or any failure (404, 429, 500, an answer lost): the id is null then. *)
SessionAnswered(p, lost) ==
    /\ p \in posts
    /\ posts' = posts \ {p}
    /\ sessionId' = IF ~p.heard THEN sessionId ELSE IF lost THEN 0 ELSE p.id
    /\ overlapped' = overlapped \cup (IF p.heard /\ ~lost THEN {} ELSE {p.run})
    /\ UNCHANGED <<pageVars, beacons, sessions, ran>>

(* POST .../end: only a session that is still open is closed. *)
SessionEnds(i) ==
    /\ i \in beacons
    /\ sessions' = [sessions EXCEPT ![i].open = FALSE]
    /\ beacons' = beacons \ {i}
    /\ UNCHANGED <<pageVars, sessionId, posts, ran, overlapped>>

-----------------------------------------------------------------------------
(* The loading pipeline. *)

(* Slip: no load looks at the token again. *)
NeverStale(l) == FALSE

(* if (token !== this.loadToken) return *)
IsStale(l) == l.token # token

SetState(s) == [view EXCEPT !.state = s]
ShowError == SetState("error")

(* A launch from an LMS is never a draft preview. *)
DraftOf(q) == IF q.lti THEN "absent" ELSE q.draft

Awaits(tok, id, step, source) == [token |-> tok, id |-> id, step |-> step, source |-> source]

(* openScenario up to the lookup; a malformed draft hash is an error screen. *)
OpenScenario(v, id, draft) ==
    /\ token' = token + 1
    /\ view' = [v EXCEPT !.routeId = id, !.state = IF draft = "malformed" THEN "error" ELSE "downloading"]
    /\ loads' = IF draft = "malformed" THEN loads
                ELSE loads \cup {Awaits(token + 1, id, "lookup", NoSource)}

(* Slip: what the last run reported stays. *)
FreshRunKeepingResult(v) == [v EXCEPT !.state = "loading-engine", !.paused = FALSE]

FreshRun(v) == [v EXCEPT !.state = "loading-engine", !.paused = FALSE, !.result = 0]

(* runSource up to host.load or host.restart: a fresh frame either way. *)
RunSource(v, source, tok, rest) ==
    /\ view' = FreshRun([v EXCEPT !.source = source])
    /\ frame' = [NoFrame EXCEPT !.run = tok, !.plays = source, !.phase = "loading"]
    /\ loads' = rest \cup {Awaits(tok, source.scn, "engine", source)}

(* Without WebGL 2 nothing is subscribed and no host is made. *)
Open(q, id) ==
    /\ ~IsOpen /\ token < MaxLoads
    /\ query' = q
    /\ \/ OpenScenario(Blank, id, DraftOf(q))
       \/ view' = [Blank EXCEPT !.state = "unsupported"] /\ UNCHANGED <<token, loads>>
    /\ UNCHANGED <<frame, telemetryVars, ran>>

(* The route's id changes under the open page; the frame of the last run plays on. *)
Navigate(id) ==
    /\ IsOpen /\ view.state # "unsupported" /\ token < MaxLoads
    /\ OpenScenario(view, id, DraftOf(query))
    /\ UNCHANGED <<query, frame, telemetryVars, ran>>

SourceOf(id) ==
    [scn |-> id,
     version |-> IF DraftOf(query) = "hash" THEN "draft" ELSE "current",
     kind |-> IF query.stream /\ id \in Streamed /\ DraftOf(query) = "absent" THEN "manifest" ELSE "blob"]

(* GET /api/catalog/:id: a version that is found has an archive, a scenario need not. *)
Answers == {"item", "failed"} \cup (IF DraftOf(query) = "hash" THEN {} ELSE {"noArchive"})

LookupAnswered(l, answer) ==
    LET found == [view EXCEPT !.scn = l.id]
        rest == loads \ {l} IN
    /\ l.step = "lookup" /\ ~IsStale(l)
    /\ \/ /\ answer = "failed"
          /\ view' = ShowError /\ loads' = rest /\ UNCHANGED frame
       \/ /\ answer = "noArchive"
          /\ view' = [found EXCEPT !.state = "error"] /\ loads' = rest /\ UNCHANGED frame
       \/ /\ answer = "item" /\ SourceOf(l.id).kind = "manifest"
          /\ RunSource(found, SourceOf(l.id), l.token, rest)
       \/ /\ answer = "item" /\ SourceOf(l.id).kind = "blob"
          /\ view' = [found EXCEPT !.state = "downloading"]
          /\ loads' = rest \cup {Awaits(l.token, l.id, "download", SourceOf(l.id))} /\ UNCHANGED frame
    /\ UNCHANGED <<query, token, telemetryVars, ran>>

(* downloadScenarioZip has every chunk. *)
Downloaded(l) ==
    /\ l.step = "download" /\ ~IsStale(l)
    /\ RunSource(view, l.source, l.token, loads \ {l})
    /\ UNCHANGED <<query, token, telemetryVars, ran>>

DownloadFails(l) ==
    /\ l.step = "download" /\ ~IsStale(l)
    /\ view' = ShowError /\ loads' = loads \ {l}
    /\ UNCHANGED <<query, token, frame, telemetryVars, ran>>

(* An answer for a load the visitor has left behind, or a run whose frame was replaced. *)
StaleAnswer(l) ==
    /\ IsStale(l)
    /\ l.step = "engine" => frame.run # l.token
    /\ loads' = loads \ {l}
    /\ UNCHANGED <<query, token, view, frame, telemetryVars, ran>>

(* host.load resolves: the scene runs, and only now a launch is counted. *)
EngineReady(l) ==
    /\ l.step = "engine" /\ frame.run = l.token
    /\ frame' = [frame EXCEPT !.phase = "running"]
    /\ loads' = loads \ {l}
    /\ IF IsStale(l) THEN UNCHANGED <<view, ran, telemetryVars>>
       ELSE /\ view' = SetState("running")
            /\ ran' = Append(ran, l.source.scn)
            /\ StartSession(view.scn)
    /\ UNCHANGED <<query, token>>

(* onPlayerError: not before the next run has reached the player. *)
IsOurs == view.state \notin {"idle", "downloading"}

(* Slip: runSource trusts that every failure was reported. *)
FailureShownIfReported(l, code) == code = "load" /\ IsOurs

(* The host reports first and rejects then; a script error alone shows nothing. *)
FailureShown(l, code) ==
    \/ code = "load" /\ IsOurs
    \/ ~IsStale(l) /\ view.state = "loading-engine"

EngineFails(l, code) ==
    /\ l.step = "engine" /\ frame.run = l.token
    /\ frame' = [frame EXCEPT !.phase = "dead"]
    /\ loads' = loads \ {l}
    /\ view' = IF FailureShown(l, code) THEN ShowError ELSE view
    /\ UNCHANGED <<query, token, telemetryVars, ran>>

-----------------------------------------------------------------------------
(* The player speaks while its frame is on the page. *)

Speaks == frame.phase \in {"loading", "running"}

PlayerReports ==
    /\ Speaks
    /\ view' = [view EXCEPT !.result = frame.run]
    /\ UNCHANGED <<query, token, loads, frame, telemetryVars, ran>>

(* The HUD's pause button, or Space on either side: the player confirms what it did. *)
PlayerPauses ==
    /\ frame.phase = "running"
    /\ frame' = [frame EXCEPT !.paused = ~@]
    /\ view' = [view EXCEPT !.paused = frame'.paused]
    /\ UNCHANGED <<query, token, loads, telemetryVars, ran>>

PlayerLosesContext ==
    /\ Speaks
    /\ view' = [view EXCEPT !.contextLost = TRUE]
    /\ UNCHANGED <<query, token, loads, frame, telemetryVars, ran>>

PlayerFails ==
    /\ frame.phase = "running"
    /\ frame' = [frame EXCEPT !.phase = "dead"]
    /\ view' = IF IsOurs THEN ShowError ELSE view
    /\ UNCHANGED <<query, token, loads, telemetryVars, ran>>

-----------------------------------------------------------------------------
(* The visitor. *)

CanRestart == view.state = "running" /\ ~view.contextLost /\ view.source # NoSource

(* host.restart plays what the host loaded last. *)
Restart ==
    /\ CanRestart /\ token < MaxLoads
    /\ token' = token + 1
    /\ RunSource(view, frame.plays, token + 1, loads)
    /\ UNCHANGED <<query, telemetryVars, ran>>

Gone == query' = NoQuery /\ view' = Blank /\ frame' = NoFrame

(* exit, goBack, Back: ngOnDestroy.  Answers still out find a stale token. *)
Leave ==
    /\ IsOpen
    /\ Gone
    /\ token' = token + 1
    /\ EndSession
    /\ UNCHANGED <<loads, posts, sessions, overlapped, ran>>

(* pagehide, then nothing of this page runs any more: no answer is heard. *)
CloseTab ==
    /\ IsOpen
    /\ Gone
    /\ EndSession
    /\ loads' = {}
    /\ posts' = {[p EXCEPT !.heard = FALSE] : p \in posts}
    /\ UNCHANGED <<token, sessions, overlapped, ran>>

-----------------------------------------------------------------------------

LoadNext ==
    \E l \in loads :
        \/ \E answer \in Answers : LookupAnswered(l, answer)
        \/ Downloaded(l) \/ DownloadFails(l)
        \/ EngineReady(l)
        \/ \E code \in {"load", "runtime"} : EngineFails(l, code)
        \/ StaleAnswer(l)

PlayerNext == PlayerReports \/ PlayerPauses \/ PlayerLosesContext \/ PlayerFails

VisitorNext ==
    \/ \E id \in Scenarios : Navigate(id) \/ \E q \in Queries : Open(q, id)
    \/ Restart \/ Leave \/ CloseTab

TelemetryNext ==
    \/ \E p \in posts : SessionInserted(p) \/ \E lost \in BOOLEAN : SessionAnswered(p, lost)
    \/ \E i \in beacons : SessionEnds(i)

Next == LoadNext \/ PlayerNext \/ VisitorNext \/ TelemetryNext

(* Every answer a load waits for arrives, be it as a failure: the browser ends *)
(* a fetch and the host times a silent player out.                              *)
Spec == Init /\ [][Next]_vars /\ WF_vars(LoadNext)

-----------------------------------------------------------------------------

(***************************************************************************)
(* A running page shows one scenario: the frame, the title the launch is   *)
(* counted under, the retained source and the address all belong to the    *)
(* newest load, and what is played is the version and the kind the address *)
(* asks for - whatever lookups, downloads and starts of earlier scenarios  *)
(* and restarts ended in between.                                          *)
(***************************************************************************)
RunningIsWhatTheAddressSays ==
    view.state = "running" =>
        /\ frame.run = token /\ frame.phase = "running"
        /\ frame.plays = view.source
        /\ view.source.scn = view.scn /\ view.scn = view.routeId
        /\ view.source.version = "draft" <=> ~query.lti /\ query.draft = "hash"
        /\ view.source.kind = "manifest" => query.stream /\ view.source.version = "current"

(***************************************************************************)
(* The score the submit panel would send, and the pause the HUD shows, are *)
(* the ones of the run on the screen, never of the frame before a restart  *)
(* or of the scenario that played on while the next one was fetched.       *)
(***************************************************************************)
HudSpeaksOfThisRun ==
    view.state = "running" =>
        /\ view.result \in {0, token}
        /\ view.paused = frame.paused

(***************************************************************************)
(* A session on the server is a run that reached a running scene, under    *)
(* the scenario that ran, and no run has two.  startSession closes the     *)
(* previous session first: an open session is held, or its end is on the   *)
(* way, or its id has not arrived - unless its start was out at the same   *)
(* time as another one's, its answer was lost, or the tab closed before    *)
(* it: then nobody knows its id.                                           *)
(***************************************************************************)
OnlyOverlappingStartsAreForgotten ==
    /\ \A i, j \in DOMAIN sessions : sessions[i].run = sessions[j].run => i = j
    /\ \A i \in DOMAIN sessions :
          /\ sessions[i].run \in DOMAIN ran
          /\ sessions[i].scn = ran[sessions[i].run]
          /\ sessions[i].open =>
                \/ i = sessionId \/ i \in beacons
                \/ \E p \in posts : p.id = i
                \/ sessions[i].run \in overlapped

(* No load leaves a spinner behind: the scene runs, an error shows, or the visitor went away. *)
EveryLoadEnds ==
    view.state \in {"downloading", "loading-engine"}
        ~> view.state \notin {"downloading", "loading-engine"}

=============================================================================
