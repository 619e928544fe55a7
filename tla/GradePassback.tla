---------------------------- MODULE GradePassback ----------------------------
(***************************************************************************)
(* A learner's work on its way into the gradebook: the submit panel of the *)
(* viewer (lti-submit.component.ts) in several tabs, the backend's         *)
(* describeSession and submitScore (lti/submission.js, grades.js) with     *)
(* its in-flight guard and Result cache (grade-cache.js), and the LMS,     *)
(* which answers late, not at all, or after the backend gave up on it.     *)
(* One learner, one line item: the guard and the cache are keyed by them.  *)
(***************************************************************************)
EXTENDS Naturals

CONSTANTS
    Pages,       \* tabs of the learner
    Calls,       \* requests the backend can be serving at a time
    Full,        \* scores are 0..Full
    NoGrade, NoCall, NoScore, Nothing

ASSUME GradesAssumption ==
    /\ Full \in Nat
    /\ {NoGrade, NoScore, Nothing} \cap 0..Full = {}
    /\ Nothing # NoGrade /\ NoCall \notin Calls

VARIABLES
    hasLineItem,   \* the launch carried an AGS line item
    graded,        \* scenarios.graded now
    grade,         \* the LMS: the grade of this learner on this line item
    guarded,       \* inFlight holds the key
    cached,        \* the Result cache's entry
    call,          \* call[r]: what the backend is doing for request r
    page,          \* page[p]: what tab p shows
    taken,         \* history: the scores the LMS took, until the backend gives up on an answer
    confirmed      \* history: a submission was confirmed to the learner

vars == <<hasLineItem, graded, grade, guarded, cached, call, page, taken, confirmed>>

-----------------------------------------------------------------------------

Scores == 0..Full

Idle == [step |-> "idle"]

(* asking: describeSession waits for the LMS, ticket is still good; told: it has the answer. *)
SessionCall == [step : {"session", "asking", "told"}, graded : BOOLEAN,
                current : BOOLEAN, value : Scores \cup {NoGrade}]

(* guard: holds inFlight; clear: no result yet; posting: sent, not applied;                   *)
(* accepted, refused: the LMS has decided; abandoned: timed out, the LMS may still apply it.  *)
SubmitCall == [step : {"submit", "guard", "clear", "posting", "accepted", "refused", "abandoned"},
               score : Scores \cup {NoScore}]

Page == [mode : {"closed", "loading", "ready", "submitted", "unavailable"},
         graded : BOOLEAN, waits : Calls \cup {NoCall}]

Closed == [mode |-> "closed", graded |-> FALSE, waits |-> NoCall]

TypeOK ==
    /\ hasLineItem \in BOOLEAN /\ graded \in BOOLEAN /\ guarded \in BOOLEAN
    /\ grade \in Scores \cup {NoGrade}
    /\ cached \in Scores \cup {NoGrade, Nothing}
    /\ call \in [Calls -> SessionCall \cup SubmitCall \cup {Idle}]
    /\ page \in [Pages -> Page]
    /\ taken \in {"none", "one", "several", "unknown"} /\ confirmed \in BOOLEAN

Init ==
    /\ hasLineItem \in BOOLEAN /\ graded \in BOOLEAN
    /\ grade = NoGrade
    /\ guarded = FALSE
    /\ cached = Nothing
    /\ call = [r \in Calls |-> Idle]
    /\ page = [p \in Pages |-> Closed]
    /\ taken = "none" /\ confirmed = FALSE

-----------------------------------------------------------------------------
(* The page *)

IsBusy(p) == page[p].waits # NoCall

(* The viewer opens from a launch, or is reloaded (while it waits: after LoseConnection). *)
OpenPage(p, r) ==
    /\ ~IsBusy(p) /\ call[r] = Idle
    /\ page' = [page EXCEPT ![p] = [mode |-> "loading", graded |-> FALSE, waits |-> r]]
    /\ call' = [call EXCEPT ![r] = [step |-> "session", graded |-> FALSE,
                                    current |-> TRUE, value |-> NoGrade]]
    /\ UNCHANGED <<hasLineItem, graded, grade, guarded, cached, taken, confirmed>>

(* send: one request at a time; a score goes along only from a graded scenario with a result. *)
Send(p, r, score) ==
    /\ page[p].mode = "ready" /\ ~IsBusy(p)
    /\ call[r] = Idle
    /\ score # NoScore => page[p].graded
    /\ page' = [page EXCEPT ![p].waits = r]
    /\ call' = [call EXCEPT ![r] = [step |-> "submit", score |-> score]]
    /\ UNCHANGED <<hasLineItem, graded, grade, guarded, cached, taken, confirmed>>

(* The connection is lost on the way: an error on the page, the request goes on. *)
LoseConnection(p) ==
    /\ IsBusy(p)
    /\ page' = [page EXCEPT ![p].waits = NoCall,
                            ![p].mode = IF @ = "loading" THEN "unavailable" ELSE @]
    /\ UNCHANGED <<hasLineItem, graded, grade, guarded, cached, call, taken, confirmed>>

(* «Роботу здано»: there is no button, graded is not looked at any more. *)
ShowsSubmitted == [mode |-> "submitted", graded |-> FALSE, waits |-> NoCall]

(* The session's answer, on the page that still waits for it. *)
SessionShown(r, isGraded, submitted) ==
    [p \in Pages |->
        IF page[p].waits = r
        THEN IF submitted = NoGrade
             THEN [mode |-> "ready", graded |-> isGraded, waits |-> NoCall]
             ELSE ShowsSubmitted
        ELSE page[p]]

(* Slip: busy is reset on success only. *)
SubmitShownStayingBusy(r, status) ==
    [p \in Pages |->
        IF page[p].waits = r /\ status \in {200, 409} THEN ShowsSubmitted ELSE page[p]]

(* The submit's answer: any 409 is «Роботу здано», another failure leaves the button. *)
SubmitShown(r, status) ==
    [p \in Pages |->
        IF page[p].waits # r THEN page[p]
        ELSE IF status \in {200, 409} THEN ShowsSubmitted
        ELSE [page[p] EXCEPT !.waits = NoCall]]

-----------------------------------------------------------------------------
(* GET /api/lti/session: describeSession *)

(* Slip: an answer is kept whatever happened since it was asked for. *)
RememberAnyAnswer(r) == call[r].value

(* results.set: a ticket from before an invalidation stores nothing. *)
Remember(r) == IF call[r].current THEN call[r].value ELSE cached

(* The catalog row is read first; the cache or a missing line item answers at once. *)
DescribeFromCache(r) ==
    /\ call[r].step = "session"
    /\ ~hasLineItem \/ cached # Nothing
    /\ page' = SessionShown(r, graded, IF hasLineItem THEN cached ELSE NoGrade)
    /\ call' = [call EXCEPT ![r] = Idle]
    /\ UNCHANGED <<hasLineItem, graded, grade, guarded, cached, taken, confirmed>>

AskForResult(r) ==
    /\ call[r].step = "session"
    /\ hasLineItem /\ cached = Nothing
    /\ call' = [call EXCEPT ![r].step = "asking", ![r].graded = graded]
    /\ UNCHANGED <<hasLineItem, graded, grade, guarded, cached, page, taken, confirmed>>

ResultRead(r) ==
    /\ call[r].step = "asking"
    /\ call' = [call EXCEPT ![r].step = "told", ![r].value = grade]
    /\ UNCHANGED <<hasLineItem, graded, grade, guarded, cached, page, taken, confirmed>>

DescribeSession(r) ==
    /\ call[r].step = "told"
    /\ cached' = Remember(r)
    /\ page' = SessionShown(r, call[r].graded, call[r].value)
    /\ call' = [call EXCEPT ![r] = Idle]
    /\ UNCHANGED <<hasLineItem, graded, grade, guarded, taken, confirmed>>

(* The token or the Results call failed or timed out: the lab opens all the same. *)
DescribeWithoutResult(r) ==
    /\ call[r].step = "asking"
    /\ page' = SessionShown(r, call[r].graded, NoGrade)
    /\ call' = [call EXCEPT ![r] = Idle]
    /\ UNCHANGED <<hasLineItem, graded, grade, guarded, cached, taken, confirmed>>

(* An entry lives RESULT_TTL_MS, or until the cache is full. *)
ForgetResult ==
    /\ cached # Nothing
    /\ cached' = Nothing
    /\ UNCHANGED <<hasLineItem, graded, grade, guarded, call, page, taken, confirmed>>

-----------------------------------------------------------------------------
(* POST /api/lti/submit: submitScore *)

(* Slip: a graded scenario without a result is not taken for 0. *)
ResolvedScoreUnread(raw) == IF ~graded THEN Full ELSE raw

(* resolveScore: completion is the maximum; a graded scenario without a score is 0. *)
ResolvedScore(raw) == IF ~graded THEN Full ELSE IF raw = NoScore THEN 0 ELSE raw

(* Slip: the guard is taken without looking at it. *)
MaySubmitTwice == hasLineItem

MaySubmit == hasLineItem /\ ~guarded

(* Scenario, line item, registration, guard: the first that fails answers. *)
Submit(r) ==
    /\ call[r].step = "submit"
    /\ IF MaySubmit
       THEN /\ guarded' = TRUE
            /\ call' = [call EXCEPT ![r] = [step |-> "guard", score |-> ResolvedScore(@.score)]]
            /\ UNCHANGED page
       ELSE /\ page' = SubmitShown(r, 409)
            /\ call' = [call EXCEPT ![r] = Idle]
            /\ UNCHANGED guarded
    /\ UNCHANGED <<hasLineItem, graded, grade, cached, taken, confirmed>>

(* 404: the scenario is not published any more. *)
SubmitGone(r) ==
    /\ call[r].step = "submit"
    /\ page' = SubmitShown(r, 404)
    /\ call' = [call EXCEPT ![r] = Idle]
    /\ UNCHANGED <<hasLineItem, graded, grade, guarded, cached, taken, confirmed>>

(* results.delete: the entry goes and every ticket handed out is void. *)
Invalidated == [q \in Calls |-> IF call[q].step \in {"asking", "told"}
                                THEN [call[q] EXCEPT !.current = FALSE] ELSE call[q]]

(* The Results call found a grade, whoever gave it: 409 with the score. *)
RefuseSecondSubmit(r) ==
    /\ call[r].step = "guard"
    /\ grade # NoGrade
    /\ cached' = Nothing
    /\ call' = [Invalidated EXCEPT ![r] = Idle]
    /\ guarded' = FALSE
    /\ page' = SubmitShown(r, 409)
    /\ UNCHANGED <<hasLineItem, graded, grade, taken, confirmed>>

FindNoResult(r) ==
    /\ call[r].step = "guard"
    /\ grade = NoGrade
    /\ call' = [call EXCEPT ![r].step = "clear"]
    /\ UNCHANGED <<hasLineItem, graded, grade, guarded, cached, page, taken, confirmed>>

PostScore(r) ==
    /\ call[r].step = "clear"
    /\ call' = [call EXCEPT ![r].step = "posting"]
    /\ UNCHANGED <<hasLineItem, graded, grade, guarded, cached, page, taken, confirmed>>

(* Slip: finally is missing, so a failure keeps the guard. *)
GuardAfterFailure == guarded

GuardReleased == FALSE

(* The token, the Results call or the score call failed: 502 or 503, the page may retry. *)
SubmitFails(r) ==
    /\ call[r].step \in {"guard", "refused"}
    /\ call' = [call EXCEPT ![r] = Idle]
    /\ guarded' = GuardReleased
    /\ page' = SubmitShown(r, 502)
    /\ UNCHANGED <<hasLineItem, graded, grade, cached, taken, confirmed>>

(* No answer within FETCH_TIMEOUT_MS: the same 502, but the score is on its way or there. *)
SubmitTimesOut(r) ==
    /\ call[r].step \in {"posting", "accepted"}
    /\ call' = [call EXCEPT ![r] = IF call[r].step = "posting"
                                   THEN [@ EXCEPT !.step = "abandoned"] ELSE Idle]
    /\ taken' = "unknown"
    /\ guarded' = GuardReleased
    /\ page' = SubmitShown(r, 502)
    /\ UNCHANGED <<hasLineItem, graded, grade, cached, confirmed>>

Submitted(r) ==
    /\ call[r].step = "accepted"
    /\ cached' = Nothing
    /\ call' = [Invalidated EXCEPT ![r] = Idle]
    /\ guarded' = FALSE
    /\ confirmed' = TRUE
    /\ page' = SubmitShown(r, 200)
    /\ UNCHANGED <<hasLineItem, graded, grade, taken>>

-----------------------------------------------------------------------------
(* The LMS and the rest of the world *)

LmsTakesScore(r) ==
    /\ call[r].step \in {"posting", "abandoned"}
    /\ grade' = call[r].score
    /\ taken' = CASE taken = "none" -> "one" [] taken \in {"one", "several"} -> "several"
                   [] OTHER -> taken
    /\ call' = [call EXCEPT ![r] = IF call[r].step = "posting"
                                   THEN [@ EXCEPT !.step = "accepted"] ELSE Idle]
    /\ UNCHANGED <<hasLineItem, graded, guarded, cached, page, confirmed>>

LmsRefusesScore(r) ==
    /\ call[r].step \in {"posting", "abandoned"}
    /\ call' = [call EXCEPT ![r] = IF call[r].step = "posting"
                                   THEN [@ EXCEPT !.step = "refused"] ELSE Idle]
    /\ UNCHANGED <<hasLineItem, graded, grade, guarded, cached, page, taken, confirmed>>

InstructorGrades(g) ==
    /\ grade' = g
    /\ UNCHANGED <<hasLineItem, graded, guarded, cached, call, page, taken, confirmed>>

(* Another version becomes current: the flag follows its manifest. *)
GradedChanges ==
    /\ graded' = ~graded
    /\ UNCHANGED <<hasLineItem, grade, guarded, cached, call, page, taken, confirmed>>

(* The process starts again: guard, cache and calls are gone, the pages get a network error; *)
(* a score already sent may still be taken.                                                  *)
Restart ==
    /\ guarded' = FALSE
    /\ cached' = Nothing
    /\ call' = [r \in Calls |-> IF call[r].step \in {"posting", "abandoned"}
                                THEN [call[r] EXCEPT !.step = "abandoned"] ELSE Idle]
    /\ taken' = IF \E r \in Calls : call[r].step \in {"posting", "accepted"}
                THEN "unknown" ELSE taken
    /\ page' = [p \in Pages |-> [page[p] EXCEPT !.waits = NoCall,
                                    !.mode = IF @ = "loading" THEN "unavailable" ELSE @]]
    /\ UNCHANGED <<hasLineItem, graded, grade, confirmed>>

-----------------------------------------------------------------------------

ServerStep(r) ==
    \/ DescribeFromCache(r) \/ AskForResult(r) \/ DescribeSession(r) \/ DescribeWithoutResult(r)
    \/ Submit(r) \/ SubmitGone(r) \/ RefuseSecondSubmit(r) \/ FindNoResult(r) \/ PostScore(r)
    \/ SubmitFails(r) \/ SubmitTimesOut(r) \/ Submitted(r)

LmsStep(r) == ResultRead(r) \/ LmsTakesScore(r) \/ LmsRefusesScore(r)

Next ==
    \/ \E p \in Pages, r \in Calls :
          \/ OpenPage(p, r)
          \/ \E score \in Scores \cup {NoScore} : Send(p, r, score)
    \/ \E p \in Pages : LoseConnection(p)
    \/ \E r \in Calls : ServerStep(r) \/ LmsStep(r)
    \/ \E g \in Scores : InstructorGrades(g)
    \/ ForgetResult \/ GradedChanges \/ Restart

Spec == Init /\ [][Next]_vars

(* The backend goes on: a call to the LMS is answered, fails, or is aborted after ten seconds. *)
FairSpec == Spec /\ \A r \in Calls : WF_vars(ServerStep(r))

-----------------------------------------------------------------------------
(* Correctness *)

(***************************************************************************)
(* "Once" (submission.js 101): the LMS takes a second score from the tool  *)
(* only if the backend never heard about an earlier one.                   *)
(***************************************************************************)
OnceUnlessUnanswered == taken # "several"

(***************************************************************************)
(* The guard stands exactly while a submission is between its check and    *)
(* its answer: no failure leaves it behind, which would refuse the learner *)
(* until the next restart, and no second submission gets past it.          *)
(***************************************************************************)
GuardHasOneOwner ==
    LET owners == {r \in Calls : call[r].step \in {"guard", "clear", "posting", "accepted", "refused"}}
    IN IF guarded THEN \E r \in owners : owners = {r} ELSE owners = {}

(***************************************************************************)
(* Once the backend confirmed a submission the Result cache does not say   *)
(* "not submitted" again, however the session reads around it interleave.  *)
(***************************************************************************)
CacheKnowsConfirmed == confirmed => cached # NoGrade

(* Every page that waits gets its answer: no button stays busy, no panel loading. *)
EveryPageIsAnswered == \A p \in Pages : IsBusy(p) ~> ~IsBusy(p)

=============================================================================
