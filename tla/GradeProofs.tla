----------------------------- MODULE GradeProofs -----------------------------
(***************************************************************************)
(* Theorems about GradePassback, for any tabs, requests and scores: its    *)
(* types, one owner of the guard, one score taken unless an answer was     *)
(* lost, and a cache that knows what was confirmed.                        *)
(***************************************************************************)
EXTENDS GradePassback, TLAPS

CallRows == SessionCall \cup SubmitCall \cup {Idle}

Owns(c) == c.step \in {"guard", "clear", "posting", "accepted", "refused"}

(* What is true of one request, given the gradebook, what the LMS took and what was confirmed. *)
Good(c, g, t, done) ==
    /\ Owns(c) \/ c.step = "abandoned" => c.score \in Scores
    /\ c.step = "accepted" => g # NoGrade
    /\ c.step \in {"clear", "posting"} => t \in {"none", "unknown"}
    /\ c.step = "abandoned" => t = "unknown"
    /\ c.step = "told" /\ c.current /\ done => c.value # NoGrade

AllGood == \A r \in Calls : Good(call[r], grade, taken, confirmed)

(* The gradebook never forgets, so what was taken or confirmed shows in it. *)
Ledger ==
    /\ taken # "several"
    /\ taken = "one" => grade # NoGrade
    /\ confirmed => grade # NoGrade /\ cached # NoGrade

GuardOwned ==
    /\ \A r \in Calls : Owns(call[r]) => guarded
    /\ \A r, q \in Calls : Owns(call[r]) /\ Owns(call[q]) => r = q
    /\ guarded => \E r \in Calls : Owns(call[r])

IInv == TypeOK /\ AllGood /\ Ledger /\ GuardOwned

(* TypeOK without the requests. *)
Plain ==
    /\ hasLineItem \in BOOLEAN /\ graded \in BOOLEAN /\ guarded \in BOOLEAN
    /\ grade \in Scores \cup {NoGrade}
    /\ cached \in Scores \cup {NoGrade, Nothing}
    /\ page \in [Pages -> Page]
    /\ taken \in {"none", "one", "several", "unknown"} /\ confirmed \in BOOLEAN

LEMMA TypeOKParts == TypeOK <=> Plain /\ call \in [Calls -> CallRows]
BY DEF TypeOK, Plain, CallRows

LEMMA Parts ==
    ASSUME IInv
    PROVE  /\ Plain /\ call \in [Calls -> CallRows] /\ AllGood /\ Ledger /\ GuardOwned
           /\ \A r \in Calls : call[r] \in CallRows /\ Good(call[r], grade, taken, confirmed)
BY TypeOKParts DEF IInv, AllGood

LEMMA ScoreFacts == Full \in Nat /\ Full \in Scores /\ 0 \in Scores /\ NoGrade \notin Scores /\ NoScore \notin Scores
BY GradesAssumption DEF Scores

LEMMA IdleFacts == Idle \in CallRows /\ Idle.step = "idle" /\ ~Owns(Idle)
                   /\ \A g, t, done : Good(Idle, g, t, done)
<1>1. Idle \in CallRows /\ Idle.step = "idle"
  BY DEF Idle, CallRows
<1>2. ~Owns(Idle)
  BY <1>1 DEF Owns
<1> QED
  BY <1>1, <1>2 DEF Good

LEMMA KindOfCall ==
    ASSUME NEW c \in CallRows
    PROVE  /\ c.step \in {"session", "asking", "told"} => c \in SessionCall
           /\ Owns(c) \/ c.step \in {"submit", "abandoned"} => c \in SubmitCall
BY DEF CallRows, SessionCall, SubmitCall, Idle, Owns

-----------------------------------------------------------------------------
(* Pages. *)

LEMMA ShowsSubmittedIsPage == ShowsSubmitted \in Page
BY DEF ShowsSubmitted, Page

LEMMA SessionShownIsPages ==
    ASSUME page \in [Pages -> Page], NEW r, NEW isGraded \in BOOLEAN, NEW submitted
    PROVE  SessionShown(r, isGraded, submitted) \in [Pages -> Page]
<1>1. [mode |-> "ready", graded |-> isGraded, waits |-> NoCall] \in Page
  BY DEF Page
<1> QED
  BY <1>1, ShowsSubmittedIsPage DEF SessionShown

LEMMA SubmitShownIsPages ==
    ASSUME page \in [Pages -> Page], NEW r, NEW status
    PROVE  SubmitShown(r, status) \in [Pages -> Page]
<1>1. \A p \in Pages : [page[p] EXCEPT !.waits = NoCall] \in Page
  BY DEF Page
<1> QED
  BY <1>1, ShowsSubmittedIsPage DEF SubmitShown

-----------------------------------------------------------------------------
(* The requests. *)

(* One request moves; the others are as good as they were, or were only voided (cs). *)
LEMMA OneMoves ==
    ASSUME IInv, NEW r \in Calls, NEW c \in CallRows, NEW cs \in [Calls -> CallRows],
           call' = [cs EXCEPT ![r] = c],
           \A q \in Calls : q # r => Good(cs[q], grade', taken', confirmed') /\ (Owns(cs[q]) <=> Owns(call[q])),
           Good(c, grade', taken', confirmed'),
           Plain', Ledger',
           \/ guarded' = guarded /\ (Owns(c) <=> Owns(call[r]))
           \/ ~guarded /\ guarded' /\ Owns(c)
           \/ Owns(call[r]) /\ ~guarded' /\ ~Owns(c)
    PROVE  IInv'
<1>1. call' \in [Calls -> CallRows] /\ \A q \in Calls : call'[q] = IF q = r THEN c ELSE cs[q]
  OBVIOUS
<1>2. AllGood'
  <2> SUFFICES ASSUME NEW q \in Calls PROVE Good(call'[q], grade', taken', confirmed')
    BY DEF AllGood
  <2> QED
    BY <1>1, Zenon
<1>3. \A q \in Calls : Owns(call'[q]) <=> IF q = r THEN Owns(c) ELSE Owns(call[q])
  BY <1>1, Zenon
<1>4. GuardOwned'
  <2>1. guarded' \in BOOLEAN /\ guarded \in BOOLEAN
    BY Parts DEF Plain
  <2>2. CASE guarded' = guarded /\ (Owns(c) <=> Owns(call[r]))
    <3>1. \A q \in Calls : Owns(call'[q]) <=> Owns(call[q])
      BY <1>3, <2>2
    <3> QED
      BY <2>2, <3>1, Parts DEF GuardOwned
  <2>3. CASE ~guarded /\ guarded' /\ Owns(c)
    <3>1. \A q \in Calls : Owns(call'[q]) <=> q = r
      BY <1>3, <2>3, Parts DEF GuardOwned
    <3> QED
      BY <2>3, <3>1 DEF GuardOwned
  <2>4. CASE Owns(call[r]) /\ ~guarded' /\ ~Owns(c)
    <3>1. \A q \in Calls : ~Owns(call'[q])
      BY <1>3, <2>4, Parts DEF GuardOwned
    <3> QED
      BY <2>4, <3>1 DEF GuardOwned
  <2> QED
    BY <2>2, <2>3, <2>4
<1>5. TypeOK'
  BY <1>1, TypeOKParts DEF TypeOK, Plain, CallRows
<1> QED
  BY <1>2, <1>4, <1>5 DEF IInv

(* The same where nothing but requests, pages and the catalog's flag move. *)
LEMMA QuietMove ==
    ASSUME IInv, NEW r \in Calls, NEW c \in CallRows, call' = [call EXCEPT ![r] = c],
           UNCHANGED <<hasLineItem, grade, guarded, cached, taken, confirmed>>,
           graded' \in BOOLEAN, page' \in [Pages -> Page],
           Good(c, grade, taken, confirmed), Owns(c) <=> Owns(call[r])
    PROVE  IInv'
<1>1. Plain' /\ Ledger'
  BY Parts DEF Plain, Ledger
<1>2. \A q \in Calls : Good(call[q], grade', taken', confirmed')
  BY Parts
<1>3. Good(c, grade', taken', confirmed')
  OBVIOUS
<1>4. call \in [Calls -> CallRows] /\ guarded' = guarded
  BY Parts
<1> QED
  BY <1>1, <1>2, <1>3, <1>4, OneMoves

-----------------------------------------------------------------------------
(* Steps that only move a request and its page. *)

LEMMA OpenPageStep ==
    ASSUME IInv, NEW p \in Pages, NEW r \in Calls, OpenPage(p, r)
    PROVE  IInv'
<1> DEFINE c == [step |-> "session", graded |-> FALSE, current |-> TRUE, value |-> NoGrade]
<1>1. call' = [call EXCEPT ![r] = c] /\ call[r] = Idle
      /\ UNCHANGED <<hasLineItem, graded, grade, guarded, cached, taken, confirmed>>
  BY DEF OpenPage
<1>2. c \in CallRows /\ c.step = "session"
  BY DEF CallRows, SessionCall
<1> HIDE DEF c
<1>3. Good(c, grade, taken, confirmed) /\ ~Owns(c)
  BY <1>2 DEF Good, Owns
<1>4. page' \in [Pages -> Page]
  <2>1. [mode |-> "loading", graded |-> FALSE, waits |-> r] \in Page
    BY DEF Page
  <2> QED
    BY <2>1, Parts DEF OpenPage, Plain
<1>5. graded' \in BOOLEAN
  BY <1>1, Parts DEF Plain
<1> QED
  BY <1>1, <1>2, <1>3, <1>4, <1>5, IdleFacts, QuietMove

LEMMA SendStep ==
    ASSUME IInv, NEW p \in Pages, NEW r \in Calls, NEW score \in Scores \cup {NoScore}, Send(p, r, score)
    PROVE  IInv'
<1> DEFINE c == [step |-> "submit", score |-> score]
<1>1. call' = [call EXCEPT ![r] = c] /\ call[r] = Idle
      /\ UNCHANGED <<hasLineItem, graded, grade, guarded, cached, taken, confirmed>>
  BY DEF Send
<1>2. c \in CallRows /\ c.step = "submit"
  BY DEF CallRows, SubmitCall
<1> HIDE DEF c
<1>3. Good(c, grade, taken, confirmed) /\ ~Owns(c)
  BY <1>2 DEF Good, Owns
<1>4. page' \in [Pages -> Page]
  <2>1. [page[p] EXCEPT !.waits = r] \in Page
    BY Parts DEF Plain, Page
  <2> QED
    BY <2>1, Parts DEF Send, Plain
<1>5. graded' \in BOOLEAN
  BY <1>1, Parts DEF Plain
<1> QED
  BY <1>1, <1>2, <1>3, <1>4, <1>5, IdleFacts, QuietMove

(* A session answered without a new cache entry, a submission turned away: the request is over. *)
LEMMA OverStep ==
    ASSUME IInv, NEW r \in Calls, ~Owns(call[r]), call' = [call EXCEPT ![r] = Idle],
           UNCHANGED <<hasLineItem, graded, grade, guarded, cached, taken, confirmed>>,
           page' \in [Pages -> Page]
    PROVE  IInv'
<1>1. graded' \in BOOLEAN
  BY Parts DEF Plain
<1> QED
  BY <1>1, IdleFacts, QuietMove

LEMMA AnswerSteps ==
    ASSUME IInv, NEW r \in Calls,
           DescribeFromCache(r) \/ DescribeWithoutResult(r) \/ SubmitGone(r)
    PROVE  IInv'
<1>1. page \in [Pages -> Page] /\ graded \in BOOLEAN
  BY Parts DEF Plain
<1>2. CASE DescribeFromCache(r)
  BY <1>1, <1>2, SessionShownIsPages, OverStep DEF DescribeFromCache, Owns
<1>3. CASE DescribeWithoutResult(r)
  <2>1. call[r].graded \in BOOLEAN
    BY <1>3, KindOfCall, Parts DEF DescribeWithoutResult, SessionCall
  <2> QED
    BY <1>1, <1>3, <2>1, SessionShownIsPages, OverStep DEF DescribeWithoutResult, Owns
<1>4. CASE SubmitGone(r)
  BY <1>1, <1>4, SubmitShownIsPages, OverStep DEF SubmitGone, Owns
<1> QED
  BY <1>2, <1>3, <1>4

LEMMA AskForResultStep ==
    ASSUME IInv, NEW r \in Calls, AskForResult(r)
    PROVE  IInv'
<1> DEFINE c == [call[r] EXCEPT !.step = "asking", !.graded = graded]
<1>1. call' = [call EXCEPT ![r] = c] /\ call[r].step = "session"
      /\ UNCHANGED <<hasLineItem, graded, grade, guarded, cached, page, taken, confirmed>>
  BY DEF AskForResult
<1>2. call[r] \in SessionCall /\ graded \in BOOLEAN /\ page \in [Pages -> Page]
  BY <1>1, KindOfCall, Parts DEF Plain
<1>3. c \in CallRows /\ c.step = "asking"
  BY <1>2 DEF SessionCall, CallRows
<1> HIDE DEF c
<1>4. Good(c, grade, taken, confirmed) /\ ~Owns(c) /\ ~Owns(call[r])
  BY <1>1, <1>3 DEF Good, Owns
<1> QED
  BY <1>1, <1>2, <1>3, <1>4, QuietMove

(* The LMS answers with its grade: once something was confirmed, it has one. *)
LEMMA ResultReadStep ==
    ASSUME IInv, NEW r \in Calls, ResultRead(r)
    PROVE  IInv'
<1> DEFINE c == [call[r] EXCEPT !.step = "told", !.value = grade]
<1>1. call' = [call EXCEPT ![r] = c] /\ call[r].step = "asking"
      /\ UNCHANGED <<hasLineItem, graded, grade, guarded, cached, page, taken, confirmed>>
  BY DEF ResultRead
<1>2. call[r] \in SessionCall /\ grade \in Scores \cup {NoGrade} /\ page \in [Pages -> Page]
      /\ graded \in BOOLEAN
  BY <1>1, KindOfCall, Parts DEF Plain
<1>3. c \in CallRows /\ c.step = "told" /\ c.value = grade
  BY <1>2 DEF SessionCall, CallRows
<1> HIDE DEF c
<1>4. Good(c, grade, taken, confirmed) /\ ~Owns(c) /\ ~Owns(call[r])
  BY <1>1, <1>3, Parts DEF Good, Owns, Ledger
<1> QED
  BY <1>1, <1>2, <1>3, <1>4, QuietMove

(* A submission goes from step to step, holding the guard. *)
LEMMA HoldingStep ==
    ASSUME IInv, NEW r \in Calls, Owns(call[r]), NEW step \in {"clear", "posting", "refused"},
           call' = [call EXCEPT ![r].step = step], step # "refused" => taken \in {"none", "unknown"},
           UNCHANGED <<hasLineItem, graded, grade, guarded, cached, page, taken, confirmed>>
    PROVE  IInv'
<1> DEFINE c == [call[r] EXCEPT !.step = step]
<1>1. call' = [call EXCEPT ![r] = c]
  OBVIOUS
<1>2. call[r] \in SubmitCall /\ call[r].score \in Scores /\ page \in [Pages -> Page] /\ graded \in BOOLEAN
  BY KindOfCall, Parts DEF Plain, Good
<1>3. c \in CallRows /\ c.step = step /\ c.score = call[r].score
  BY <1>2 DEF SubmitCall, CallRows
<1> HIDE DEF c
<1>4. Good(c, grade, taken, confirmed) /\ Owns(c)
  BY <1>2, <1>3 DEF Good, Owns
<1> QED
  BY <1>1, <1>2, <1>3, <1>4, QuietMove

LEMMA HoldingSteps ==
    ASSUME IInv, NEW r \in Calls, FindNoResult(r) \/ PostScore(r)
    PROVE  IInv'
<1>1. CASE FindNoResult(r)
  <2>1. taken \in {"none", "unknown"}
    BY <1>1, Parts DEF FindNoResult, Ledger, Plain
  <2> QED
    BY <1>1, <2>1, HoldingStep DEF FindNoResult, Owns
<1>2. CASE PostScore(r)
  <2>1. taken \in {"none", "unknown"}
    BY <1>2, Parts DEF PostScore, Good
  <2> QED
    BY <1>2, <2>1, HoldingStep DEF PostScore, Owns
<1> QED
  BY <1>1, <1>2

-----------------------------------------------------------------------------
(* Steps that move more. *)

LEMMA DescribeSessionStep ==
    ASSUME IInv, NEW r \in Calls, DescribeSession(r)
    PROVE  IInv'
<1>1. /\ call' = [call EXCEPT ![r] = Idle] /\ call[r].step = "told"
      /\ cached' = Remember(r)
      /\ UNCHANGED <<hasLineItem, graded, grade, guarded, taken, confirmed>>
  BY DEF DescribeSession
<1>2. call[r] \in SessionCall /\ ~Owns(call[r])
  BY <1>1, KindOfCall, Parts DEF Owns
<1>3. cached' \in Scores \cup {NoGrade, Nothing} /\ (confirmed => cached' # NoGrade)
  <2>1. call[r].value \in Scores \cup {NoGrade} /\ (call[r].current /\ confirmed => call[r].value # NoGrade)
    BY <1>1, <1>2, Parts DEF SessionCall, Good
  <2> QED
    BY <1>1, <2>1, Parts DEF Remember, Plain, Ledger
<1>4. page' \in [Pages -> Page]
  BY <1>2, SessionShownIsPages, Parts DEF DescribeSession, SessionCall, Plain
<1>5. Plain' /\ Ledger'
  BY <1>1, <1>3, <1>4, Parts DEF Plain, Ledger
<1>6. \A q \in Calls : Good(call[q], grade', taken', confirmed')
  BY <1>1, Parts
<1>7. call \in [Calls -> CallRows] /\ guarded' = guarded
  BY <1>1, Parts
<1> QED
  BY <1>1, <1>2, <1>5, <1>6, <1>7, IdleFacts, OneMoves

LEMMA SubmitStep ==
    ASSUME IInv, NEW r \in Calls, Submit(r)
    PROVE  IInv'
<1>1. call[r].step = "submit" /\ UNCHANGED <<hasLineItem, graded, grade, cached, taken, confirmed>>
  BY DEF Submit
<1>2. call[r] \in SubmitCall /\ ~Owns(call[r])
  BY <1>1, KindOfCall, Parts DEF Owns
<1>3. CASE MaySubmit
  <2> DEFINE c == [step |-> "guard", score |-> ResolvedScore(call[r].score)]
  <2>1. call' = [call EXCEPT ![r] = c] /\ guarded' = TRUE /\ page' = page /\ ~guarded
    BY <1>3 DEF Submit, MaySubmit
  <2>2. ResolvedScore(call[r].score) \in Scores
    BY <1>2, ScoreFacts DEF ResolvedScore, SubmitCall
  <2>3. c \in CallRows /\ c.step = "guard" /\ c.score \in Scores
    BY <2>2 DEF CallRows, SubmitCall
  <2> HIDE DEF c
  <2>4. Good(c, grade', taken', confirmed') /\ Owns(c)
    BY <1>1, <2>3 DEF Good, Owns
  <2>5. Plain' /\ Ledger'
    BY <1>1, <2>1, Parts DEF Plain, Ledger
  <2>6. \A q \in Calls : Good(call[q], grade', taken', confirmed')
    BY <1>1, Parts
  <2>7. call \in [Calls -> CallRows]
    BY Parts
  <2> QED
    BY <2>1, <2>3, <2>4, <2>5, <2>6, <2>7, OneMoves
<1>4. CASE ~MaySubmit
  <2>1. page' = SubmitShown(r, 409) /\ call' = [call EXCEPT ![r] = Idle] /\ guarded' = guarded
    BY <1>4 DEF Submit
  <2>2. page' \in [Pages -> Page]
    BY <2>1, SubmitShownIsPages, Parts DEF Plain
  <2> QED
    BY <1>1, <1>2, <2>1, <2>2, OverStep
<1> QED
  BY <1>3, <1>4

(* results.delete voids the tickets, which changes nothing else of a request. *)
LEMMA InvalidatedFacts ==
    ASSUME IInv
    PROVE  /\ Invalidated \in [Calls -> CallRows]
           /\ \A q \in Calls : /\ Owns(Invalidated[q]) <=> Owns(call[q])
                              /\ \A done : Good(Invalidated[q], grade, taken, done)
<1> SUFFICES ASSUME NEW q \in Calls
             PROVE  /\ Invalidated[q] \in CallRows
                    /\ Owns(Invalidated[q]) <=> Owns(call[q])
                    /\ \A done : Good(Invalidated[q], grade, taken, done)
  BY DEF Invalidated
<1>1. CASE call[q].step \in {"asking", "told"}
  <2> DEFINE c == [call[q] EXCEPT !.current = FALSE]
  <2>1. Invalidated[q] = c
    BY <1>1 DEF Invalidated
  <2>2. call[q] \in SessionCall
    BY <1>1, KindOfCall, Parts
  <2>3. c \in CallRows /\ c.step = call[q].step /\ c.current = FALSE
    BY <2>2 DEF SessionCall, CallRows
  <2> HIDE DEF c
  <2> QED
    BY <1>1, <2>1, <2>3 DEF Good, Owns
<1>2. CASE call[q].step \notin {"asking", "told"}
  <2>1. Invalidated[q] = call[q]
    BY <1>2 DEF Invalidated
  <2>2. \A done : Good(call[q], grade, taken, done)
    BY <1>2, Parts DEF Good
  <2> QED
    BY <2>1, <2>2, Parts
<1> QED
  BY <1>1, <1>2

(* A submission that ends releases the guard, whatever it says; a new grade entry is not made. *)
LEMMA ReleasedStep ==
    ASSUME IInv, NEW r \in Calls, Owns(call[r]), NEW cs \in [Calls -> CallRows],
           call' = [cs EXCEPT ![r] = Idle],
           \A q \in Calls : q # r => Good(cs[q], grade', taken', confirmed') /\ (Owns(cs[q]) <=> Owns(call[q])),
           guarded' = FALSE, Plain', Ledger'
    PROVE  IInv'
<1>1. ~guarded' /\ Good(Idle, grade', taken', confirmed') /\ ~Owns(Idle) /\ Idle \in CallRows
  BY IdleFacts
<1> QED
  BY <1>1, OneMoves

LEMMA SettledSteps ==
    ASSUME IInv, NEW r \in Calls, RefuseSecondSubmit(r) \/ Submitted(r)
    PROVE  IInv'
<1>1. /\ call' = [Invalidated EXCEPT ![r] = Idle] /\ cached' = Nothing /\ guarded' = FALSE
      /\ UNCHANGED <<hasLineItem, graded, grade, taken>>
      /\ confirmed' \in BOOLEAN /\ Owns(call[r])
      /\ page' \in {SubmitShown(r, 409), SubmitShown(r, 200)}
  BY Parts DEF RefuseSecondSubmit, Submitted, Owns, Plain
<1>2. page' \in [Pages -> Page]
  BY <1>1, SubmitShownIsPages, Parts DEF Plain
<1>3. confirmed' => grade # NoGrade
  BY Parts DEF RefuseSecondSubmit, Submitted, Ledger, Good
<1>4. Plain' /\ Ledger'
  BY <1>1, <1>2, <1>3, GradesAssumption, Parts DEF Plain, Ledger
<1>5. \A q \in Calls : Good(Invalidated[q], grade', taken', confirmed')
  BY <1>1, InvalidatedFacts
<1> QED
  BY <1>1, <1>4, <1>5, InvalidatedFacts, ReleasedStep

LEMMA SubmitFailsStep ==
    ASSUME IInv, NEW r \in Calls, SubmitFails(r)
    PROVE  IInv'
<1>1. /\ call' = [call EXCEPT ![r] = Idle] /\ guarded' = FALSE /\ Owns(call[r])
      /\ UNCHANGED <<hasLineItem, graded, grade, cached, taken, confirmed>>
      /\ page' = SubmitShown(r, 502)
  BY DEF SubmitFails, GuardReleased, Owns
<1>2. Plain' /\ Ledger'
  BY <1>1, SubmitShownIsPages, Parts DEF Plain, Ledger
<1>3. call \in [Calls -> CallRows] /\ \A q \in Calls : Good(call[q], grade', taken', confirmed')
  BY <1>1, Parts
<1> QED
  BY <1>1, <1>2, <1>3, ReleasedStep

(* The backend gives up: from here on nothing is known of what the LMS takes. *)
LEMMA UnknownIsGood ==
    ASSUME NEW c, NEW g, NEW t, NEW done, Good(c, g, t, done)
    PROVE  Good(c, g, "unknown", done)
BY DEF Good

LEMMA SubmitTimesOutStep ==
    ASSUME IInv, NEW r \in Calls, SubmitTimesOut(r)
    PROVE  IInv'
<1>1. /\ call[r].step \in {"posting", "accepted"} /\ Owns(call[r])
      /\ taken' = "unknown" /\ guarded' = FALSE /\ page' = SubmitShown(r, 502)
      /\ UNCHANGED <<hasLineItem, graded, grade, cached, confirmed>>
  BY DEF SubmitTimesOut, GuardReleased, Owns
<1>2. Plain' /\ Ledger'
  BY <1>1, SubmitShownIsPages, Parts DEF Plain, Ledger
<1>3. call \in [Calls -> CallRows] /\ \A q \in Calls : Good(call[q], grade', taken', confirmed')
  BY <1>1, UnknownIsGood, Parts
<1>4. CASE call[r].step = "posting"
  <2> DEFINE c == [call[r] EXCEPT !.step = "abandoned"]
  <2>1. call' = [call EXCEPT ![r] = c]
    BY <1>4 DEF SubmitTimesOut
  <2>2. call[r] \in SubmitCall /\ call[r].score \in Scores
    BY <1>1, KindOfCall, Parts DEF Good
  <2>3. c \in CallRows /\ c.step = "abandoned" /\ c.score = call[r].score
    BY <2>2 DEF SubmitCall, CallRows
  <2> HIDE DEF c
  <2>4. Good(c, grade', taken', confirmed') /\ ~Owns(c)
    BY <1>1, <2>2, <2>3 DEF Good, Owns
  <2>5. ~guarded'
    BY <1>1
  <2> QED
    BY <1>1, <1>2, <1>3, <2>1, <2>3, <2>4, <2>5, OneMoves
<1>5. CASE call[r].step = "accepted"
  <2>1. call' = [call EXCEPT ![r] = Idle]
    BY <1>5 DEF SubmitTimesOut
  <2> QED
    BY <1>1, <1>2, <1>3, <2>1, ReleasedStep
<1> QED
  BY <1>1, <1>4, <1>5

-----------------------------------------------------------------------------
(* The LMS. *)

LEMMA LmsRefusesScoreStep ==
    ASSUME IInv, NEW r \in Calls, LmsRefusesScore(r)
    PROVE  IInv'
<1>1. CASE call[r].step = "posting"
  BY <1>1, HoldingStep DEF LmsRefusesScore, Owns
<1>2. CASE call[r].step = "abandoned"
  <2>1. call' = [call EXCEPT ![r] = Idle] /\ ~Owns(call[r])
        /\ UNCHANGED <<hasLineItem, graded, grade, guarded, cached, page, taken, confirmed>>
    BY <1>2 DEF LmsRefusesScore, Owns
  <2> QED
    BY <2>1, OverStep, Parts DEF Plain
<1> QED
  BY <1>1, <1>2 DEF LmsRefusesScore

(* The score it takes is the first, or an earlier answer was given up on. *)
LEMMA LmsTakesScoreStep ==
    ASSUME IInv, NEW r \in Calls, LmsTakesScore(r)
    PROVE  IInv'
<1>1. /\ call[r].step \in {"posting", "abandoned"}
      /\ grade' = call[r].score
      /\ UNCHANGED <<hasLineItem, graded, guarded, cached, page, confirmed>>
  BY DEF LmsTakesScore
<1>2. call[r].score \in Scores /\ call[r] \in SubmitCall
  BY <1>1, KindOfCall, Parts DEF Good, Owns
<1>3. taken \in {"none", "unknown"}
  BY <1>1, Parts DEF Good
<1>4. taken' = IF taken = "none" THEN "one" ELSE "unknown"
  BY <1>3 DEF LmsTakesScore
<1>5. grade' # NoGrade
  BY <1>1, <1>2, ScoreFacts
<1>6. Plain' /\ Ledger'
  BY <1>1, <1>2, <1>4, <1>5, Parts DEF Plain, Ledger
<1>7. \A q \in Calls : q # r => Good(call[q], grade', taken', confirmed')
  <2> SUFFICES ASSUME NEW q \in Calls, q # r PROVE Good(call[q], grade', taken', confirmed')
    OBVIOUS
  <2>1. Good(call[q], grade, taken, confirmed) /\ confirmed' = confirmed
    BY <1>1, Parts
  <2>2. CASE taken = "unknown"
    BY <1>4, <1>5, <2>1, <2>2 DEF Good
  <2>3. CASE taken = "none"
    <3>1. call[r].step = "posting"
      BY <1>1, <2>3, Parts DEF Good
    <3>2. ~Owns(call[q])
      BY <3>1, Parts DEF GuardOwned, Owns
    <3> QED
      BY <1>5, <2>1, <2>3, <3>2 DEF Good, Owns
  <2> QED
    BY <1>3, <2>2, <2>3
<1>8. CASE call[r].step = "posting"
  <2> DEFINE c == [call[r] EXCEPT !.step = "accepted"]
  <2>1. call' = [call EXCEPT ![r] = c] /\ Owns(call[r])
    BY <1>8 DEF LmsTakesScore, Owns
  <2>2. c \in CallRows /\ c.step = "accepted" /\ c.score = call[r].score
    BY <1>2 DEF SubmitCall, CallRows
  <2> HIDE DEF c
  <2>3. Good(c, grade', taken', confirmed') /\ Owns(c)
    BY <1>2, <1>5, <2>2 DEF Good, Owns
  <2>4. call \in [Calls -> CallRows]
    BY Parts
  <2> QED
    BY <1>1, <1>6, <1>7, <2>1, <2>2, <2>3, <2>4, OneMoves
<1>9. CASE call[r].step = "abandoned"
  <2>1. call' = [call EXCEPT ![r] = Idle] /\ ~Owns(call[r])
    BY <1>9 DEF LmsTakesScore, Owns
  <2>2. call \in [Calls -> CallRows]
    BY Parts
  <2> QED
    BY <1>1, <1>6, <1>7, <2>1, <2>2, IdleFacts, OneMoves
<1> QED
  BY <1>1, <1>8, <1>9

-----------------------------------------------------------------------------
(* Steps that move no request, or all of them. *)

LEMMA CallsStay ==
    ASSUME IInv, UNCHANGED <<call, guarded, taken, confirmed>>, Plain', Ledger',
           grade = NoGrade \/ grade' # NoGrade
    PROVE  IInv'
<1>1. AllGood'
  <2> SUFFICES ASSUME NEW r \in Calls PROVE Good(call[r], grade', taken', confirmed')
    BY DEF AllGood
  <2>1. Good(call[r], grade, taken, confirmed)
    BY Parts
  <2> QED
    BY <2>1 DEF Good
<1>2. GuardOwned'
  BY Parts DEF GuardOwned
<1>3. TypeOK'
  BY Parts, TypeOKParts DEF TypeOK, Plain, CallRows
<1> QED
  BY <1>1, <1>2, <1>3 DEF IInv

LEMMA WorldSteps ==
    ASSUME IInv,
           \/ \E p \in Pages : LoseConnection(p)
           \/ \E g \in Scores : InstructorGrades(g)
           \/ ForgetResult \/ GradedChanges
    PROVE  IInv'
<1>1. CASE \E p \in Pages : LoseConnection(p)
  <2> PICK p \in Pages : LoseConnection(p)
    BY <1>1
  <2> DEFINE shown == [page[p] EXCEPT !.waits = NoCall,
                                      !.mode = IF @ = "loading" THEN "unavailable" ELSE @]
  <2>1. shown \in Page
    <3>1. page[p] \in Page
      BY Parts DEF Plain
    <3> QED
      BY <3>1 DEF Page
  <2>2. page' = [page EXCEPT ![p] = shown]
        /\ UNCHANGED <<hasLineItem, graded, grade, guarded, cached, call, taken, confirmed>>
    BY DEF LoseConnection
  <2> HIDE DEF shown
  <2>3. Plain' /\ Ledger'
    BY <2>1, <2>2, Parts DEF Plain, Ledger
  <2> QED
    BY <2>2, <2>3, CallsStay
<1>2. CASE \E g \in Scores : InstructorGrades(g)
  <2>1. grade' \in Scores /\ UNCHANGED <<hasLineItem, graded, guarded, cached, call, page, taken, confirmed>>
    BY <1>2 DEF InstructorGrades
  <2>2. Plain' /\ Ledger' /\ grade' # NoGrade
    BY <2>1, ScoreFacts, Parts DEF Plain, Ledger
  <2> QED
    BY <2>1, <2>2, CallsStay
<1>3. CASE ForgetResult
  <2>1. cached' = Nothing /\ UNCHANGED <<hasLineItem, graded, grade, guarded, call, page, taken, confirmed>>
    BY <1>3 DEF ForgetResult
  <2>2. Plain' /\ Ledger'
    BY <2>1, GradesAssumption, Parts DEF Plain, Ledger
  <2> QED
    BY <2>1, <2>2, CallsStay
<1>4. CASE GradedChanges
  <2>1. graded' = ~graded /\ UNCHANGED <<hasLineItem, grade, guarded, cached, call, page, taken, confirmed>>
    BY <1>4 DEF GradedChanges
  <2>2. Plain' /\ Ledger'
    BY <2>1, Parts DEF Plain, Ledger
  <2> QED
    BY <2>1, <2>2, CallsStay
<1> QED
  BY <1>1, <1>2, <1>3, <1>4

LEMMA RestartStep ==
    ASSUME IInv, Restart
    PROVE  IInv'
<1>1. guarded' = FALSE /\ cached' = Nothing /\ UNCHANGED <<hasLineItem, graded, grade, confirmed>>
  BY DEF Restart
<1>2. taken' \in {taken, "unknown"}
      /\ ((\E r \in Calls : call[r].step \in {"posting", "accepted"}) => taken' = "unknown")
  BY DEF Restart
<1>3. page' \in [Pages -> Page]
  <2>1. \A p \in Pages : [page[p] EXCEPT !.waits = NoCall,
                              !.mode = IF @ = "loading" THEN "unavailable" ELSE @] \in Page
    <3> TAKE p \in Pages
    <3>1. page[p] \in Page
      BY Parts DEF Plain
    <3> QED
      BY <3>1 DEF Page
  <2> QED
    BY <2>1 DEF Restart
<1>4. Plain' /\ Ledger'
  BY <1>1, <1>2, <1>3, GradesAssumption, Parts DEF Plain, Ledger
<1>5. \A r \in Calls : /\ call'[r] \in CallRows /\ ~Owns(call'[r])
                       /\ Good(call'[r], grade', taken', confirmed')
  <2> SUFFICES ASSUME NEW r \in Calls
               PROVE  /\ call'[r] \in CallRows /\ ~Owns(call'[r])
                      /\ Good(call'[r], grade', taken', confirmed')
    OBVIOUS
  <2>1. CASE call[r].step \in {"posting", "abandoned"}
    <3> DEFINE c == [call[r] EXCEPT !.step = "abandoned"]
    <3>1. call'[r] = c
      BY <2>1 DEF Restart
    <3>2. call[r] \in SubmitCall /\ call[r].score \in Scores
      BY <2>1, KindOfCall, Parts DEF Good, Owns
    <3>3. c \in CallRows /\ c.step = "abandoned" /\ c.score = call[r].score
      BY <3>2 DEF SubmitCall, CallRows
    <3> HIDE DEF c
    <3>4. taken' = "unknown"
      BY <1>2, <2>1, Parts DEF Good
    <3> QED
      BY <3>1, <3>2, <3>3, <3>4 DEF Good, Owns
  <2>2. CASE call[r].step \notin {"posting", "abandoned"}
    <3>1. call'[r] = Idle
      BY <2>2 DEF Restart
    <3> QED
      BY <3>1, IdleFacts
  <2> QED
    BY <2>1, <2>2
<1>6. call' \in [Calls -> CallRows]
  <2>1. call' = [r \in Calls |-> call'[r]]
    BY DEF Restart
  <2> QED
    BY <1>5, <2>1
<1>7. AllGood' /\ GuardOwned'
  BY <1>1, <1>5 DEF AllGood, GuardOwned
<1>8. TypeOK'
  BY <1>4, <1>6 DEF TypeOK, Plain, CallRows
<1> QED
  BY <1>4, <1>7, <1>8 DEF IInv

-----------------------------------------------------------------------------
(* The theorems. *)

LEMMA InitHolds == Init => IInv
<1> SUFFICES ASSUME Init PROVE IInv
  OBVIOUS
<1>1. Closed \in Page
  BY DEF Closed, Page
<1>2. TypeOK
  BY <1>1 DEF Init, TypeOK
<1>3. AllGood /\ GuardOwned
  BY IdleFacts DEF Init, AllGood, GuardOwned
<1>4. Ledger
  BY DEF Init, Ledger
<1> QED
  BY <1>2, <1>3, <1>4 DEF IInv

LEMMA StutterHolds == IInv /\ UNCHANGED vars => IInv'
<1> SUFFICES ASSUME IInv, UNCHANGED vars PROVE IInv'
  OBVIOUS
<1>1. UNCHANGED <<hasLineItem, graded, grade, guarded, cached, call, page, taken, confirmed>>
  BY DEF vars
<1>2. Plain' /\ Ledger'
  BY <1>1, Parts DEF Plain, Ledger
<1> QED
  BY <1>1, <1>2, CallsStay

LEMMA NextHolds == IInv /\ Next => IInv'
<1> SUFFICES ASSUME IInv, Next PROVE IInv'
  OBVIOUS
<1>1. ASSUME NEW p \in Pages, NEW r \in Calls,
             OpenPage(p, r) \/ \E score \in Scores \cup {NoScore} : Send(p, r, score)
      PROVE  IInv'
  BY <1>1, OpenPageStep, SendStep
<1>2. ASSUME NEW r \in Calls, ServerStep(r) PROVE IInv'
  BY <1>2, AnswerSteps, AskForResultStep, DescribeSessionStep, SubmitStep, SettledSteps, HoldingSteps,
     SubmitFailsStep, SubmitTimesOutStep DEF ServerStep
<1>3. ASSUME NEW r \in Calls, LmsStep(r) PROVE IInv'
  BY <1>3, ResultReadStep, LmsTakesScoreStep, LmsRefusesScoreStep DEF LmsStep
<1>4. CASE \/ \E p \in Pages : LoseConnection(p)
           \/ \E g \in Scores : InstructorGrades(g)
           \/ ForgetResult \/ GradedChanges
  BY <1>4, WorldSteps
<1>5. CASE Restart
  BY <1>5, RestartStep
<1> QED
  BY <1>1, <1>2, <1>3, <1>4, <1>5 DEF Next

(* The inductive invariant: a request past its check holds the guard alone, *)
(* and what the LMS took or the backend confirmed is in the gradebook.      *)
THEOREM GradeInvariance == Spec => []IInv
<1>1. Init => IInv
  BY InitHolds
<1>2. IInv /\ [Next]_vars => IInv'
  BY NextHolds, StutterHolds
<1> QED
  BY <1>1, <1>2, PTL DEF Spec

(* Types, for any number of tabs and requests. *)
THEOREM GradeTypeCorrect == Spec => []TypeOK
<1>1. IInv => TypeOK
  BY DEF IInv
<1> QED
  BY <1>1, GradeInvariance, PTL

(* A learner's work is taken once, unless the backend gave up on an answer  *)
(* it did not hear (submission.js).                                         *)
THEOREM WorkIsTakenOnce == Spec => []OnceUnlessUnanswered
<1>1. IInv => OnceUnlessUnanswered
  BY DEF IInv, Ledger, OnceUnlessUnanswered
<1> QED
  BY <1>1, GradeInvariance, PTL

(* The in-flight guard is held by one submission and never left behind.     *)
THEOREM GuardIsOwned == Spec => []GuardHasOneOwner
<1>1. IInv => GuardHasOneOwner
  <2> SUFFICES ASSUME IInv PROVE GuardHasOneOwner
    OBVIOUS
  <2> DEFINE owners == {r \in Calls : call[r].step \in {"guard", "clear", "posting", "accepted", "refused"}}
  <2>1. \A r \in Calls : r \in owners <=> Owns(call[r])
    BY DEF Owns
  <2>2. guarded => \E r \in owners : owners = {r}
    BY <2>1, Parts DEF GuardOwned
  <2>3. ~guarded => owners = {}
    BY <2>1, Parts DEF GuardOwned
  <2> QED
    BY <2>2, <2>3 DEF GuardHasOneOwner
<1> QED
  BY <1>1, GradeInvariance, PTL

(* The Result cache never says "not submitted" after a confirmed submission *)
(* (grade-cache.js: a ticket from before an invalidation stores nothing).   *)
THEOREM CacheIsNotBehind == Spec => []CacheKnowsConfirmed
<1>1. IInv => CacheKnowsConfirmed
  BY DEF IInv, Ledger, CacheKnowsConfirmed
<1> QED
  BY <1>1, GradeInvariance, PTL

=============================================================================
