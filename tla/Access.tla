------------------------------- MODULE Access -------------------------------
(***************************************************************************)
(* Who may write to the catalog: publish keys and the bootstrap code, the  *)
(* counter of wrong codes of an address and of an author's uploads, and    *)
(* one tab of the admin panel, whose sign-in, restored session, route      *)
(* guards and calls are answered in any order.  Other people at the same   *)
(* address guess codes; other moderators issue and revoke keys.            *)
(***************************************************************************)
EXTENDS Naturals

CONSTANTS
    Keys,       \* ids of publish_keys rows that may be created
    Bootstrap,  \* ADMIN_TOKEN
    Wrong,      \* a code that is nobody's
    NoCode,     \* the empty string: no code in sessionStorage, no bearer
    Address,    \* the address the tab and the guessers share
    Calls,      \* the tab's requests that can be under way at once
    Limit,      \* AUTH_FAILURES_PER_WINDOW for the address, AUTHOR_UPLOADS_PER_HOUR for a key
    Window,     \* the length of a window of the counter
    MaxTime     \* bound on the clock

Codes == Keys \cup {Bootstrap, Wrong}
Subjects == {Address} \cup Keys
Times == 0..MaxTime

ASSUME AccessAssumption ==
    /\ Keys \cap {Bootstrap, Wrong, NoCode, Address} = {}
    /\ Bootstrap # Wrong /\ NoCode \notin {Bootstrap, Wrong}
    /\ "nobody" \notin Calls
    /\ Limit \in [Subjects -> Nat \ {0}] /\ Window \in Nat \ {0} /\ MaxTime \in Nat

VARIABLES
    keys,      \* publish_keys
    now,
    windows,   \* the counters' Map: none, or a count and the end of its window
    counted,   \* history: how many were let through by each time since the backend's start
    token,     \* AdminService._token, kept in sessionStorage
    user,      \* AdminSession._user: the code whose owner it names, or NoCode
    screen,    \* the open page
    nav,       \* a navigation held by its guard: where to, and the call the guard awaits
    calls,     \* the tab's requests
    crossed    \* history: an identity was restored after its code had been replaced

server == <<keys, now, windows, counted>>
tab == <<token, user, screen, nav, crossed>>
vars == <<server, tab, calls>>

Roles == {"author", "moderator"}
NoKey == [state |-> "absent", role |-> "author"]
Live(role) == [state |-> "live", role |-> role]
NoWindow == [count |-> 0, resetAt |-> 0]

Panel == {"panel", "access"}
Screens == {"elsewhere", "login"} \cup Panel
NoCall == [kind |-> "none", code |-> NoCode, key |-> NoCode, mine |-> FALSE, busy |-> FALSE, phase |-> "idle"]
Stay == [to |-> "none", asks |-> "nobody"]
To(page) == [to |-> page, asks |-> "nobody"]

TypeOK ==
    /\ keys \in [Keys -> [state : {"absent", "live", "revoked"}, role : Roles]]
    /\ now \in Times
    /\ windows \in [Subjects -> [count : Nat, resetAt : 0..(MaxTime + Window)]]
    /\ counted \in [Subjects -> [Times -> Nat]]
    /\ token \in (Codes \ {Wrong}) \cup {NoCode}
    /\ user \in (Codes \ {Wrong}) \cup {NoCode}
    /\ screen \in Screens
    /\ nav \in [to : Screens \cup {"none"}, asks : Calls \cup {"nobody"}]
    /\ calls \in [Calls -> [kind : {"none", "me", "signIn", "call", "issue", "revoke"},
                            code : Codes \cup {NoCode}, key : Keys \cup {NoCode}, mine : BOOLEAN, busy : BOOLEAN,
                            phase : {"idle", "sent", "let in", "ok", "rejected", "forbidden",
                                     "limited", "failed"}]]
    /\ crossed \in BOOLEAN

Init ==
    /\ keys = [k \in Keys |-> NoKey]
    /\ now = 0
    /\ windows = [s \in Subjects |-> NoWindow]
    /\ counted = [s \in Subjects |-> [t \in Times |-> 0]]
    /\ token = NoCode /\ user = NoCode
    /\ screen = "elsewhere" /\ nav = Stay
    /\ calls = [r \in Calls |-> NoCall]
    /\ crossed = FALSE

-----------------------------------------------------------------------------
(* The counter (rate-limits.js). *)

Current(s) ==
    IF windows[s].resetAt <= now THEN [count |-> 0, resetAt |-> now + Window] ELSE windows[s]

(* Slip: one more than the limit. *)
HasRoomForOneMore(s) == Current(s).count <= Limit[s]

HasRoom(s) == Current(s).count < Limit[s]

(* consume: an exhausted window counts nothing further. *)
Consumed(s) ==
    /\ HasRoom(s)
    /\ windows' = [windows EXCEPT ![s] = [Current(s) EXCEPT !.count = @ + 1]]
    /\ counted' = [counted EXCEPT ![s] = [t \in Times |-> counted[s][t] + IF t < now THEN 0 ELSE 1]]

Exhausted(s) ==
    /\ ~HasRoom(s)
    /\ windows' = [windows EXCEPT ![s] = Current(s)]
    /\ UNCHANGED counted

-----------------------------------------------------------------------------
(* The server's part of a request (auth.js, routes/keys.js). *)

Valid(code) == code = Bootstrap \/ (code \in Keys /\ keys[code].state = "live")

RoleOf(code) == IF code = Bootstrap THEN "moderator" ELSE keys[code].role

IsAuthor(code) == RoleOf(code) = "author"

Reached(r, phase) == calls' = [calls EXCEPT ![r].phase = phase]

(* A code that resolves to no principal: counted, and 429 once the address is over. *)
IsWrong(r) ==
    /\ calls[r].phase = "sent"
    /\ calls[r].code # NoCode /\ ~Valid(calls[r].code)
    /\ \/ Consumed(Address) /\ Reached(r, "rejected")
       \/ Exhausted(Address) /\ Reached(r, "limited")
    /\ UNCHANGED <<keys, now, tab>>

(* requireRole; some routes and rows are a moderator's, some anybody's with a key. *)
Allowed(r) ==
    CASE calls[r].kind \in {"me", "signIn"} -> {"ok"}
      [] calls[r].kind \in {"issue", "revoke"} -> {IF IsAuthor(calls[r].code) THEN "forbidden" ELSE "let in"}
      [] OTHER -> IF IsAuthor(calls[r].code) THEN {"ok", "forbidden"} ELSE {"ok"}

(* The principal is resolved before anything is counted for the address. *)
IsValid(r) ==
    /\ calls[r].phase = "sent" /\ Valid(calls[r].code)
    /\ \E phase \in Allowed(r) : Reached(r, phase)
    /\ UNCHANGED <<server, tab>>

(* limitAuthorUploads on the archive routes, before the body is read: per key, authors only. *)
LimitsUploads(r) ==
    /\ calls[r].phase = "sent" /\ calls[r].kind = "call"
    /\ Valid(calls[r].code) /\ IsAuthor(calls[r].code)
    /\ \/ Consumed(calls[r].code) /\ Reached(r, "ok")
       \/ Exhausted(calls[r].code) /\ Reached(r, "limited")
    /\ UNCHANGED <<keys, now, tab>>

(* No bearer at all: 401. *)
HasNoCode(r) ==
    /\ calls[r].phase = "sent" /\ calls[r].code = NoCode
    /\ Reached(r, "rejected")
    /\ UNCHANGED <<server, tab>>

Issued(k, role) == keys[k] = NoKey /\ keys' = [keys EXCEPT ![k] = Live(role)]

(* The first revocation time is kept: a second one changes nothing. *)
Revoked(k) == keys[k] # NoKey /\ keys' = [keys EXCEPT ![k].state = "revoked"]

(* POST /api/keys and .../revoke past their authorization: one transaction each. *)
IsDone(r) ==
    /\ calls[r].phase = "let in"
    /\ \/ calls[r].kind = "issue" /\ \E k \in Keys, role \in Roles : Issued(k, role)
       \/ calls[r].kind = "revoke" /\ Revoked(calls[r].key)
    /\ Reached(r, "ok")
    /\ UNCHANGED <<now, windows, counted, tab>>

(* A 500, or the answer does not arrive. *)
Fails(r) ==
    /\ calls[r].phase \in {"sent", "let in", "ok"}
    /\ Reached(r, "failed")
    /\ UNCHANGED <<server, tab>>

IssuedElsewhere(k, role) ==
    /\ Issued(k, role)
    /\ UNCHANGED <<now, windows, counted, tab, calls>>

RevokedElsewhere(k) ==
    /\ keys[k].state = "live"
    /\ Revoked(k)
    /\ UNCHANGED <<now, windows, counted, tab, calls>>

(* Somebody else at the address, on an admin route (403) or a public one (anonymous). *)
WrongCodeElsewhere ==
    /\ Consumed(Address) \/ Exhausted(Address)
    /\ UNCHANGED <<keys, now, tab, calls>>

Tick ==
    /\ now < MaxTime
    /\ now' = now + 1
    /\ UNCHANGED <<keys, windows, counted, tab, calls>>

(* The counters live in memory. *)
BackendRestart ==
    /\ windows' = [s \in Subjects |-> NoWindow]
    /\ counted' = [s \in Subjects |-> [t \in Times |-> 0]]
    /\ calls' = [r \in Calls |-> IF calls[r].phase \in {"sent", "let in"}
                                 THEN [calls[r] EXCEPT !.phase = "failed"] ELSE calls[r]]
    /\ UNCHANGED <<keys, now, tab>>

-----------------------------------------------------------------------------
(* The tab's requests and its pages.  A page that is left takes its busy flag with it. *)

Call(kind, code) == [NoCall EXCEPT !.kind = kind, !.code = code, !.phase = "sent"]

Sent(r, call) == calls[r] = NoCall /\ calls' = [calls EXCEPT ![r] = call]

Busy == \E r \in Calls : calls[r].busy

PageLeft(cs) == IF screen' = screen THEN cs ELSE [r \in Calls |-> [cs[r] EXCEPT !.busy = FALSE]]

(* AdminSession.user: none without a code, whatever _user still holds. *)
Shown(code, who) == IF code = NoCode THEN NoCode ELSE who

(* What the guards make of restore()'s answer: a page, or another navigation. *)
Decided(ok) ==
    LET open == IF nav.to = "access" /\ (Shown(token', user') = NoCode \/ RoleOf(user') = "author")
                THEN "panel" ELSE nav.to
    IN CASE nav.to = "login" /\ ok  -> screen' = screen /\ nav' = To("panel")
         [] nav.to = "login" /\ ~ok -> screen' = "login" /\ nav' = Stay
         [] nav.to \in Panel /\ ~ok -> screen' = screen /\ nav' = To("login")
         [] OTHER -> \* the shell's effect sends a page without a code to sign-in
                     /\ screen' = open
                     /\ nav' = IF token' = NoCode THEN To("login") ELSE Stay

(* The same effect when the code goes while a page of the panel is open. *)
StaysUnlessSignedOut ==
    /\ screen' = screen
    /\ nav' = IF token' = NoCode /\ token # NoCode /\ screen \in Panel THEN To("login") ELSE nav

Visit(page) ==
    /\ nav.to # page /\ screen # page
    /\ IF page = "elsewhere" THEN screen' = page /\ nav' = Stay
                             ELSE screen' = screen /\ nav' = To(page)
    /\ calls' = PageLeft(calls)
    /\ UNCHANGED <<server, token, user, crossed>>

(* A guard runs restore(), which knows the answer without a code or with an identity. *)
GuardKnows ==
    /\ nav # Stay /\ nav.asks = "nobody"
    /\ token = NoCode \/ user # NoCode
    /\ UNCHANGED <<server, token, user, crossed>>
    /\ Decided(token # NoCode)
    /\ calls' = PageLeft(calls)

GuardAsks(r) ==
    /\ nav # Stay /\ nav.asks = "nobody"
    /\ token # NoCode /\ user = NoCode
    /\ Sent(r, Call("me", token))
    /\ nav' = [nav EXCEPT !.asks = r]
    /\ UNCHANGED <<server, token, user, screen, crossed>>

SubmitCode(r, code) ==
    /\ screen = "login" /\ ~Busy
    /\ code \in Keys => keys[code] # NoKey
    /\ Sent(r, [Call("signIn", code) EXCEPT !.busy = TRUE])
    /\ UNCHANGED <<server, tab>>

PanelCalls(r) ==
    /\ screen \in Panel
    /\ Sent(r, Call("call", token))
    /\ UNCHANGED <<server, tab>>

IssueKey(r) ==
    /\ screen = "access" /\ ~Busy
    /\ Sent(r, [Call("issue", token) EXCEPT !.busy = TRUE])
    /\ UNCHANGED <<server, tab>>

(* The row's "this is you" is of the identity shown when the button is pressed. *)
RevokeKey(r, k) ==
    /\ screen = "access" /\ ~Busy
    /\ keys[k] # NoKey
    /\ Sent(r, [Call("revoke", token) EXCEPT !.key = k, !.mine = Shown(token, user) = k, !.busy = TRUE])
    /\ UNCHANGED <<server, tab>>

-----------------------------------------------------------------------------
(* Answers.  AdminApi.call ends the session first, whoever awaits the call. *)

IsAnswered(r) == calls[r].phase \in {"ok", "rejected", "forbidden", "limited", "failed"}

(* isCredentialRejection, and the slip that any 403 is one. *)
AnyRefusal(r) == calls[r].phase \in {"rejected", "forbidden"}
IsCredentialRejection(r) == calls[r].phase = "rejected"

(* endSession leaves _user as it was; signOut does not. *)
EndSession == token' = NoCode /\ UNCHANGED <<user, crossed>>
SignedOut == token' = NoCode /\ user' = NoCode /\ UNCHANGED crossed

KeptOrEnded(r) == IF IsCredentialRejection(r) THEN EndSession ELSE UNCHANGED <<token, user, crossed>>

Closed(r) == PageLeft([calls EXCEPT ![r] = NoCall])

(* Slip: the code is kept and the identity that was there stays. *)
CodeKept(code) == token' = code /\ UNCHANGED <<user, crossed>>

SignedIn(code) == token' = code /\ user' = code /\ crossed' = FALSE

(* A sign-in names its code, so its failure ends nothing. *)
SignInAnswered(r) ==
    /\ IsAnswered(r) /\ calls[r].kind = "signIn"
    /\ IF calls[r].phase = "ok" THEN SignedIn(calls[r].code) /\ nav' = To("panel")
                                ELSE UNCHANGED <<token, user, crossed, nav>>
    /\ UNCHANGED <<server, screen>>
    /\ calls' = Closed(r)

(* restore() after its answer, then the guard if it still waits for this one. *)
RestoreAnswered(r) ==
    /\ IsAnswered(r) /\ calls[r].kind = "me"
    /\ IF calls[r].phase = "ok"
       THEN /\ user' = calls[r].code
            /\ crossed' = (crossed \/ calls[r].code # token)
            /\ UNCHANGED token
       ELSE KeptOrEnded(r)
    /\ IF nav.asks = r THEN Decided(calls[r].phase = "ok") ELSE StaysUnlessSignedOut
    /\ UNCHANGED server
    /\ calls' = Closed(r)

CallAnswered(r) ==
    /\ IsAnswered(r) /\ calls[r].kind = "call"
    /\ KeptOrEnded(r)
    /\ StaysUnlessSignedOut
    /\ UNCHANGED server
    /\ calls' = Closed(r)

(* The list of keys is fetched again, and the form is busy until it came. *)
IssueAnswered(r) ==
    /\ IsAnswered(r) /\ calls[r].kind = "issue"
    /\ KeptOrEnded(r)
    /\ StaysUnlessSignedOut
    /\ UNCHANGED server
    /\ calls' = IF calls[r].phase = "ok"
                THEN [calls EXCEPT ![r] = [Call("call", token) EXCEPT !.busy = calls[r].busy]]
                ELSE Closed(r)

(* Revoking the key this session signed in with ends the session. *)
RevokeAnswered(r) ==
    /\ IsAnswered(r) /\ calls[r].kind = "revoke"
    /\ IF calls[r].phase = "ok" /\ calls[r].mine THEN SignedOut ELSE KeptOrEnded(r)
    /\ StaysUnlessSignedOut
    /\ UNCHANGED server
    /\ calls' = IF calls[r].phase = "ok" /\ ~calls[r].mine
                THEN [calls EXCEPT ![r] = Call("call", token)]
                ELSE Closed(r)

SignOut ==
    /\ screen \in Panel /\ token # NoCode
    /\ SignedOut
    /\ StaysUnlessSignedOut
    /\ UNCHANGED <<server, calls>>

(* sessionStorage survives, the identity and the page's requests do not. *)
Reload ==
    /\ screen # "elsewhere" \/ nav # Stay
    /\ user' = NoCode /\ crossed' = FALSE
    /\ screen' = "elsewhere"
    /\ nav' = IF nav # Stay THEN To(nav.to) ELSE To(screen)
    /\ calls' = [r \in Calls |-> NoCall]
    /\ UNCHANGED <<server, token>>

-----------------------------------------------------------------------------
Server(r) == IsWrong(r) \/ IsValid(r) \/ LimitsUploads(r) \/ HasNoCode(r) \/ IsDone(r) \/ Fails(r)

Answered(r) ==
    \/ SignInAnswered(r) \/ RestoreAnswered(r) \/ CallAnswered(r)
    \/ IssueAnswered(r) \/ RevokeAnswered(r)

Next ==
    \/ \E r \in Calls :
          \/ Server(r) \/ Answered(r) \/ GuardAsks(r) \/ PanelCalls(r) \/ IssueKey(r)
          \/ \E code \in Codes : SubmitCode(r, code)
          \/ \E k \in Keys : RevokeKey(r, k)
    \/ \E page \in Screens : Visit(page)
    \/ GuardKnows \/ SignOut \/ Reload
    \/ \E k \in Keys : RevokedElsewhere(k) \/ \E role \in Roles : IssuedElsewhere(k, role)
    \/ WrongCodeElsewhere \/ Tick \/ BackendRestart

Spec == Init /\ [][Next]_vars

-----------------------------------------------------------------------------
Before(s, t) == IF t = 0 THEN 0 ELSE counted[s][t - 1]

(* Fixed windows let less than twice the limit through in any span as long  *)
(* as a window, even across two windows, and the wrong codes of an address  *)
(* never turn away a right one (auth.js: a valid key is never limited).     *)
GuessesAreBounded ==
    /\ \A s \in Subjects : \A t, u \in Times :
          t <= u /\ u < t + Window => counted[s][u] < Before(s, t) + 2 * Limit[s]
    /\ \A r \in Calls : calls[r].phase = "limited" /\ Valid(calls[r].code) =>
                            calls[r].kind = "call" /\ IsAuthor(calls[r].code)

(* The panel shows the person whose code its calls carry: after a rejected  *)
(* code, a new sign-in, a reload, in any order of the answers.  Only an     *)
(* identity asked for with one code and answered after a sign-in with       *)
(* another can say otherwise (restore does not look at the code again).     *)
IdentityIsTheCodes == Shown(token, user) # NoCode => user = token \/ crossed

(* What may take the code away: signing out of the panel, a code that is no *)
(* longer good, or an answer to a request of an earlier session or to the   *)
(* revocation of a key taken for the session's own.                         *)
EndsForAReason ==
    \/ SignOut
    \/ ~Valid(token)
    \/ \E r \in Calls : /\ calls[r].code # token \/ (calls[r].mine /\ calls[r].key # token)
                        /\ calls'[r] = NoCall

(* A session ends by signing out or because its code is no longer good; an  *)
(* action that is refused, a limit or an outage leaves the user signed in.  *)
SessionsEndForAReason == [][token # NoCode /\ token' = NoCode => EndsForAReason]_vars

=============================================================================
