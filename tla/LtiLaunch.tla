----------------------------- MODULE LtiLaunch -----------------------------
(***************************************************************************)
(* The platform as an LTI 1.3 tool (backend/lti): registration, the login  *)
(* that mints a one-time state, the launch that turns a signed token into  *)
(* a session, and the teacher's session that picks a scenario for a course *)
(* (Deep Linking); handing in work is GradePassback's.  A jar is what      *)
(* cookies share: one browser within one embedding site, with any number   *)
(* of tabs.  The LMS is external: it answers a login when it likes.        *)
(***************************************************************************)
EXTENDS Integers, Sequences, FiniteSets

CONSTANTS
    Clients, Deployments, Jars, Scenarios,
    Logins,      \* a login's state, nonce and state cookie are one fresh name
    StateTtl,    \* lifetime of a state and greatest age of a token
    SessionTtl,
    MaxTime,     \* bound on the clock
    MaxHandshakes, \* bound on registrations under way at once
    NoOne        \* no client, no login, no scenario

ASSUME LtiAssumption ==
    /\ StateTtl \in Nat \ {0} /\ SessionTtl \in Nat \ {0} /\ MaxTime \in Nat /\ MaxHandshakes \in Nat
    /\ NoOne \notin Clients \cup Logins \cup Scenarios \cup [jar : Jars, client : Clients]

VARIABLES
    now,
    handshakes,   \* registrations the LMS has confirmed and the tool has not stored yet
    registration, \* lti_registrations: client -> its deployments, {} for no row
    published,    \* scenarios the public catalog shows
    states,       \* lti_states: login -> row, or NoState
    sessions,     \* lti_sessions, in the order of their creation
    jar,          \* cookies: the states of logins begun there, and lti_session
    token,        \* login -> the id_token the LMS minted for it, or NoToken
    launches,     \* POST /launch between its awaits
    pages,        \* tabs at /play?lti=1 or /lti/pick: jar and launching session
    picked,       \* scenarios the LMS has an activity for
    begun         \* history: login -> where and for whom it was begun

rowVars == <<registration, states, sessions>>
lmsVars == <<handshakes, token, picked>>
browserVars == <<jar, pages>>
vars == <<now, rowVars, published, lmsVars, browserVars, launches, begun>>

NoState == [client |-> NoOne, expires |-> 0]
NoToken == [kind |-> "none", deployment |-> NoOne, scenario |-> NoOne, iat |-> 0]

Init ==
    /\ now = 0
    /\ handshakes = {}
    /\ registration = [c \in Clients |-> {}]
    /\ published = Scenarios
    /\ states = [l \in Logins |-> NoState]
    /\ sessions = <<>>
    /\ jar = [j \in Jars |-> [states |-> {}, session |-> 0]]
    /\ token = [l \in Logins |-> NoToken]
    /\ launches = {}
    /\ pages = {}
    /\ picked = {}
    /\ begun = [l \in Logins |-> NoOne]

(* expires_at > NOW() *)
IsLive(row) == row.client # NoOne /\ row.expires > now

IsLiveSession(i) == i \in DOMAIN sessions /\ sessions[i].expires > now

-----------------------------------------------------------------------------

Tick ==
    /\ now < MaxTime
    /\ now' = now + 1
    /\ UNCHANGED <<rowVars, published, lmsVars, browserVars, launches, begun>>

(* registerTool up to the answer of the LMS, which gives the tool a client id and a deployment. *)
RegisterTool(c, d) ==
    /\ Cardinality(handshakes) < MaxHandshakes
    /\ handshakes' = handshakes \cup {[client |-> c, deployment |-> d]}
    /\ UNCHANGED <<now, rowVars, published, token, picked, browserVars, launches, begun>>

(* saveRegistration refreshes the row of a client: its one deployment replaces the old ones. *)
SaveRegistration(h) ==
    /\ handshakes' = handshakes \ {h}
    /\ registration' = [registration EXCEPT ![h.client] = {h.deployment}]
    /\ UNCHANGED <<now, states, sessions, published, token, picked, browserVars, launches, begun>>

(* The answer is lost, too long or not JSON, or the row cannot be written: the LMS is not told. *)
RegistrationFails(h) ==
    /\ handshakes' = handshakes \ {h}
    /\ UNCHANGED <<now, rowVars, published, token, picked, browserVars, launches, begun>>

(* A scenario is withdrawn from the catalog, or comes back. *)
Republish(s) ==
    /\ published' = IF s \in published THEN published \ {s} ELSE published \cup {s}
    /\ UNCHANGED <<now, rowVars, lmsVars, browserVars, launches, begun>>

(* findRegistrationForLogin: by client_id, else the only one there is. *)
FoundForLogin(named) ==
    LET known == {c \in Clients : registration[c] # {}}
    IN  IF named # NoOne THEN known \cap {named}
        ELSE IF \E c \in known : known = {c} THEN known ELSE {}

(* Slip: the cleanup of a login takes the others' states along. *)
CleanedOfAll == [l \in Logins |-> NoState]

(* deleteExpired; an error in it is logged and the login goes on. *)
Cleaned == [l \in Logins |-> IF IsLive(states[l]) THEN states[l] ELSE NoState]

(* initiateLogin: a state, and a cookie of its own in the jar that asked. *)
Login(j, l, named) ==
    /\ begun[l] = NoOne
    /\ \E c \in FoundForLogin(named), rows \in {Cleaned, states} :
          /\ states' = [rows EXCEPT ![l] = [client |-> c, expires |-> now + StateTtl]]
          /\ begun' = [begun EXCEPT ![l] = [jar |-> j, client |-> c]]
    /\ jar' = [jar EXCEPT ![j].states = @ \cup {l}]
    /\ UNCHANGED <<now, registration, sessions, published, lmsVars, pages, launches>>

(* The LMS signs the learner in for an activity, or a teacher who picks one. *)
MintToken(l, d) ==
    /\ begun[l] # NoOne /\ token[l] = NoToken
    /\ \E kind \in {"resource", "deep-link"}, s \in picked \cup {NoOne} :
          /\ (kind = "resource") <=> (s # NoOne)
          /\ token' = [token EXCEPT ![l] = [kind |-> kind, deployment |-> d, scenario |-> s, iat |-> now]]
    /\ UNCHANGED <<now, rowVars, published, handshakes, picked, browserVars, launches, begun>>

-----------------------------------------------------------------------------
(* completeLaunch. *)

IsFromThisBrowser(j, l) == l \in jar[j].states

(* Slip: the row is read and left for the cleanup to take. *)
StateRead(l) == states

StateTaken(l) == [states EXCEPT ![l] = NoState]

(* The cookie is looked at first; then the row is taken, once and while it is live. *)
ConsumeState(j, l) ==
    /\ token[l] # NoToken
    /\ IsFromThisBrowser(j, l)
    /\ IsLive(states[l])
    /\ states' = StateTaken(l)
    /\ launches' = launches \cup
          {[login |-> l, jar |-> j, client |-> states[l].client, step |-> "consumed",
            deployments |-> {}, session |-> 0]}
    /\ UNCHANGED <<now, registration, sessions, published, lmsVars, browserVars, begun>>

Goes(x, y) == launches' = (launches \ {x}) \cup {y}

(* The registration is read before the keys of the LMS are fetched. *)
ReadRegistration(x) ==
    /\ x.step = "consumed" /\ registration[x.client] # {}
    /\ Goes(x, [x EXCEPT !.step = "verifying", !.deployments = registration[x.client]])
    /\ UNCHANGED <<now, rowVars, published, lmsVars, browserVars, begun>>

(* Slip: a deployment is taken on the word of the token. *)
AcceptsAnyDeployment(x, t) == t.iat >= now - StateTtl

(* The claims that tell good tokens apart: when they were issued and for which deployment. *)
Accepts(x, t) == t.iat >= now - StateTtl /\ t.deployment \in x.deployments

SaveSession(x) ==
    LET t == token[x.login] IN
    /\ x.step = "verifying" /\ Accepts(x, t)
    /\ sessions' = Append(sessions,
          [login |-> x.login, jar |-> x.jar, client |-> x.client, kind |-> t.kind,
           deployment |-> t.deployment, scenario |-> t.scenario, age |-> now - t.iat,
           known |-> x.deployments, expires |-> now + SessionTtl])
    /\ Goes(x, [x EXCEPT !.step = "saved", !.session = Len(sessions')])
    /\ UNCHANGED <<now, registration, states, published, lmsVars, browserVars, begun>>

(* Refused, the LMS's keys out of reach, or the database: the state stays consumed. *)
LaunchFails(x) ==
    /\ x.step # "saved"
    /\ launches' = launches \ {x}
    /\ UNCHANGED <<now, rowVars, published, lmsVars, browserVars, begun>>

(* The answer reaches the browser: the session cookie is one per jar, and a tab opens. *)
LaunchAnswered(x) ==
    /\ x.step = "saved"
    /\ launches' = launches \ {x}
    /\ jar' = [jar EXCEPT ![x.jar].session = x.session, ![x.jar].states = @ \ {x.login}]
    /\ pages' = pages \cup {[jar |-> x.jar, session |-> x.session]}
    /\ UNCHANGED <<now, rowVars, published, lmsVars, begun>>

(* The process stops: nothing in flight is finished. *)
Restart ==
    /\ launches # {} \/ handshakes # {}
    /\ launches' = {} /\ handshakes' = {}
    /\ UNCHANGED <<now, rowVars, published, token, picked, browserVars, begun>>

-----------------------------------------------------------------------------
(* What the session cookie is good for (requireLtiSession). *)

MayPick(i) == IsLiveSession(i) /\ sessions[i].kind = "deep-link" /\ registration[sessions[i].client] # {}

(* POST /deep-link: the LMS gets an activity for a scenario that is published now. *)
DeepLink(p, s) ==
    /\ MayPick(jar[p.jar].session)
    /\ s \in published
    /\ picked' = picked \cup {s}
    /\ pages' = pages \ {p}
    /\ UNCHANGED <<now, rowVars, published, handshakes, token, jar, launches, begun>>

LaunchNext ==
    \E x \in launches : ReadRegistration(x) \/ SaveSession(x) \/ LaunchFails(x) \/ LaunchAnswered(x)

Next ==
    \/ Tick \/ Restart
    \/ \E c \in Clients, d \in Deployments : RegisterTool(c, d)
    \/ \E h \in handshakes : SaveRegistration(h) \/ RegistrationFails(h)
    \/ \E s \in Scenarios : Republish(s)
    \/ \E j \in Jars, l \in Logins :
          \/ \E named \in Clients \cup {NoOne} : Login(j, l, named)
          \/ ConsumeState(j, l)
    \/ \E l \in Logins, d \in Deployments : MintToken(l, d)
    \/ LaunchNext
    \/ \E p \in pages, s \in Scenarios : DeepLink(p, s)

Spec == Init /\ [][Next]_vars

-----------------------------------------------------------------------------

TypeOK ==
    /\ now \in 0..MaxTime
    /\ registration \in [Clients -> SUBSET Deployments]
    /\ \A l \in Logins : states[l] = NoState \/ states[l].client \in Clients
    /\ \A x \in launches : x.login \in Logins /\ x.jar \in Jars /\ x.client \in Clients
    /\ \A j \in Jars : jar[j].states \subseteq Logins /\ jar[j].session \in 0..Len(sessions)
    /\ picked \subseteq Scenarios

(***************************************************************************)
(* A login is good for one session: a form posted twice, by Back or a      *)
(* double click, while the first post is still being verified, after it    *)
(* failed or after a restart, buys nothing.                                *)
(***************************************************************************)
OneSessionPerLogin ==
    \A l \in Logins :
        /\ \A i, k \in DOMAIN sessions : sessions[i].login = l /\ sessions[k].login = l => i = k
        /\ (\E i \in DOMAIN sessions : sessions[i].login = l) => states[l] = NoState

(***************************************************************************)
(* A session belongs to the browser and the registration its login was     *)
(* begun with, and to a deployment that the registration listed when the   *)
(* launch read it; its token was not older than a login may be - although  *)
(* the registration is replaced and time passes while keys are fetched.    *)
(***************************************************************************)
SessionFollowsItsLogin ==
    \A i \in DOMAIN sessions :
        LET s == sessions[i] IN
        /\ begun[s.login] = [jar |-> s.jar, client |-> s.client]
        /\ s.deployment \in s.known
        /\ s.age <= StateTtl

(***************************************************************************)
(* Two tabs launching at once do not clobber each other's login            *)
(* (launch.js 192): a state that is still good disappears only because its *)
(* own launch took it, and its cookie only with the answer of that launch. *)
(***************************************************************************)
LoginsDoNotClobber ==
    [][\A l \in Logins :
          /\ IsLive(states[l]) /\ states'[l] # states[l]
                => states'[l] = NoState /\ \E x \in launches' \ launches : x.login = l
          /\ \A j \in Jars : l \in jar[j].states \ jar'[j].states
                => \E x \in launches \ launches' : x.login = l /\ x.session # 0]_vars

=============================================================================
