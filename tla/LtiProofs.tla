------------------------------ MODULE LtiProofs ------------------------------
(***************************************************************************)
(* Theorems about LtiLaunch, for any clients, deployments, jars, logins    *)
(* and lifetimes: a login is good for one session, the session is the one  *)
(* its login was begun for, and logins do not clobber each other.          *)
(***************************************************************************)
EXTENDS LtiLaunch, TLAPS

StateRows == {NoState} \cup [client : Clients, expires : Int]
Beginnings == {NoOne} \cup [jar : Jars, client : Clients]
TokenRows ==
    [kind : {"none", "resource", "deep-link"}, deployment : Deployments \cup {NoOne},
     scenario : Scenarios \cup {NoOne}, iat : Int]
LaunchRows ==
    [login : Logins, jar : Jars, client : Clients, step : {"consumed", "verifying", "saved"},
     deployments : SUBSET Deployments, session : Nat]
SessionRows ==
    [login : Logins, jar : Jars, client : Clients, kind : {"none", "resource", "deep-link"},
     deployment : Deployments \cup {NoOne}, scenario : Scenarios \cup {NoOne}, age : Int,
     known : SUBSET Deployments, expires : Int]

Types ==
    /\ now \in 0..MaxTime
    /\ registration \in [Clients -> SUBSET Deployments]
    /\ handshakes \subseteq [client : Clients, deployment : Deployments]
    /\ states \in [Logins -> StateRows]
    /\ sessions \in Seq(SessionRows)
    /\ jar \in [Jars -> [states : SUBSET Logins, session : Nat]]
    /\ token \in [Logins -> TokenRows]
    /\ launches \subseteq LaunchRows
    /\ begun \in [Logins -> Beginnings]
    /\ picked \subseteq Scenarios

(* A state and a cookie exist only for a login that was begun, where it was begun. *)
StatesAreBegun ==
    \A l \in Logins : states[l] # NoState => begun[l] # NoOne /\ begun[l].client = states[l].client

CookiesAreBegun ==
    \A j \in Jars : \A l \in jar[j].states : begun[l] # NoOne /\ begun[l].jar = j

(* A launch under way has taken its state, and no other launch has its login. *)
LaunchesHoldTheirLogin ==
    /\ \A x \in launches :
          /\ begun[x.login] = [jar |-> x.jar, client |-> x.client]
          /\ states[x.login] = NoState
          /\ x.step = "saved" => x.session \in 1..Len(sessions)
    /\ \A x, y \in launches : x.login = y.login => x = y

(* A session has taken its state too; a launch that has none yet has not saved one. *)
SessionsHoldTheirLogin ==
    /\ \A i \in DOMAIN sessions :
          /\ begun[sessions[i].login] = [jar |-> sessions[i].jar, client |-> sessions[i].client]
          /\ states[sessions[i].login] = NoState
          /\ sessions[i].deployment \in sessions[i].known
          /\ sessions[i].age <= StateTtl
    /\ \A i, k \in DOMAIN sessions : sessions[i].login = sessions[k].login => i = k
    /\ \A x \in launches, i \in DOMAIN sessions : sessions[i].login = x.login => x.step = "saved"

CookiesAreSessions == \A j \in Jars : jar[j].session \in 0..Len(sessions)

IInv ==
    /\ Types
    /\ StatesAreBegun /\ CookiesAreBegun
    /\ LaunchesHoldTheirLogin /\ SessionsHoldTheirLogin /\ CookiesAreSessions

-----------------------------------------------------------------------------

LEMMA NoStateIsNoClient == NoState \notin [client : Clients, expires : Int]
BY LtiAssumption DEF NoState

(* What a row, a beginning and a login are, in the terms of the invariant. *)
LEMMA LiveRows ==
    ASSUME Types, NEW l \in Logins, IsLive(states[l])
    PROVE  /\ states[l] # NoState
           /\ states[l].client \in Clients
BY LtiAssumption DEF Types, StateRows, NoState, IsLive

LEMMA BegunIsRecord ==
    ASSUME Types, NEW l \in Logins, begun[l] # NoOne
    PROVE  /\ begun[l] \in [jar : Jars, client : Clients]
           /\ begun[l] = [jar |-> begun[l].jar, client |-> begun[l].client]
BY DEF Types, Beginnings

(* What the members of the sets are. *)
LEMMA Members ==
    ASSUME Types
    PROVE  /\ \A x \in launches : x \in LaunchRows /\ x.login \in Logins /\ x.jar \in Jars /\ x.client \in Clients
           /\ \A i \in DOMAIN sessions : sessions[i] \in SessionRows
           /\ \A i \in DOMAIN sessions :
                 sessions[i].login \in Logins /\ sessions[i].jar \in Jars /\ sessions[i].client \in Clients
           /\ \A j \in Jars : jar[j] \in [states : SUBSET Logins, session : Nat]
<1>1. \A x \in launches : x \in LaunchRows /\ x.login \in Logins /\ x.jar \in Jars /\ x.client \in Clients
  BY DEF Types, LaunchRows
<1>2. \A i \in DOMAIN sessions : sessions[i] \in SessionRows
  BY DEF Types
<1>3. \A i \in DOMAIN sessions :
          sessions[i].login \in Logins /\ sessions[i].jar \in Jars /\ sessions[i].client \in Clients
  BY <1>2 DEF SessionRows
<1> QED
  BY <1>1, <1>2, <1>3 DEF Types

(* A login nobody has begun has nothing anywhere. *)
LEMMA UnbegunIsFree ==
    ASSUME IInv, NEW l \in Logins, begun[l] = NoOne
    PROVE  /\ states[l] = NoState
           /\ \A j \in Jars : l \notin jar[j].states
           /\ \A x \in launches : x.login # l
           /\ \A i \in DOMAIN sessions : sessions[i].login # l
<1>1. states[l] = NoState
  BY DEF IInv, StatesAreBegun
<1>2. \A j \in Jars : l \notin jar[j].states
  BY DEF IInv, CookiesAreBegun
<1>3. \A x \in launches : [jar |-> x.jar, client |-> x.client] \in [jar : Jars, client : Clients]
  BY DEF IInv, Types, LaunchRows
<1>a. NoOne \notin [jar : Jars, client : Clients]
  BY LtiAssumption
<1>4. \A x \in launches : x.login # l
  <2>1. \A x \in launches : begun[x.login] = [jar |-> x.jar, client |-> x.client]
    BY DEF IInv, LaunchesHoldTheirLogin
  <2> QED
    BY <1>3, <1>a, <2>1, Zenon
<1>5. \A i \in DOMAIN sessions : sessions[i] \in SessionRows
  BY DEF IInv, Types
<1>6. \A i \in DOMAIN sessions : [jar |-> sessions[i].jar, client |-> sessions[i].client] \in [jar : Jars, client : Clients]
  BY <1>5 DEF SessionRows
<1>7. \A i \in DOMAIN sessions : sessions[i].login # l
  <2>1. \A i \in DOMAIN sessions :
            begun[sessions[i].login] = [jar |-> sessions[i].jar, client |-> sessions[i].client]
    BY DEF IInv, SessionsHoldTheirLogin
  <2> QED
    BY <1>6, <1>a, <2>1, Zenon
<1> QED
  BY <1>1, <1>2, <1>4, <1>7

LEMMA InitHolds == Init => IInv
<1> SUFFICES ASSUME Init PROVE IInv
  OBVIOUS
<1>1. Types
  BY LtiAssumption DEF Init, Types, StateRows, Beginnings, TokenRows, NoToken
<1>2. StatesAreBegun /\ CookiesAreBegun
  BY DEF Init, StatesAreBegun, CookiesAreBegun
<1>3. LaunchesHoldTheirLogin /\ SessionsHoldTheirLogin
  BY DEF Init, LaunchesHoldTheirLogin, SessionsHoldTheirLogin
<1>4. CookiesAreSessions
  BY DEF Init, CookiesAreSessions
<1> QED
  BY <1>1, <1>2, <1>3, <1>4 DEF IInv

-----------------------------------------------------------------------------
(* Steps that leave states, sessions, jars, launches and beginnings alone. *)

LEMMA QuietStep ==
    ASSUME IInv, Types',
           states' = states, sessions' = sessions, jar' = jar, begun' = begun,
           launches' \subseteq launches
    PROVE  IInv'
<1>1. StatesAreBegun' /\ CookiesAreBegun' /\ CookiesAreSessions'
  BY DEF IInv, StatesAreBegun, CookiesAreBegun, CookiesAreSessions
<1>2. LaunchesHoldTheirLogin'
  BY DEF IInv, LaunchesHoldTheirLogin
<1>3. SessionsHoldTheirLogin'
  BY DEF IInv, SessionsHoldTheirLogin
<1> QED
  BY <1>1, <1>2, <1>3 DEF IInv

LEMMA LoginStep ==
    ASSUME IInv, NEW j \in Jars, NEW l \in Logins, NEW named \in Clients \cup {NoOne}, Login(j, l, named)
    PROVE  IInv'
<1> USE DEF IInv
<1>1. /\ states[l] = NoState
      /\ \A h \in Jars : l \notin jar[h].states
      /\ \A x \in launches : x.login # l
      /\ \A i \in DOMAIN sessions : sessions[i].login # l
  BY UnbegunIsFree DEF Login
<1>2. PICK c \in Clients, rows \in {Cleaned, states} :
         /\ states' = [rows EXCEPT ![l] = [client |-> c, expires |-> now + StateTtl]]
         /\ begun' = [begun EXCEPT ![l] = [jar |-> j, client |-> c]]
  BY DEF Login, FoundForLogin
<1>3. /\ rows \in [Logins -> StateRows]
      /\ \A k \in Logins : rows[k] \in {states[k], NoState}
  BY DEF Cleaned, Types, StateRows
<1>4. /\ [client |-> c, expires |-> now + StateTtl] \in StateRows
      /\ [jar |-> j, client |-> c] \in Beginnings
      /\ [jar |-> j, client |-> c] # NoOne
  BY LtiAssumption DEF Types, StateRows, Beginnings
<1>5. /\ states' \in [Logins -> StateRows] /\ begun' \in [Logins -> Beginnings]
      /\ states'[l].client = c /\ begun'[l] = [jar |-> j, client |-> c]
      /\ \A k \in Logins \ {l} : states'[k] \in {states[k], NoState} /\ begun'[k] = begun[k]
  BY <1>2, <1>3, <1>4 DEF Types
<1> DEFINE mine == [jar[j] EXCEPT !.states = @ \cup {l}]
<1>a. /\ jar' = [jar EXCEPT ![j] = mine]
      /\ jar[j] \in [states : SUBSET Logins, session : Nat]
      /\ jar \in [Jars -> [states : SUBSET Logins, session : Nat]]
  BY DEF Login, Types
<1>b. /\ mine \in [states : SUBSET Logins, session : Nat]
      /\ mine.states = jar[j].states \cup {l} /\ mine.session = jar[j].session
  BY <1>a
<1>6. /\ jar' \in [Jars -> [states : SUBSET Logins, session : Nat]]
      /\ jar'[j].session = jar[j].session
      /\ jar'[j].states = jar[j].states \cup {l}
      /\ \A h \in Jars \ {j} : jar'[h] = jar[h]
  <2> HIDE DEF mine
  <2> QED
    BY <1>a, <1>b
<1>7. UNCHANGED <<now, registration, sessions, published, handshakes, token, picked, pages, launches>>
  BY DEF Login, lmsVars
<1>8. Types'
  BY <1>5, <1>6, <1>7 DEF Types
<1>9. StatesAreBegun'
  BY <1>4, <1>5 DEF StatesAreBegun
<1>10. CookiesAreBegun'
  <2> SUFFICES ASSUME NEW h \in Jars, NEW k \in jar'[h].states
               PROVE  begun'[k] # NoOne /\ begun'[k].jar = h
    BY DEF CookiesAreBegun
  <2>1. CASE k = l
    <3>1. h = j
      BY <2>1, <1>1, <1>6
    <3> QED
      BY <2>1, <3>1, <1>4, <1>5
  <2>2. CASE k # l
    <3>1. k \in jar[h].states
      BY <2>2, <1>6
    <3>2. k \in Logins \ {l}
      BY <2>2, <3>1, Members DEF Types
    <3>3. begun[k] # NoOne /\ begun[k].jar = h
      BY <3>1 DEF CookiesAreBegun
    <3> QED
      BY <3>2, <3>3, <1>5
  <2> QED
    BY <2>1, <2>2
<1>11. LaunchesHoldTheirLogin'
  <2>1. \A x \in launches : x.login \in Logins \ {l}
    BY <1>1, Members
  <2> QED
    BY <2>1, <1>5, <1>7 DEF LaunchesHoldTheirLogin
<1>12. SessionsHoldTheirLogin'
  <2>1. \A i \in DOMAIN sessions : sessions[i].login \in Logins \ {l}
    BY <1>1, Members
  <2> QED
    BY <2>1, <1>5, <1>7 DEF SessionsHoldTheirLogin
<1>13. CookiesAreSessions'
  BY <1>6, <1>7 DEF CookiesAreSessions
<1> QED
  BY <1>8, <1>9, <1>10, <1>11, <1>12, <1>13

LEMMA ConsumeStep ==
    ASSUME IInv, NEW j \in Jars, NEW l \in Logins, ConsumeState(j, l)
    PROVE  IInv'
<1> USE DEF IInv
<1> DEFINE y == [login |-> l, jar |-> j, client |-> states[l].client, step |-> "consumed",
                 deployments |-> {}, session |-> 0]
<1>1. states[l] # NoState /\ states[l].client \in Clients
  BY LiveRows DEF ConsumeState
<1>2. begun[l] = [jar |-> j, client |-> states[l].client]
  <2>1. begun[l] # NoOne /\ begun[l].jar = j /\ begun[l].client = states[l].client
    BY <1>1 DEF ConsumeState, IsFromThisBrowser, CookiesAreBegun, StatesAreBegun
  <2> QED
    BY <2>1, BegunIsRecord
<1>3. /\ states' = [states EXCEPT ![l] = NoState]
      /\ launches' = launches \cup {y}
      /\ UNCHANGED <<now, registration, sessions, published, handshakes, token, picked, jar, pages, begun>>
  BY DEF ConsumeState, StateTaken, lmsVars, browserVars
<1>4. /\ states' \in [Logins -> StateRows] /\ states'[l] = NoState
      /\ \A k \in Logins : states'[k] \in {states[k], NoState}
  BY <1>3 DEF Types, StateRows
<1>5. y \in LaunchRows
  BY <1>1 DEF LaunchRows
<1>6. /\ \A x \in launches : x.login # l
      /\ \A i \in DOMAIN sessions : sessions[i].login # l
  <2>1. \A x \in launches : states[x.login] = NoState
    BY DEF LaunchesHoldTheirLogin
  <2>2. \A i \in DOMAIN sessions : states[sessions[i].login] = NoState
    BY DEF SessionsHoldTheirLogin
  <2> QED
    BY <1>1, <2>1, <2>2, Zenon
<1>7. Types'
  BY <1>3, <1>4, <1>5 DEF Types
<1>8. StatesAreBegun'
  BY <1>3, <1>4 DEF StatesAreBegun
<1>9. CookiesAreBegun' /\ CookiesAreSessions'
  BY <1>3 DEF CookiesAreBegun, CookiesAreSessions
<1>10. LaunchesHoldTheirLogin'
  <2>1. \A x \in launches : x.login \in Logins
    BY Members
  <2>2. \A x \in launches :
           /\ begun'[x.login] = [jar |-> x.jar, client |-> x.client]
           /\ states'[x.login] = NoState
           /\ x.step = "saved" => x.session \in 1..Len(sessions')
    BY <2>1, <1>3, <1>4 DEF LaunchesHoldTheirLogin
  <2>3. /\ begun'[y.login] = [jar |-> y.jar, client |-> y.client]
        /\ states'[y.login] = NoState
        /\ y.step # "saved"
    BY <1>2, <1>3, <1>4
  <2>4. \A x, z \in launches' : x.login = z.login => x = z
    <3>1. \A x, z \in launches : x.login = z.login => x = z
      BY DEF LaunchesHoldTheirLogin
    <3>2. y.login = l
      OBVIOUS
    <3> QED
      BY <3>1, <3>2, <1>3, <1>6
  <2> QED
    BY <2>2, <2>3, <2>4, <1>3 DEF LaunchesHoldTheirLogin
<1>11. SessionsHoldTheirLogin'
  <2>1. \A i \in DOMAIN sessions : sessions[i].login \in Logins
    BY Members
  <2>2. \A x \in launches', i \in DOMAIN sessions' : sessions'[i].login = x.login => x.step = "saved"
    BY <1>3, <1>6 DEF SessionsHoldTheirLogin
  <2> QED
    BY <2>1, <2>2, <1>3, <1>4 DEF SessionsHoldTheirLogin
<1> QED
  BY <1>7, <1>8, <1>9, <1>10, <1>11

-----------------------------------------------------------------------------
(* A launch under way goes on: its successor keeps login, jar and client. *)

LEMMA GoesStep ==
    ASSUME IInv, NEW x \in launches, NEW y \in LaunchRows,
           y.login = x.login, y.jar = x.jar, y.client = x.client,
           y.step # "saved", x.step # "saved", Goes(x, y),
           UNCHANGED <<now, registration, handshakes, states, sessions, token, picked, jar, begun>>
    PROVE  IInv'
<1> USE DEF IInv
<1>1. launches' = (launches \ {x}) \cup {y}
  BY DEF Goes
<1>2. Types'
  BY <1>1 DEF Types
<1>3. StatesAreBegun' /\ CookiesAreBegun' /\ CookiesAreSessions'
  BY DEF StatesAreBegun, CookiesAreBegun, CookiesAreSessions
<1>4. LaunchesHoldTheirLogin'
  <2>1. \A z \in launches' :
           /\ begun[z.login] = [jar |-> z.jar, client |-> z.client]
           /\ states[z.login] = NoState
           /\ z.step = "saved" => z.session \in 1..Len(sessions)
    <3>1. \A z \in launches :
             /\ begun[z.login] = [jar |-> z.jar, client |-> z.client]
             /\ states[z.login] = NoState
             /\ z.step = "saved" => z.session \in 1..Len(sessions)
      BY DEF LaunchesHoldTheirLogin
    <3>2. begun[y.login] = [jar |-> y.jar, client |-> y.client] /\ states[y.login] = NoState
      BY <3>1
    <3> QED
      BY <3>1, <3>2, <1>1
  <2>2. \A u, v \in launches' : u.login = v.login => u = v
    <3>1. \A u, v \in launches : u.login = v.login => u = v
      BY DEF LaunchesHoldTheirLogin
    <3> QED
      BY <1>1, <3>1
  <2> QED
    BY <2>1, <2>2 DEF LaunchesHoldTheirLogin
<1>5. SessionsHoldTheirLogin'
  <2>1. \A z \in launches', i \in DOMAIN sessions : sessions[i].login = z.login => z.step = "saved"
    BY <1>1 DEF SessionsHoldTheirLogin
  <2> QED
    BY <2>1 DEF SessionsHoldTheirLogin
<1> QED
  BY <1>2, <1>3, <1>4, <1>5

LEMMA ReadStep ==
    ASSUME IInv, NEW x \in launches, ReadRegistration(x)
    PROVE  IInv'
<1> DEFINE y == [x EXCEPT !.step = "verifying", !.deployments = registration[x.client]]
<1>1. x \in LaunchRows /\ x.client \in Clients /\ registration[x.client] \in SUBSET Deployments
  BY Members DEF IInv, Types
<1>2. /\ y \in LaunchRows
      /\ y.login = x.login /\ y.jar = x.jar /\ y.client = x.client /\ y.step = "verifying"
  BY <1>1 DEF LaunchRows
<1>3. /\ x.step = "consumed" /\ Goes(x, y)
      /\ UNCHANGED <<now, registration, handshakes, states, sessions, token, picked, jar, begun>>
  BY DEF ReadRegistration, rowVars, lmsVars, browserVars
<1> HIDE DEF y
<1> QED
  BY <1>2, <1>3, GoesStep

LEMMA SaveStep ==
    ASSUME IInv, NEW x \in launches, SaveSession(x)
    PROVE  IInv'
<1> USE DEF IInv
<1> DEFINE t == token[x.login]
           s == [login |-> x.login, jar |-> x.jar, client |-> x.client, kind |-> t.kind,
                 deployment |-> t.deployment, scenario |-> t.scenario, age |-> now - t.iat,
                 known |-> x.deployments, expires |-> now + SessionTtl]
           y == [x EXCEPT !.step = "saved", !.session = Len(sessions')]
<1>1. x \in LaunchRows /\ x.login \in Logins /\ x.jar \in Jars /\ x.client \in Clients
  BY Members
<1>2. t \in TokenRows
  BY <1>1 DEF Types
<1>3. /\ x.step = "verifying"
      /\ t.deployment \in x.deployments /\ t.iat >= now - StateTtl
      /\ sessions' = Append(sessions, s)
      /\ launches' = (launches \ {x}) \cup {y}
      /\ UNCHANGED <<now, registration, handshakes, states, token, picked, jar, begun>>
  BY DEF SaveSession, Accepts, Goes, lmsVars, browserVars
<1>4. s \in SessionRows
  BY <1>1, <1>2, LtiAssumption DEF SessionRows, TokenRows, LaunchRows, Types
<1>5. s.age <= StateTtl
  BY <1>2, <1>3, LtiAssumption DEF TokenRows, Types
<1>6. /\ s.login = x.login /\ s.jar = x.jar /\ s.client = x.client
      /\ s.deployment \in s.known
  BY <1>3
<1> HIDE DEF s
<1>7. /\ sessions' \in Seq(SessionRows) /\ Len(sessions') = Len(sessions) + 1
      /\ DOMAIN sessions' = DOMAIN sessions \cup {Len(sessions')}
      /\ Len(sessions') \notin DOMAIN sessions
      /\ sessions'[Len(sessions')] = s
      /\ \A i \in DOMAIN sessions : sessions'[i] = sessions[i]
  BY <1>3, <1>4 DEF Types
<1>8. Len(sessions') \in Nat
  BY <1>7
<1>9. /\ y \in LaunchRows /\ y.login = x.login /\ y.jar = x.jar /\ y.client = x.client
      /\ y.step = "saved" /\ y.session = Len(sessions')
  BY <1>1, <1>8 DEF LaunchRows
<1> HIDE DEF y
<1>10. Types'
  BY <1>3, <1>7, <1>9 DEF Types
<1>11. StatesAreBegun' /\ CookiesAreBegun'
  BY <1>3 DEF StatesAreBegun, CookiesAreBegun
<1>12. CookiesAreSessions'
  BY <1>3, <1>7 DEF CookiesAreSessions, Types
<1>13. \A z \in launches : z.login = x.login => z = x
  BY DEF LaunchesHoldTheirLogin
<1>14. LaunchesHoldTheirLogin'
  <2>1. \A z \in launches' :
           /\ begun[z.login] = [jar |-> z.jar, client |-> z.client]
           /\ states[z.login] = NoState
    <3>1. \A z \in launches :
             begun[z.login] = [jar |-> z.jar, client |-> z.client] /\ states[z.login] = NoState
      BY DEF LaunchesHoldTheirLogin
    <3>2. begun[y.login] = [jar |-> y.jar, client |-> y.client] /\ states[y.login] = NoState
      BY <3>1, <1>9
    <3> QED
      BY <3>1, <3>2, <1>3
  <2>2. \A z \in launches' : z.step = "saved" => z.session \in 1..Len(sessions')
    <3>1. \A z \in launches : z.step = "saved" => z.session \in 1..Len(sessions)
      BY DEF LaunchesHoldTheirLogin
    <3>2. Len(sessions) \in Nat
      BY DEF Types
    <3> QED
      BY <3>1, <3>2, <1>3, <1>7, <1>9
  <2>3. \A u, v \in launches' : u.login = v.login => u = v
    <3>1. \A u, v \in launches : u.login = v.login => u = v
      BY DEF LaunchesHoldTheirLogin
    <3> QED
      BY <3>1, <1>3, <1>9, <1>13
  <2> QED
    BY <2>1, <2>2, <2>3, <1>3 DEF LaunchesHoldTheirLogin
<1>15. \A i \in DOMAIN sessions : sessions[i].login # x.login
  BY <1>3 DEF SessionsHoldTheirLogin
<1>16. SessionsHoldTheirLogin'
  <2>1. \A i \in DOMAIN sessions' :
           /\ begun[sessions'[i].login] = [jar |-> sessions'[i].jar, client |-> sessions'[i].client]
           /\ states[sessions'[i].login] = NoState
           /\ sessions'[i].deployment \in sessions'[i].known
           /\ sessions'[i].age <= StateTtl
    BY <1>5, <1>6, <1>7 DEF SessionsHoldTheirLogin, LaunchesHoldTheirLogin
  <2>2. \A i, k \in DOMAIN sessions' : sessions'[i].login = sessions'[k].login => i = k
    BY <1>6, <1>7, <1>15 DEF SessionsHoldTheirLogin
  <2>3. \A z \in launches', i \in DOMAIN sessions' : sessions'[i].login = z.login => z.step = "saved"
    BY <1>3, <1>6, <1>7, <1>9, <1>13 DEF SessionsHoldTheirLogin
  <2> QED
    BY <2>1, <2>2, <2>3, <1>3 DEF SessionsHoldTheirLogin
<1> QED
  BY <1>10, <1>11, <1>12, <1>14, <1>16

LEMMA AnsweredStep ==
    ASSUME IInv, NEW x \in launches, LaunchAnswered(x)
    PROVE  IInv'
<1> USE DEF IInv
<1> DEFINE mine == [jar[x.jar] EXCEPT !.session = x.session, !.states = @ \ {x.login}]
<1>1. x \in LaunchRows /\ x.jar \in Jars /\ jar[x.jar] \in [states : SUBSET Logins, session : Nat]
  BY Members
<1>2. /\ mine \in [states : SUBSET Logins, session : Nat]
      /\ mine.states = jar[x.jar].states \ {x.login} /\ mine.session = x.session
  BY <1>1 DEF LaunchRows
<1>3. /\ x.step = "saved" /\ launches' = launches \ {x}
      /\ jar' = [jar EXCEPT ![x.jar] = mine]
      /\ UNCHANGED <<now, registration, handshakes, states, sessions, token, picked, begun>>
  BY DEF LaunchAnswered, rowVars, lmsVars
<1> HIDE DEF mine
<1>4. /\ jar' \in [Jars -> [states : SUBSET Logins, session : Nat]]
      /\ \A h \in Jars : jar'[h].states \subseteq jar[h].states
      /\ \A h \in Jars : jar'[h].session \in {jar[h].session, x.session}
  BY <1>1, <1>2, <1>3 DEF Types
<1>5. Types'
  BY <1>3, <1>4 DEF Types
<1>6. StatesAreBegun' /\ CookiesAreBegun'
  BY <1>3, <1>4 DEF StatesAreBegun, CookiesAreBegun
<1>7. CookiesAreSessions'
  <2>1. x.session \in 1..Len(sessions)
    BY <1>3 DEF LaunchesHoldTheirLogin
  <2>2. Len(sessions) \in Nat
    BY DEF Types
  <2> QED
    BY <2>1, <2>2, <1>3, <1>4 DEF CookiesAreSessions
<1>8. LaunchesHoldTheirLogin' /\ SessionsHoldTheirLogin'
  BY <1>3 DEF LaunchesHoldTheirLogin, SessionsHoldTheirLogin
<1> QED
  BY <1>5, <1>6, <1>7, <1>8

-----------------------------------------------------------------------------

(* What the other steps touch is none of the tied state, but they keep its types. *)
LEMMA OtherSteps ==
    ASSUME IInv,
           \/ Tick \/ Restart
           \/ \E c \in Clients, d \in Deployments : RegisterTool(c, d)
           \/ \E h \in handshakes : SaveRegistration(h) \/ RegistrationFails(h)
           \/ \E s \in Scenarios : Republish(s)
           \/ \E l \in Logins, d \in Deployments : MintToken(l, d)
           \/ \E x \in launches : LaunchFails(x)
           \/ UNCHANGED vars
    PROVE  IInv'
<1> USE DEF IInv
<1>1. CASE Tick
  <2>1. now' \in 0..MaxTime
    BY <1>1, LtiAssumption DEF Tick, Types
  <2> QED
    BY <1>1, <2>1, QuietStep DEF Tick, Types, rowVars, lmsVars, browserVars
<1>2. CASE Restart
  BY <1>2, QuietStep DEF Restart, Types, rowVars, browserVars
<1>3. ASSUME NEW c \in Clients, NEW d \in Deployments, RegisterTool(c, d) PROVE IInv'
  <2>1. handshakes' \subseteq [client : Clients, deployment : Deployments]
    BY <1>3 DEF RegisterTool, Types
  <2> QED
    BY <1>3, <2>1, QuietStep DEF RegisterTool, Types, rowVars, browserVars
<1>4. ASSUME NEW h \in handshakes, SaveRegistration(h) PROVE IInv'
  <2>1. h.client \in Clients /\ h.deployment \in Deployments
    BY DEF Types
  <2>2. registration' \in [Clients -> SUBSET Deployments]
    BY <1>4, <2>1 DEF SaveRegistration, Types
  <2> QED
    BY <1>4, <2>2, QuietStep DEF SaveRegistration, Types, browserVars
<1>5. ASSUME NEW h \in handshakes, RegistrationFails(h) PROVE IInv'
  BY <1>5, QuietStep DEF RegistrationFails, Types, rowVars, browserVars
<1>6. ASSUME NEW s \in Scenarios, Republish(s) PROVE IInv'
  BY <1>6, QuietStep DEF Republish, Types, rowVars, lmsVars, browserVars
<1>7. ASSUME NEW l \in Logins, NEW d \in Deployments, MintToken(l, d) PROVE IInv'
  <2>1. PICK kind \in {"resource", "deep-link"}, s \in picked \cup {NoOne} :
           token' = [token EXCEPT ![l] = [kind |-> kind, deployment |-> d, scenario |-> s, iat |-> now]]
    BY <1>7 DEF MintToken
  <2>2. [kind |-> kind, deployment |-> d, scenario |-> s, iat |-> now] \in TokenRows
    BY <2>1 DEF TokenRows, Types
  <2>3. token' \in [Logins -> TokenRows]
    BY <2>1, <2>2 DEF Types
  <2> QED
    BY <1>7, <2>3, QuietStep DEF MintToken, Types, rowVars, browserVars
<1>8. ASSUME NEW x \in launches, LaunchFails(x) PROVE IInv'
  BY <1>8, QuietStep DEF LaunchFails, Types, rowVars, lmsVars, browserVars
<1>9. CASE UNCHANGED vars
  BY <1>9, QuietStep DEF vars, Types, rowVars, lmsVars, browserVars
<1> QED
  BY <1>1, <1>2, <1>3, <1>4, <1>5, <1>6, <1>7, <1>8, <1>9

LEMMA DeepLinkStep ==
    ASSUME IInv, NEW p \in pages, NEW s \in Scenarios, DeepLink(p, s)
    PROVE  IInv'
BY QuietStep DEF IInv, DeepLink, Types, rowVars

LEMMA IInvStep == IInv /\ [Next]_vars => IInv'
<1> SUFFICES ASSUME IInv, [Next]_vars PROVE IInv'
  OBVIOUS
<1>1. ASSUME NEW j \in Jars, NEW l \in Logins, NEW named \in Clients \cup {NoOne}, Login(j, l, named)
      PROVE  IInv'
  BY <1>1, LoginStep
<1>2. ASSUME NEW j \in Jars, NEW l \in Logins, ConsumeState(j, l) PROVE IInv'
  BY <1>2, ConsumeStep
<1>3. ASSUME NEW x \in launches, ReadRegistration(x) PROVE IInv'
  BY <1>3, ReadStep
<1>4. ASSUME NEW x \in launches, SaveSession(x) PROVE IInv'
  BY <1>4, SaveStep
<1>5. ASSUME NEW x \in launches, LaunchAnswered(x) PROVE IInv'
  BY <1>5, AnsweredStep
<1>6. ASSUME NEW p \in pages, NEW s \in Scenarios, DeepLink(p, s) PROVE IInv'
  BY <1>6, DeepLinkStep
<1> QED
  BY <1>1, <1>2, <1>3, <1>4, <1>5, <1>6, OtherSteps DEF Next, LaunchNext

-----------------------------------------------------------------------------
(* The inductive invariant holds in every reachable state. *)
THEOREM LtiInvariance == Spec => []IInv
BY InitHolds, IInvStep, PTL DEF Spec

(* The launch keeps its types, for any clients, jars, logins and lifetimes. *)
THEOREM LtiTypeCorrect == Spec => []TypeOK
<1>1. IInv => TypeOK
  <2> SUFFICES ASSUME IInv PROVE TypeOK
    OBVIOUS
  <2>1. \A l \in Logins : states[l] = NoState \/ states[l].client \in Clients
    BY DEF IInv, Types, StateRows
  <2> QED
    BY <2>1, Members DEF IInv, Types, CookiesAreSessions, TypeOK
<1> QED
  BY <1>1, LtiInvariance, PTL

(* A login is good for one session, however often and whenever its form is posted. *)
THEOREM LoginIsGoodOnce == Spec => []OneSessionPerLogin
<1>1. IInv => OneSessionPerLogin
  BY DEF IInv, SessionsHoldTheirLogin, OneSessionPerLogin
<1> QED
  BY <1>1, LtiInvariance, PTL

(* A session is of the browser, client and deployment its login was begun for, and of a fresh token. *)
THEOREM SessionIsOfItsLogin == Spec => []SessionFollowsItsLogin
<1>1. IInv => SessionFollowsItsLogin
  BY DEF IInv, SessionsHoldTheirLogin, SessionFollowsItsLogin
<1> QED
  BY <1>1, LtiInvariance, PTL

(* Whatever takes a live state is its own launch; a cookie goes with its launch's answer. *)
THEOREM LoginsAreApart == Spec => LoginsDoNotClobber
<1> DEFINE Kept(l) ==
      /\ IsLive(states[l]) /\ states'[l] # states[l]
            => states'[l] = NoState /\ \E x \in launches' \ launches : x.login = l
      /\ \A j \in Jars : l \in jar[j].states \ jar'[j].states
            => \E x \in launches \ launches' : x.login = l /\ x.session # 0
<1>1. IInv /\ [Next]_vars => \A l \in Logins : Kept(l)
  <2> SUFFICES ASSUME IInv, [Next]_vars, NEW k \in Logins PROVE Kept(k)
    OBVIOUS
  <2>1. ASSUME UNCHANGED <<states, jar>> PROVE Kept(k)
    BY <2>1
  <2>2. ASSUME NEW j \in Jars, NEW l \in Logins, NEW named \in Clients \cup {NoOne}, Login(j, l, named)
        PROVE  Kept(k)
    <3>1. states[l] = NoState
      BY <2>2, UnbegunIsFree DEF Login
    <3>2. ~IsLive(states[l])
      BY <3>1 DEF IsLive, NoState
    <3>3. k # l /\ IsLive(states[k]) => states'[k] = states[k]
      BY <2>2 DEF Login, Cleaned, IInv, Types
    <3>4. \A h \in Jars : jar[h].states \subseteq jar'[h].states
      <4>1. jar \in [Jars -> [states : SUBSET Logins, session : Nat]]
        BY DEF IInv, Types
      <4>2. jar' = [jar EXCEPT ![j] = [jar[j] EXCEPT !.states = @ \cup {l}]]
        BY <2>2 DEF Login
      <4> QED
        BY <4>1, <4>2
    <3> QED
      BY <3>2, <3>3, <3>4
  <2>3. ASSUME NEW j \in Jars, NEW l \in Logins, ConsumeState(j, l) PROVE Kept(k)
    <3>1. \A x \in launches : x.login # l
      <4>1. \A x \in launches : states[x.login] = NoState
        BY DEF IInv, LaunchesHoldTheirLogin
      <4>2. states[l] # NoState
        BY <2>3, LiveRows DEF IInv, ConsumeState
      <4> QED
        BY <4>1, <4>2, Zenon
    <3>2. \E x \in launches' : x.login = l
      <4> DEFINE y == [login |-> l, jar |-> j, client |-> states[l].client, step |-> "consumed",
                       deployments |-> {}, session |-> 0]
      <4>1. y \in launches'
        BY <2>3 DEF ConsumeState
      <4>2. y.login = l
        OBVIOUS
      <4> QED
        BY <4>1, <4>2
    <3>3. /\ states' = [states EXCEPT ![l] = NoState] /\ jar' = jar
          /\ states \in [Logins -> StateRows]
      BY <2>3 DEF ConsumeState, StateTaken, browserVars, IInv, Types
    <3> QED
      BY <3>1, <3>2, <3>3
  <2>4. ASSUME NEW x \in launches, LaunchAnswered(x) PROVE Kept(k)
    <3>1. x.session # 0
      <4>1. x.session \in 1..Len(sessions)
        BY <2>4 DEF IInv, LaunchesHoldTheirLogin, LaunchAnswered
      <4>2. Len(sessions) \in Nat
        BY DEF IInv, Types
      <4> QED
        BY <4>1, <4>2
    <3>2. /\ x.jar \in Jars /\ jar \in [Jars -> [states : SUBSET Logins, session : Nat]]
          /\ jar' = [jar EXCEPT ![x.jar] = [jar[x.jar] EXCEPT !.session = x.session, !.states = @ \ {x.login}]]
      BY <2>4, Members DEF LaunchAnswered, IInv, Types
    <3>3. \A h \in Jars : jar[h].states \ jar'[h].states \subseteq {x.login}
      BY <3>2
    <3>4. states' = states /\ launches' = launches \ {x}
      BY <2>4 DEF LaunchAnswered, rowVars
    <3> QED
      BY <3>1, <3>3, <3>4
  <2> QED
    <3> HIDE DEF Kept
    <3> QED
      BY <2>1, <2>2, <2>3, <2>4
      DEF Next, LaunchNext, vars, rowVars, lmsVars, browserVars, Tick, Restart, RegisterTool, SaveRegistration,
          RegistrationFails, Republish, MintToken, ReadRegistration, SaveSession, LaunchFails, DeepLink
<1>2. IInv /\ [Next]_vars => [\A l \in Logins : Kept(l)]_vars
  BY <1>1
<1> QED
  BY <1>2, LtiInvariance, PTL DEF Spec, LoginsDoNotClobber

=============================================================================
