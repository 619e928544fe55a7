---------------------------- MODULE AccessProofs ----------------------------
(***************************************************************************)
(* Theorems about Access, for any keys, calls, limits and windows: its     *)
(* types, that the identity shown is the one of the code kept, that a      *)
(* session ends for a reason, and how many guesses the counters of fixed   *)
(* windows let through in any span of time.                                *)
(***************************************************************************)
EXTENDS Access, TLAPS

KeyRows == [state : {"absent", "live", "revoked"}, role : Roles]
Phases == {"idle", "sent", "let in", "ok", "rejected", "forbidden", "limited", "failed"}
CallRows ==
    [kind : {"none", "me", "signIn", "call", "issue", "revoke"}, code : Codes \cup {NoCode},
     key : Keys \cup {NoCode}, mine : BOOLEAN, busy : BOOLEAN, phase : Phases]
Windows == [count : Nat, resetAt : 0..(MaxTime + Window)]
Real == Codes \ {Wrong}
Navs == [to : Screens \cup {"none"}, asks : Calls \cup {"nobody"}]

(* What is true of a request c beside the rows ks, whatever became of its key meanwhile. *)
Good(c, ks) ==
    /\ c.code \in Keys => ks[c.code] # NoKey
    /\ c.phase \in {"let in", "ok"} => c.code \in Real
    /\ c.phase = "rejected" => c.code # Bootstrap /\ (c.code \in Keys => ks[c.code].state # "live")
    /\ c.phase = "limited" => c.code # Bootstrap
    /\ c.phase = "limited" /\ c.code \in Keys /\ ks[c.code].state = "live" =>
          c.kind = "call" /\ ks[c.code].role = "author"
    /\ c.kind = "revoke" => c.key \in Keys /\ ks[c.key] # NoKey
    /\ c.kind = "revoke" /\ c.phase = "ok" => ks[c.key].state = "revoked"

CallsGood(cs, ks) ==
    /\ cs \in [Calls -> CallRows]
    /\ \A r \in Calls : Good(cs[r], ks)

(* Rows only age: issued once, revoked for good. *)
Aged(ks, ms) ==
    \A k \in Keys : ks[k] # NoKey =>
        /\ ms[k] # NoKey
        /\ ms[k].state = "live" => ks[k].state = "live"
        /\ ks[k].state = "revoked" => ms[k].state = "revoked"
        /\ ms[k].role = ks[k].role

(* How many a log had let through before t. *)
Upto(log, t) == IF t = 0 THEN 0 ELSE log[t - 1]

(* A subject's window w and its log at time n.  The window began with the  *)
(* first one it let through, so whatever an overlapping span saw before it *)
(* was one less than a whole window: together less than two limits.        *)
SpansGood(w, log, n, limit) ==
    /\ \A t, u \in Times : t <= u => log[t] <= log[u]
    /\ \A u \in Times : n <= u => log[u] = log[n]
    /\ \A t \in Times : w.resetAt <= t => Upto(log, t) = log[n]
    /\ w.resetAt # 0 =>
          LET a == w.resetAt - Window IN
          /\ a \in Times /\ a <= n
          /\ 1 <= w.count /\ w.count <= limit
          /\ log[n] = Upto(log, a) + w.count
          /\ Upto(log, a) + 1 <= log[a]
          /\ \A t \in Times : t <= a /\ a < t + Window => Upto(log, a) + 1 <= Upto(log, t) + limit
    /\ \A t, u \in Times : t <= u /\ u < t + Window => log[u] < Upto(log, t) + 2 * limit

ServerGood ==
    /\ keys \in [Keys -> KeyRows]
    /\ now \in Times
    /\ windows \in [Subjects -> Windows]
    /\ counted \in [Subjects -> [Times -> Nat]]
    /\ \A s \in Subjects : SpansGood(windows[s], counted[s], now, Limit[s])

TokenIsKnown(code, ks) == code \in Keys => ks[code] # NoKey

NavGood(n) == n \in Navs /\ (n.to = "none" => n = Stay)

TabGood ==
    /\ token \in Real \cup {NoCode} /\ user \in Real \cup {NoCode}
    /\ screen \in Screens
    /\ NavGood(nav)
    /\ crossed \in BOOLEAN
    /\ IdentityIsTheCodes

IInv ==
    /\ ServerGood /\ TabGood
    /\ TokenIsKnown(token, keys)
    /\ CallsGood(calls, keys)

-----------------------------------------------------------------------------
(* Requests and rows, whatever the state. *)

LEMMA AgedCalls ==
    ASSUME NEW cs, NEW ks, NEW ms, CallsGood(cs, ks), Aged(ks, ms)
    PROVE  CallsGood(cs, ms)
<1>1. \A r \in Calls : Good(cs[r], ms)
  <2> TAKE r \in Calls
  <2>1. Good(cs[r], ks)
    BY DEF CallsGood
  <2>2. cs[r].code \in Keys => ks[cs[r].code] # NoKey /\ ms[cs[r].code] # NoKey
                               /\ (ms[cs[r].code].state = "live" => ks[cs[r].code].state = "live")
                               /\ ms[cs[r].code].role = ks[cs[r].code].role
    BY <2>1 DEF Good, Aged
  <2>3. cs[r].kind = "revoke" => cs[r].key \in Keys /\ ms[cs[r].key] # NoKey
                                 /\ (ks[cs[r].key].state = "revoked" => ms[cs[r].key].state = "revoked")
    BY <2>1 DEF Good, Aged
  <2> QED
    BY <2>1, <2>2, <2>3 DEF Good
<1> QED
  BY <1>1 DEF CallsGood

LEMMA OneCall ==
    ASSUME NEW cs, NEW ks, CallsGood(cs, ks), NEW r \in Calls, NEW c \in CallRows, Good(c, ks)
    PROVE  CallsGood([cs EXCEPT ![r] = c], ks)
<1> DEFINE ds == [cs EXCEPT ![r] = c]
<1>1. ds \in [Calls -> CallRows]
  BY DEF CallsGood
<1>2. \A q \in Calls : ds[q] = IF q = r THEN c ELSE cs[q]
  BY DEF CallsGood
<1>3. \A q \in Calls : Good(cs[q], ks)
  BY DEF CallsGood
<1> HIDE DEF ds
<1>4. \A q \in Calls : Good(ds[q], ks)
  BY <1>2, <1>3, Zenon
<1>5. CallsGood(ds, ks)
  BY <1>1, <1>4 DEF CallsGood
<1> QED
  BY <1>5 DEF ds

LEMMA QuietCalls ==
    ASSUME NEW cs, NEW ks, CallsGood(cs, ks)
    PROVE  CallsGood([r \in Calls |-> [cs[r] EXCEPT !.busy = FALSE]], ks)
<1> DEFINE ds == [r \in Calls |-> [cs[r] EXCEPT !.busy = FALSE]]
<1>1. ds \in [Calls -> CallRows]
  BY DEF CallsGood, CallRows
<1>2. \A r \in Calls : /\ ds[r].code = cs[r].code /\ ds[r].phase = cs[r].phase
                       /\ ds[r].kind = cs[r].kind /\ ds[r].key = cs[r].key
  BY DEF CallsGood, CallRows
<1> HIDE DEF ds
<1>3. \A r \in Calls : Good(ds[r], ks)
  BY <1>2 DEF CallsGood, Good
<1>4. CallsGood(ds, ks)
  BY <1>1, <1>3 DEF CallsGood
<1> QED
  BY <1>4 DEF ds

LEMMA NoCallGood ==
    ASSUME NEW ks
    PROVE  NoCall \in CallRows /\ Good(NoCall, ks)
<1>1. NoCall \in CallRows
  BY DEF NoCall, CallRows, Phases
<1>2. NoCode \notin Keys
  BY AccessAssumption
<1> QED
  BY <1>1, <1>2 DEF NoCall, Good

(* A phase a request may pass to keeps it good. *)
LEMMA NextPhase ==
    ASSUME NEW cs, NEW ks, CallsGood(cs, ks), NEW r \in Calls, NEW phase \in Phases,
           Good([cs[r] EXCEPT !.phase = phase], ks)
    PROVE  CallsGood([cs EXCEPT ![r].phase = phase], ks)
<1> DEFINE c == [cs[r] EXCEPT !.phase = phase]
<1>1. c \in CallRows
  BY DEF CallsGood, CallRows
<1>2. [cs EXCEPT ![r].phase = phase] = [cs EXCEPT ![r] = c]
  OBVIOUS
<1>3. Good(c, ks)
  OBVIOUS
<1> HIDE DEF c
<1>4. CallsGood([cs EXCEPT ![r] = c], ks)
  BY <1>1, <1>3, OneCall
<1> QED
  BY <1>2, <1>4

LEMMA PhaseFields ==
    ASSUME NEW cs \in [Calls -> CallRows], NEW r \in Calls, NEW phase
    PROVE  /\ [cs[r] EXCEPT !.phase = phase].phase = phase
           /\ [cs[r] EXCEPT !.phase = phase].code = cs[r].code
           /\ [cs[r] EXCEPT !.phase = phase].kind = cs[r].kind
           /\ [cs[r] EXCEPT !.phase = phase].key = cs[r].key
BY DEF CallRows

(* A new request with a code of a known row. *)
LEMMA CallIsGood ==
    ASSUME NEW ks, NEW kind \in {"me", "signIn", "call", "issue"}, NEW code \in Codes \cup {NoCode},
           code \in Keys => ks[code] # NoKey, NEW busy \in BOOLEAN
    PROVE  /\ Call(kind, code) \in CallRows /\ Good(Call(kind, code), ks)
           /\ [Call(kind, code) EXCEPT !.busy = busy] \in CallRows
           /\ Good([Call(kind, code) EXCEPT !.busy = busy], ks)
<1>1. /\ Call(kind, code) \in CallRows
      /\ [Call(kind, code) EXCEPT !.busy = busy] \in CallRows
  BY DEF Call, NoCall, CallRows, Phases
<1>2. /\ Call(kind, code).kind = kind /\ Call(kind, code).code = code
      /\ Call(kind, code).phase = "sent"
  BY DEF Call, NoCall
<1>3. /\ [Call(kind, code) EXCEPT !.busy = busy].kind = kind
      /\ [Call(kind, code) EXCEPT !.busy = busy].code = code
      /\ [Call(kind, code) EXCEPT !.busy = busy].phase = "sent"
  BY DEF Call, NoCall
<1>4. Good(Call(kind, code), ks)
  BY <1>2 DEF Good
<1>5. Good([Call(kind, code) EXCEPT !.busy = busy], ks)
  BY <1>3 DEF Good
<1> QED
  BY <1>1, <1>4, <1>5

LEMMA RevokeIsGood ==
    ASSUME NEW ks, NEW code \in Codes \cup {NoCode}, code \in Keys => ks[code] # NoKey,
           NEW k \in Keys, ks[k] # NoKey, NEW mine \in BOOLEAN
    PROVE  /\ [Call("revoke", code) EXCEPT !.key = k, !.mine = mine, !.busy = TRUE] \in CallRows
           /\ Good([Call("revoke", code) EXCEPT !.key = k, !.mine = mine, !.busy = TRUE], ks)
<1> DEFINE c == [Call("revoke", code) EXCEPT !.key = k, !.mine = mine, !.busy = TRUE]
<1>1. c \in CallRows
  BY DEF Call, NoCall, CallRows, Phases
<1>2. c.kind = "revoke" /\ c.code = code /\ c.key = k /\ c.phase = "sent"
  BY DEF Call, NoCall
<1> HIDE DEF c
<1>3. Good(c, ks)
  BY <1>2 DEF Good
<1> QED
  BY <1>1, <1>3 DEF c

-----------------------------------------------------------------------------
(* What a window lets through, whatever the state. *)

Monotone(log) == \A t, u \in Times : t <= u => log[t] <= log[u]

LEMMA TimesAreNat == Times \subseteq Nat /\ 0 \in Times /\ \A t \in Times : t # 0 => t - 1 \in Times
BY AccessAssumption DEF Times

LEMMA UptoFacts ==
    ASSUME NEW log \in [Times -> Nat], Monotone(log)
    PROVE  /\ \A t \in Times : Upto(log, t) \in Nat /\ Upto(log, t) <= log[t]
           /\ \A t, u \in Times : t <= u => Upto(log, t) <= Upto(log, u)
           /\ \A t, u \in Times : t < u => log[t] <= Upto(log, u)
<1>1. ASSUME NEW t \in Times PROVE Upto(log, t) \in Nat /\ Upto(log, t) <= log[t]
  BY TimesAreNat DEF Upto, Monotone
<1>2. ASSUME NEW t \in Times, NEW u \in Times, t < u PROVE log[t] <= Upto(log, u)
  <2>1. u # 0 /\ u - 1 \in Times /\ t <= u - 1
    BY <1>2, TimesAreNat
  <2>2. log[t] <= log[u - 1]
    BY <2>1 DEF Monotone
  <2>3. QED
    BY <2>1, <2>2 DEF Upto
<1>3. ASSUME NEW t \in Times, NEW u \in Times, t <= u PROVE Upto(log, t) <= Upto(log, u)
  <2>1. CASE t = u
    BY <2>1, <1>1
  <2>2. CASE t # u
    <3>1. t < u
      BY <1>3, <2>2, TimesAreNat
    <3>2. log[t] <= Upto(log, u) /\ Upto(log, t) <= log[t]
      BY <1>1, <1>2, <3>1
    <3>3. Upto(log, t) \in Nat /\ Upto(log, u) \in Nat /\ log[t] \in Nat
      BY <1>1
    <3>4. QED
      BY <3>2, <3>3
  <2>3. QED
    BY <2>1, <2>2
<1>4. QED
  BY <1>1, <1>2, <1>3

(* One more is let through at n: every later total is one more. *)
OneMore(log, n) == [t \in Times |-> log[t] + IF t < n THEN 0 ELSE 1]

LEMMA OneMoreFacts ==
    ASSUME NEW log \in [Times -> Nat], Monotone(log), NEW n \in Times,
           NEW more, more = OneMore(log, n)
    PROVE  /\ more \in [Times -> Nat] /\ Monotone(more)
           /\ \A t \in Times : more[t] = IF t < n THEN log[t] ELSE log[t] + 1
           /\ \A t \in Times : Upto(more, t) = IF t <= n THEN Upto(log, t) ELSE Upto(log, t) + 1
<1>1. /\ more \in [Times -> Nat]
      /\ \A t \in Times : more[t] = IF t < n THEN log[t] ELSE log[t] + 1
  BY DEF OneMore
<1>2. ASSUME NEW t \in Times
      PROVE  Upto(more, t) = IF t <= n THEN Upto(log, t) ELSE Upto(log, t) + 1
  <2>1. CASE t = 0
    BY <2>1, TimesAreNat DEF Upto
  <2>2. CASE t # 0
    <3>1. t - 1 \in Times /\ (t - 1 < n <=> t <= n)
      BY <2>2, TimesAreNat
    <3>2. QED
      BY <1>1, <2>2, <3>1 DEF Upto
  <2>3. QED
    BY <2>1, <2>2
<1>3. ASSUME NEW t \in Times, NEW u \in Times, t <= u PROVE more[t] <= more[u]
  <2>1. log[t] <= log[u] /\ log[t] \in Nat /\ log[u] \in Nat
    BY <1>3 DEF Monotone
  <2>2. u < n => t < n
    BY <1>3, TimesAreNat
  <2>3. QED
    BY <1>1, <2>1, <2>2
<1>4. QED
  BY <1>1, <1>2, <1>3 DEF Monotone

(* One more within the window. *)
LEMMA InTheWindow ==
    ASSUME NEW w \in Windows, NEW log \in [Times -> Nat], NEW n \in Times, NEW limit \in Nat \ {0},
           SpansGood(w, log, n, limit), n < w.resetAt, w.count < limit,
           NEW v \in Windows, v.count = w.count + 1, v.resetAt = w.resetAt
    PROVE  SpansGood(v, OneMore(log, n), n, limit)
<1> DEFINE more == OneMore(log, n)
           a == w.resetAt - Window
<1>0. Monotone(log)
  BY DEF SpansGood, Monotone
<1>1. /\ more \in [Times -> Nat] /\ Monotone(more)
      /\ \A t \in Times : more[t] = IF t < n THEN log[t] ELSE log[t] + 1
      /\ \A t \in Times : Upto(more, t) = IF t <= n THEN Upto(log, t) ELSE Upto(log, t) + 1
  BY <1>0, OneMoreFacts
<1> HIDE DEF more
<1>2. /\ w.resetAt # 0 /\ w.resetAt \in Nat /\ w.count \in Nat /\ Window \in Nat \ {0}
      /\ Times \subseteq Nat
  BY TimesAreNat, AccessAssumption DEF Windows
<1>3. /\ a \in Times /\ a <= n /\ 1 <= w.count
      /\ log[n] = Upto(log, a) + w.count
      /\ Upto(log, a) + 1 <= log[a]
      /\ \A t \in Times : t <= a /\ a < t + Window => Upto(log, a) + 1 <= Upto(log, t) + limit
  BY <1>2 DEF SpansGood
<1> HIDE DEF a
<1>4. /\ \A t \in Times : Upto(log, t) \in Nat /\ Upto(log, t) <= log[t]
      /\ \A t, u \in Times : t <= u => Upto(log, t) <= Upto(log, u)
  BY <1>0, UptoFacts
<1>5. /\ \A u \in Times : n <= u => log[u] = log[n]
      /\ \A t \in Times : w.resetAt <= t => Upto(log, t) = log[n]
      /\ \A t, u \in Times : t <= u /\ u < t + Window => log[u] < Upto(log, t) + 2 * limit
  BY DEF SpansGood
<1>6. \A u \in Times : n <= u => more[u] = more[n]
  BY <1>1, <1>2, <1>5
<1>7. \A t \in Times : w.resetAt <= t => Upto(more, t) = more[n]
  BY <1>1, <1>2, <1>5
<1>8. /\ more[n] = Upto(more, a) + v.count
      /\ Upto(more, a) = Upto(log, a)
      /\ Upto(more, a) + 1 <= more[a]
  BY <1>1, <1>2, <1>3, <1>4
<1>9. \A t \in Times : t <= a /\ a < t + Window => Upto(more, a) + 1 <= Upto(more, t) + limit
  BY <1>1, <1>2, <1>3, <1>8
<1>10. ASSUME NEW t \in Times, NEW u \in Times, t <= u, u < t + Window
       PROVE  more[u] < Upto(more, t) + 2 * limit
  <2>1. log[u] < Upto(log, t) + 2 * limit
    BY <1>5, <1>10
  <2>2. CASE u < n \/ n < t
    <3>1. more[u] = log[u] \/ (more[u] = log[u] + 1 /\ Upto(more, t) = Upto(log, t) + 1)
      BY <1>1, <1>2, <1>10, <2>2
    <3>2. Upto(more, t) >= Upto(log, t) /\ log[u] \in Nat /\ Upto(log, t) \in Nat
      BY <1>1, <1>4
    <3>3. QED
      BY <1>1, <2>1, <3>1, <3>2
  <2>3. CASE t <= n /\ n <= u
    <3>1. more[u] = log[n] + 1 /\ Upto(more, t) = Upto(log, t)
      BY <1>1, <1>2, <1>5, <2>3
    <3>2. log[n] + 1 <= Upto(log, a) + limit
      BY <1>2, <1>3, <1>4
    <3>3. CASE a <= t
      <4>1. Upto(log, a) <= Upto(log, t)
        BY <1>3, <1>4, <3>3
      <4>2. QED
        BY <1>3, <1>4, <3>1, <3>2, <4>1
    <3>4. CASE t < a
      <4>1. Upto(log, a) + 1 <= Upto(log, t) + limit
        BY <1>2, <1>3, <1>10, <2>3, <3>4
      <4>2. QED
        BY <1>3, <1>4, <3>1, <3>2, <4>1
    <3>5. QED
      BY <1>2, <1>3, <3>3, <3>4
  <2>4. QED
    BY <1>2, <2>2, <2>3
<1>11. v.count <= limit /\ 1 <= v.count
  BY <1>2, <1>3
<1>12. SpansGood(v, more, n, limit)
  BY <1>1, <1>3, <1>6, <1>7, <1>8, <1>9, <1>10, <1>11 DEF SpansGood, Monotone, a
<1>13. QED
  BY <1>12 DEF more

(* The first one of a new window. *)
LEMMA InAFreshWindow ==
    ASSUME NEW w \in Windows, NEW log \in [Times -> Nat], NEW n \in Times, NEW limit \in Nat \ {0},
           SpansGood(w, log, n, limit), w.resetAt <= n,
           NEW v, v.count = 1, v.resetAt = n + Window
    PROVE  SpansGood(v, OneMore(log, n), n, limit)
<1> DEFINE more == OneMore(log, n)
           a == w.resetAt - Window
<1>0. Monotone(log)
  BY DEF SpansGood, Monotone
<1>1. /\ more \in [Times -> Nat] /\ Monotone(more)
      /\ \A t \in Times : more[t] = IF t < n THEN log[t] ELSE log[t] + 1
      /\ \A t \in Times : Upto(more, t) = IF t <= n THEN Upto(log, t) ELSE Upto(log, t) + 1
  BY <1>0, OneMoreFacts
<1> HIDE DEF more
<1>2. /\ w.resetAt \in Nat /\ w.count \in Nat /\ Window \in Nat \ {0} /\ n + Window - Window = n
      /\ Times \subseteq Nat
  BY TimesAreNat, AccessAssumption DEF Windows
<1>3. w.resetAt # 0 =>
      /\ a \in Times /\ a <= n /\ w.count <= limit
      /\ log[n] = Upto(log, a) + w.count
      /\ Upto(log, a) + 1 <= log[a]
  BY <1>2 DEF SpansGood
<1> HIDE DEF a
<1>4. /\ \A t \in Times : Upto(log, t) \in Nat /\ Upto(log, t) <= log[t]
      /\ \A t, u \in Times : t <= u => Upto(log, t) <= Upto(log, u)
      /\ \A t, u \in Times : t < u => log[t] <= Upto(log, u)
  BY <1>0, UptoFacts
<1>5. /\ \A u \in Times : n <= u => log[u] = log[n]
      /\ \A t \in Times : w.resetAt <= t => Upto(log, t) = log[n]
      /\ \A t, u \in Times : t <= u /\ u < t + Window => log[u] < Upto(log, t) + 2 * limit
  BY DEF SpansGood
<1>6. \A u \in Times : n <= u => more[u] = more[n]
  BY <1>1, <1>2, <1>5
<1>7. \A t \in Times : n + Window <= t => Upto(more, t) = more[n]
  BY <1>1, <1>2, <1>5
<1>8. /\ Upto(log, n) = log[n] /\ Upto(more, n) = log[n] /\ more[n] = log[n] + 1
      /\ log[n] \in Nat
  BY <1>1, <1>2, <1>5
<1>9. ASSUME NEW t \in Times, t <= n, n < t + Window
      PROVE  Upto(more, t) = Upto(log, t) /\ log[n] + 1 <= Upto(log, t) + limit
  <2>1. Upto(more, t) = Upto(log, t) /\ Upto(log, t) \in Nat
    BY <1>1, <1>4, <1>9
  <2>2. CASE w.resetAt = 0
    <3>1. Upto(log, 0) = log[n] /\ Upto(log, 0) = 0
      BY <1>5, <2>2, TimesAreNat DEF Upto
    <3>2. QED
      BY <2>1, <3>1
  <2>3. CASE w.resetAt # 0
    <3>1. a < t
      BY <1>2, <1>9, <2>3 DEF a
    <3>2. log[a] <= Upto(log, t) /\ log[a] \in Nat
      BY <1>3, <1>4, <2>3, <3>1
    <3>3. Upto(log, a) \in Nat
      BY <1>3, <1>4, <2>3
    <3>4. QED
      BY <1>2, <1>3, <2>1, <2>3, <3>2, <3>3
  <2>4. QED
    BY <2>2, <2>3
<1>10. ASSUME NEW t \in Times, NEW u \in Times, t <= u, u < t + Window
       PROVE  more[u] < Upto(more, t) + 2 * limit
  <2>1. log[u] < Upto(log, t) + 2 * limit
    BY <1>5, <1>10
  <2>2. CASE u < n \/ n < t
    <3>1. more[u] = log[u] \/ (more[u] = log[u] + 1 /\ Upto(more, t) = Upto(log, t) + 1)
      BY <1>1, <1>2, <1>10, <2>2
    <3>2. Upto(more, t) >= Upto(log, t) /\ log[u] \in Nat /\ Upto(log, t) \in Nat
      BY <1>1, <1>4
    <3>3. QED
      BY <1>1, <2>1, <3>1, <3>2
  <2>3. CASE t <= n /\ n <= u
    <3>1. more[u] = log[n] + 1
      BY <1>6, <1>8, <2>3
    <3>2. Upto(more, t) = Upto(log, t) /\ log[n] + 1 <= Upto(log, t) + limit
      BY <1>2, <1>9, <1>10, <2>3
    <3>3. QED
      BY <1>4, <1>8, <3>1, <3>2
  <2>4. QED
    BY <1>2, <2>2, <2>3
<1>11. \A t \in Times : t <= n /\ n < t + Window => Upto(more, n) + 1 <= Upto(more, t) + limit
  BY <1>8, <1>9
<1>12. SpansGood(v, more, n, limit)
  BY <1>1, <1>2, <1>6, <1>7, <1>8, <1>10, <1>11 DEF SpansGood, Monotone
<1>13. QED
  BY <1>12 DEF more

LEMMA LaterOn ==
    ASSUME NEW w \in Windows, NEW log \in [Times -> Nat], NEW n \in Times, n + 1 \in Times, NEW limit,
           SpansGood(w, log, n, limit)
    PROVE  SpansGood(w, log, n + 1, limit)
<1>1. log[n + 1] = log[n] /\ \A u \in Times : n + 1 <= u => n <= u
  BY TimesAreNat DEF SpansGood
<1>2. w.resetAt - Window <= n => w.resetAt - Window <= n + 1
  BY TimesAreNat, AccessAssumption DEF Windows
<1>3. QED
  BY <1>1, <1>2 DEF SpansGood

LEMMA NothingCounted ==
    ASSUME NEW n \in Times, NEW limit \in Nat \ {0}
    PROVE  SpansGood(NoWindow, [t \in Times |-> 0], n, limit)
<1> DEFINE log == [t \in Times |-> 0]
<1>1. \A t \in Times : log[t] = 0 /\ Upto(log, t) = 0
  BY TimesAreNat DEF Upto
<1>2. NoWindow.resetAt = 0
  BY DEF NoWindow
<1> HIDE DEF log
<1>3. SpansGood(NoWindow, log, n, limit)
  BY <1>1, <1>2 DEF SpansGood
<1>4. QED
  BY <1>3 DEF log

-----------------------------------------------------------------------------
(* The counter. *)

CountersGood ==
    /\ windows \in [Subjects -> Windows] /\ counted \in [Subjects -> [Times -> Nat]]
    /\ \A s \in Subjects : SpansGood(windows[s], counted[s], now, Limit[s])

LEMMA CurrentIsWindow ==
    ASSUME ServerGood, NEW s \in Subjects
    PROVE  Current(s) \in Windows
<1>1. now \in Nat /\ now <= MaxTime /\ MaxTime \in Nat /\ Window \in Nat
  BY AccessAssumption DEF ServerGood, Times
<1>2. windows[s] \in Windows
  BY DEF ServerGood
<1>3. [count |-> 0, resetAt |-> now + Window] \in Windows
  BY <1>1 DEF Windows
<1> QED
  BY <1>2, <1>3, Zenon DEF Current

LEMMA CountsOne ==
    ASSUME ServerGood, NEW s \in Subjects, Consumed(s)
    PROVE  /\ windows' = [windows EXCEPT ![s] = [Current(s) EXCEPT !.count = @ + 1]]
           /\ [Current(s) EXCEPT !.count = @ + 1] \in Windows
           /\ counted' = [counted EXCEPT ![s] = OneMore(counted[s], now)]
           /\ OneMore(counted[s], now) \in [Times -> Nat]
           /\ SpansGood([Current(s) EXCEPT !.count = @ + 1], OneMore(counted[s], now), now, Limit[s])
<1> DEFINE v == [Current(s) EXCEPT !.count = @ + 1]
<1>1. Current(s) \in Windows /\ Current(s).count < Limit[s]
  BY CurrentIsWindow DEF Consumed, HasRoom
<1>2. v \in Windows /\ v.count = Current(s).count + 1 /\ v.resetAt = Current(s).resetAt
  BY <1>1 DEF Windows
<1>3. windows' = [windows EXCEPT ![s] = v] /\ counted' = [counted EXCEPT ![s] = OneMore(counted[s], now)]
  BY DEF Consumed, OneMore
<1> HIDE DEF v
<1>4. /\ counted[s] \in [Times -> Nat] /\ now \in Times /\ windows[s] \in Windows
      /\ Limit[s] \in Nat \ {0}
      /\ SpansGood(windows[s], counted[s], now, Limit[s])
  BY AccessAssumption DEF ServerGood
<1>5. OneMore(counted[s], now) \in [Times -> Nat]
  BY <1>4, OneMoreFacts DEF SpansGood, Monotone
<1>6. CASE windows[s].resetAt <= now
  <2>1. Current(s).count = 0 /\ Current(s).resetAt = now + Window
    BY <1>6 DEF Current
  <2>2. v.count = 1 /\ v.resetAt = now + Window
    BY <1>2, <2>1
  <2>3. SpansGood(v, OneMore(counted[s], now), now, Limit[s])
    BY <1>4, <1>6, <2>2, InAFreshWindow
  <2>4. QED
    BY <1>2, <1>3, <1>5, <2>3 DEF v
<1>7. CASE ~(windows[s].resetAt <= now)
  <2>1. Current(s) = windows[s]
    BY <1>7 DEF Current
  <2>2. now < windows[s].resetAt
    BY <1>4, <1>7, TimesAreNat, AccessAssumption DEF Windows
  <2>3. SpansGood(v, OneMore(counted[s], now), now, Limit[s])
    BY <1>1, <1>2, <1>4, <2>1, <2>2, InTheWindow
  <2>4. QED
    BY <1>2, <1>3, <1>5, <2>3 DEF v
<1>8. QED
  BY <1>6, <1>7

(* An exhausted window is never a fresh one. *)
LEMMA CountsNothing ==
    ASSUME ServerGood, NEW s \in Subjects, Exhausted(s)
    PROVE  UNCHANGED <<windows, counted>>
<1>1. Current(s) = windows[s]
  <2>1. Limit[s] \in Nat \ {0}
    BY AccessAssumption
  <2>2. ~(windows[s].resetAt <= now)
    BY <2>1 DEF Exhausted, HasRoom, Current
  <2>3. QED
    BY <2>2 DEF Current
<1>2. QED
  BY <1>1 DEF Exhausted, ServerGood

LEMMA CountersKept ==
    ASSUME ServerGood, UNCHANGED <<now, windows, counted>> PROVE CountersGood'
BY DEF ServerGood, CountersGood

LEMMA Counting ==
    ASSUME ServerGood, UNCHANGED now, NEW s \in Subjects, Consumed(s) \/ Exhausted(s)
    PROVE  CountersGood'
<1>1. CASE Consumed(s)
  <2> DEFINE v == [Current(s) EXCEPT !.count = @ + 1]
             more == OneMore(counted[s], now)
  <2>1. /\ windows' = [windows EXCEPT ![s] = v] /\ counted' = [counted EXCEPT ![s] = more]
        /\ v \in Windows /\ more \in [Times -> Nat]
        /\ SpansGood(v, more, now, Limit[s])
    BY <1>1, CountsOne
  <2> HIDE DEF v, more
  <2>2. windows \in [Subjects -> Windows] /\ counted \in [Subjects -> [Times -> Nat]]
        /\ \A x \in Subjects : SpansGood(windows[x], counted[x], now, Limit[x])
    BY DEF ServerGood
  <2>3. ASSUME NEW x \in Subjects PROVE SpansGood(windows'[x], counted'[x], now, Limit[x])
    <3>1. CASE x = s
      BY <2>1, <2>2, <3>1
    <3>2. CASE x # s
      BY <2>1, <2>2, <3>2
    <3>3. QED
      BY <3>1, <3>2
  <2>4. windows' \in [Subjects -> Windows] /\ counted' \in [Subjects -> [Times -> Nat]]
    BY <2>1, <2>2
  <2>5. QED
    BY <2>3, <2>4 DEF CountersGood
<1>2. CASE Exhausted(s)
  BY <1>2, CountsNothing, CountersKept
<1>3. QED
  BY <1>1, <1>2

LEMMA TabKept == ASSUME TabGood, UNCHANGED tab PROVE TabGood'
BY DEF TabGood, tab, IdentityIsTheCodes, Shown

-----------------------------------------------------------------------------
(* The server's steps. *)

LEMMA PhaseStep ==
    ASSUME IInv, NEW r \in Calls, NEW phase \in Phases, UNCHANGED <<keys, now, tab>>, CountersGood',
           Reached(r, phase), Good([calls[r] EXCEPT !.phase = phase], keys)
    PROVE  IInv'
<1>1. CallsGood(calls', keys)
  BY NextPhase DEF IInv, Reached
<1>2. TabGood'
  BY TabKept DEF IInv
<1>3. ServerGood'
  BY DEF IInv, ServerGood, CountersGood
<1>4. TokenIsKnown(token, keys)' /\ CallsGood(calls, keys)'
  BY <1>1 DEF IInv, tab, TokenIsKnown
<1> QED
  BY <1>2, <1>3, <1>4 DEF IInv

LEMMA CallFacts ==
    ASSUME IInv, NEW r \in Calls
    PROVE  /\ calls[r] \in CallRows /\ Good(calls[r], keys)
           /\ calls \in [Calls -> CallRows]
           /\ CallsGood(calls, keys)
           /\ ServerGood /\ TabGood /\ TokenIsKnown(token, keys)
BY DEF IInv, CallsGood

(* Failing and forbidding claim nothing of the code. *)
LEMMA PlainPhase ==
    ASSUME IInv, NEW r \in Calls, NEW phase \in {"forbidden", "failed"}
    PROVE  Good([calls[r] EXCEPT !.phase = phase], keys)
<1> DEFINE c == [calls[r] EXCEPT !.phase = phase]
<1>1. Good(calls[r], keys)
  BY CallFacts
<1>2. c.phase = phase /\ c.code = calls[r].code /\ c.kind = calls[r].kind /\ c.key = calls[r].key
  BY CallFacts, PhaseFields
<1> HIDE DEF c
<1>3. Good(c, keys)
  BY <1>1, <1>2 DEF Good
<1> QED
  BY <1>3 DEF c

(* A limit is for wrong codes, or for the uploads of an author. *)
LEMMA LimitedPhase ==
    ASSUME IInv, NEW r \in Calls,
           \/ ~Valid(calls[r].code)
           \/ Valid(calls[r].code) /\ IsAuthor(calls[r].code) /\ calls[r].kind = "call"
    PROVE  Good([calls[r] EXCEPT !.phase = "limited"], keys)
<1> DEFINE c == [calls[r] EXCEPT !.phase = "limited"]
<1>1. Good(calls[r], keys)
  BY CallFacts
<1>2. c.phase = "limited" /\ c.code = calls[r].code /\ c.kind = calls[r].kind /\ c.key = calls[r].key
  BY CallFacts, PhaseFields
<1>3. /\ calls[r].code # Bootstrap
      /\ calls[r].code \in Keys /\ keys[calls[r].code].state = "live" =>
            calls[r].kind = "call" /\ keys[calls[r].code].role = "author"
  BY DEF Valid, IsAuthor, RoleOf
<1> HIDE DEF c
<1>4. Good(c, keys)
  BY <1>1, <1>2, <1>3 DEF Good
<1> QED
  BY <1>4 DEF c

LEMMA RejectedPhase ==
    ASSUME IInv, NEW r \in Calls, ~Valid(calls[r].code)
    PROVE  Good([calls[r] EXCEPT !.phase = "rejected"], keys)
<1> DEFINE c == [calls[r] EXCEPT !.phase = "rejected"]
<1>1. Good(calls[r], keys)
  BY CallFacts
<1>2. c.phase = "rejected" /\ c.code = calls[r].code /\ c.kind = calls[r].kind /\ c.key = calls[r].key
  BY CallFacts, PhaseFields
<1>3. calls[r].code # Bootstrap /\ (calls[r].code \in Keys => keys[calls[r].code].state # "live")
  BY DEF Valid
<1> HIDE DEF c
<1>4. Good(c, keys)
  BY <1>1, <1>2, <1>3 DEF Good
<1> QED
  BY <1>4 DEF c

LEMMA ValidIsReal == \A code : Valid(code) => code \in Real /\ code \in Codes
BY AccessAssumption DEF Valid, Real, Codes

(* Let in, or answered without touching a row. *)
LEMMA GoodPhase ==
    ASSUME IInv, NEW r \in Calls, NEW phase \in {"let in", "ok"}, Valid(calls[r].code),
           phase = "ok" => calls[r].kind # "revoke"
    PROVE  Good([calls[r] EXCEPT !.phase = phase], keys)
<1> DEFINE c == [calls[r] EXCEPT !.phase = phase]
<1>1. Good(calls[r], keys)
  BY CallFacts
<1>a. calls \in [Calls -> CallRows]
  BY CallFacts
<1>2. c.phase = phase /\ c.code = calls[r].code /\ c.kind = calls[r].kind /\ c.key = calls[r].key
  BY <1>a DEF CallRows
<1>3. calls[r].code \in Real
  BY ValidIsReal
<1> HIDE DEF c
<1>4. Good(c, keys)
  BY <1>1, <1>2, <1>3 DEF Good
<1> QED
  BY <1>4 DEF c

LEMMA ServerSteps ==
    ASSUME IInv, NEW r \in Calls,
           IsWrong(r) \/ IsValid(r) \/ LimitsUploads(r) \/ HasNoCode(r) \/ Fails(r)
    PROVE  IInv'
<1>1. CASE IsWrong(r)
  <2>1. CountersGood'
    BY <1>1, Counting, CallFacts DEF IsWrong, Subjects
  <2>2. Reached(r, "rejected") \/ Reached(r, "limited")
    BY <1>1 DEF IsWrong
  <2>3. Good([calls[r] EXCEPT !.phase = "rejected"], keys) /\ Good([calls[r] EXCEPT !.phase = "limited"], keys)
    BY <1>1, RejectedPhase, LimitedPhase DEF IsWrong
  <2>4. UNCHANGED <<keys, now, tab>>
    BY <1>1 DEF IsWrong
  <2> QED
    BY <2>1, <2>2, <2>3, <2>4, PhaseStep DEF Phases
<1>2. CASE IsValid(r)
  <2>1. CountersGood' /\ UNCHANGED <<keys, now, tab>>
    BY <1>2, CountersKept, CallFacts DEF IsValid, server
  <2>2. PICK phase \in Allowed(r) : Reached(r, phase)
    BY <1>2 DEF IsValid
  <2>3. phase = "forbidden" \/ (phase \in {"let in", "ok"} /\ (phase = "ok" => calls[r].kind # "revoke"))
    BY <2>2 DEF Allowed
  <2>4. Valid(calls[r].code)
    BY <1>2 DEF IsValid
  <2>5. Good([calls[r] EXCEPT !.phase = phase], keys)
    BY <2>3, <2>4, PlainPhase, GoodPhase
  <2>6. phase \in Phases
    BY <2>3 DEF Phases
  <2> QED
    BY <2>1, <2>2, <2>5, <2>6, PhaseStep
<1>3. CASE LimitsUploads(r)
  <2>1. calls[r].code \in Keys
    <3>1. Valid(calls[r].code) /\ RoleOf(calls[r].code) = "author"
      BY <1>3 DEF LimitsUploads, IsAuthor
    <3> QED
      BY <3>1 DEF Valid, RoleOf
  <2>2. CountersGood'
    BY <1>3, <2>1, Counting, CallFacts DEF LimitsUploads, Subjects
  <2>3. Reached(r, "ok") \/ Reached(r, "limited")
    BY <1>3 DEF LimitsUploads
  <2>4. Good([calls[r] EXCEPT !.phase = "ok"], keys) /\ Good([calls[r] EXCEPT !.phase = "limited"], keys)
    BY <1>3, GoodPhase, LimitedPhase DEF LimitsUploads
  <2>5. UNCHANGED <<keys, now, tab>>
    BY <1>3 DEF LimitsUploads
  <2> QED
    BY <2>2, <2>3, <2>4, <2>5, PhaseStep DEF Phases
<1>4. CASE HasNoCode(r)
  <2>1. CountersGood' /\ UNCHANGED <<keys, now, tab>>
    BY <1>4, CountersKept, CallFacts DEF HasNoCode, server
  <2>2. ~Valid(calls[r].code)
    BY <1>4, AccessAssumption DEF HasNoCode, Valid
  <2>3. Good([calls[r] EXCEPT !.phase = "rejected"], keys)
    BY <2>2, RejectedPhase
  <2> QED
    BY <1>4, <2>1, <2>3, PhaseStep DEF HasNoCode, Phases
<1>5. CASE Fails(r)
  <2>1. CountersGood' /\ UNCHANGED <<keys, now, tab>>
    BY <1>5, CountersKept, CallFacts DEF Fails, server
  <2>2. Good([calls[r] EXCEPT !.phase = "failed"], keys)
    BY PlainPhase
  <2> QED
    BY <1>5, <2>1, <2>2, PhaseStep DEF Fails, Phases
<1> QED
  BY <1>1, <1>2, <1>3, <1>4, <1>5

(* Issuing and revoking age the rows, and keep what was known of the code kept. *)
LEMMA IssuedAges ==
    ASSUME ServerGood, NEW k \in Keys, NEW role \in Roles, Issued(k, role)
    PROVE  Aged(keys, keys') /\ keys' \in [Keys -> KeyRows]
<1>1. Live(role) \in KeyRows
  BY DEF Live, KeyRows
<1>2. keys' = [keys EXCEPT ![k] = Live(role)] /\ keys[k] = NoKey /\ keys \in [Keys -> KeyRows]
  BY DEF Issued, ServerGood
<1>3. keys' \in [Keys -> KeyRows]
  BY <1>1, <1>2
<1>4. \A j \in Keys : keys[j] # NoKey => keys'[j] = keys[j]
  BY <1>2
<1> QED
  BY <1>3, <1>4 DEF Aged

LEMMA RevokedAges ==
    ASSUME ServerGood, NEW k \in Keys, Revoked(k)
    PROVE  Aged(keys, keys') /\ keys' \in [Keys -> KeyRows] /\ keys'[k].state = "revoked" /\ keys[k] # NoKey
<1> DEFINE row == [keys[k] EXCEPT !.state = "revoked"]
<1>1. keys' = [keys EXCEPT ![k] = row] /\ keys[k] # NoKey /\ keys \in [Keys -> KeyRows]
  BY DEF Revoked, ServerGood
<1>2. row \in KeyRows /\ row.state = "revoked" /\ row.role = keys[k].role
  BY <1>1 DEF KeyRows
<1>3. row # NoKey
  BY <1>2 DEF NoKey
<1> HIDE DEF row
<1>4. keys' \in [Keys -> KeyRows] /\ keys'[k] = row
  BY <1>1, <1>2
<1>5. \A j \in Keys : j # k => keys'[j] = keys[j]
  BY <1>1
<1>6. \A j \in Keys : keys[j] # NoKey => /\ keys'[j] # NoKey
                                         /\ keys'[j].state = "live" => keys[j].state = "live"
                                         /\ keys[j].state = "revoked" => keys'[j].state = "revoked"
                                         /\ keys'[j].role = keys[j].role
  <2> TAKE j \in Keys
  <2>1. CASE j = k
    BY <2>1, <1>2, <1>3, <1>4
  <2>2. CASE j # k
    BY <2>2, <1>5
  <2> QED
    BY <2>1, <2>2
<1> QED
  BY <1>1, <1>2, <1>4, <1>6 DEF Aged

LEMMA KeysStep ==
    ASSUME IInv, Aged(keys, keys'), keys' \in [Keys -> KeyRows], UNCHANGED <<now, windows, counted, tab>>,
           CallsGood(calls', keys')
    PROVE  IInv'
<1>1. ServerGood'
  BY DEF IInv, ServerGood
<1>2. TabGood'
  BY TabKept DEF IInv
<1>3. TokenIsKnown(token, keys)'
  BY DEF IInv, TokenIsKnown, Aged, tab
<1>4. CallsGood(calls, keys)'
  OBVIOUS
<1> QED
  BY <1>1, <1>2, <1>3, <1>4 DEF IInv

LEMMA IsDoneStep ==
    ASSUME IInv, NEW r \in Calls, IsDone(r)
    PROVE  IInv'
<1>1. CallsGood(calls, keys) /\ ServerGood
  BY CallFacts
<1>2. Aged(keys, keys') /\ keys' \in [Keys -> KeyRows]
      /\ (calls[r].kind = "revoke" => keys'[calls[r].key].state = "revoked")
  <2>1. CASE calls[r].kind = "issue" /\ \E k \in Keys, role \in Roles : Issued(k, role)
    BY <1>1, <2>1, IssuedAges
  <2>2. CASE calls[r].kind = "revoke" /\ Revoked(calls[r].key)
    <3>1. calls[r].key \in Keys
      BY <2>2, CallFacts DEF Good
    <3> QED
      BY <1>1, <2>2, <3>1, RevokedAges
  <2> QED
    BY <2>1, <2>2 DEF IsDone
<1>3. CallsGood(calls, keys')
  BY <1>1, <1>2, AgedCalls
<1> DEFINE c == [calls[r] EXCEPT !.phase = "ok"]
<1>4. calls \in [Calls -> CallRows]
  BY CallFacts
<1>5. c.phase = "ok" /\ c.code = calls[r].code /\ c.kind = calls[r].kind /\ c.key = calls[r].key
  BY <1>4 DEF CallRows
<1>6. Good(calls[r], keys')
  BY <1>3 DEF CallsGood
<1>7. calls[r].code \in Real
  BY CallFacts DEF Good, IsDone
<1> HIDE DEF c
<1>8. Good(c, keys')
  BY <1>2, <1>5, <1>6, <1>7 DEF Good
<1>9. CallsGood([calls EXCEPT ![r].phase = "ok"], keys')
  <2>1. Good([calls[r] EXCEPT !.phase = "ok"], keys') /\ "ok" \in Phases
    BY <1>8 DEF c, Phases
  <2> QED
    BY <1>3, <2>1, NextPhase
<1>10. CallsGood(calls', keys')
  BY <1>9 DEF IsDone, Reached
<1> QED
  BY <1>2, <1>10, KeysStep DEF IsDone

LEMMA OtherKeySteps ==
    ASSUME IInv, NEW k \in Keys, RevokedElsewhere(k) \/ \E role \in Roles : IssuedElsewhere(k, role)
    PROVE  IInv'
<1>1. CallsGood(calls, keys) /\ ServerGood
  BY DEF IInv
<1>2. Aged(keys, keys') /\ keys' \in [Keys -> KeyRows] /\ UNCHANGED <<now, windows, counted, tab, calls>>
  <2>1. CASE RevokedElsewhere(k)
    BY <1>1, <2>1, RevokedAges DEF RevokedElsewhere
  <2>2. CASE \E role \in Roles : IssuedElsewhere(k, role)
    BY <1>1, <2>2, IssuedAges DEF IssuedElsewhere
  <2> QED
    BY <2>1, <2>2
<1>3. CallsGood(calls, keys')
  BY <1>1, <1>2, AgedCalls
<1> QED
  BY <1>2, <1>3, KeysStep

LEMMA TimeSteps ==
    ASSUME IInv, WrongCodeElsewhere \/ Tick \/ BackendRestart
    PROVE  IInv'
<1>1. ServerGood /\ TabGood /\ TokenIsKnown(token, keys) /\ CallsGood(calls, keys)
  BY DEF IInv
<1>2. UNCHANGED <<keys, tab>>
  BY DEF WrongCodeElsewhere, Tick, BackendRestart
<1>3. ServerGood'
  <2>1. CASE WrongCodeElsewhere
    <3>1. CountersGood'
      BY <1>1, <2>1, Counting DEF WrongCodeElsewhere, Subjects
    <3> QED
      BY <1>1, <2>1, <3>1 DEF WrongCodeElsewhere, ServerGood, CountersGood
  <2>2. CASE Tick
    <3>1. now' \in Times /\ now \in Times /\ now' = now + 1 /\ UNCHANGED <<keys, windows, counted>>
      BY <1>1, <2>2, AccessAssumption DEF Tick, ServerGood, Times
    <3>2. \A s \in Subjects : SpansGood(windows[s], counted[s], now + 1, Limit[s])
      BY <1>1, <3>1, LaterOn DEF ServerGood
    <3> QED
      BY <1>1, <3>1, <3>2 DEF ServerGood
  <2>3. CASE BackendRestart
    <3>1. NoWindow \in Windows /\ now \in Times
      BY <1>1, AccessAssumption DEF NoWindow, Windows, ServerGood
    <3>2. /\ UNCHANGED <<keys, now>>
          /\ windows' = [s \in Subjects |-> NoWindow]
          /\ counted' = [s \in Subjects |-> [t \in Times |-> 0]]
      BY <2>3 DEF BackendRestart
    <3>3. \A s \in Subjects : SpansGood(NoWindow, [t \in Times |-> 0], now, Limit[s])
      BY <3>1, NothingCounted, AccessAssumption
    <3>4. \A s \in Subjects : SpansGood(windows'[s], counted'[s], now', Limit[s])
      BY <3>2, <3>3
    <3>5. windows' \in [Subjects -> Windows] /\ counted' \in [Subjects -> [Times -> Nat]]
      BY <3>1, <3>2
    <3> QED
      BY <1>1, <3>2, <3>4, <3>5 DEF ServerGood
  <2> QED
    BY <2>1, <2>2, <2>3
<1>4. CallsGood(calls', keys)
  <2>1. CASE UNCHANGED calls
    BY <1>1, <2>1
  <2>2. CASE BackendRestart
    <3>1. calls' \in [Calls -> CallRows]
      <4>1. \A r \in Calls : [calls[r] EXCEPT !.phase = "failed"] \in CallRows
        BY <1>1 DEF CallsGood, CallRows, Phases
      <4> QED
        BY <1>1, <2>2, <4>1 DEF BackendRestart, CallsGood
    <3>2. \A r \in Calls : Good(calls'[r], keys)
      <4>1. \A r \in Calls : calls'[r] = calls[r] \/ calls'[r] = [calls[r] EXCEPT !.phase = "failed"]
        BY <2>2 DEF BackendRestart
      <4>2. \A r \in Calls : Good(calls[r], keys) /\ Good([calls[r] EXCEPT !.phase = "failed"], keys)
        BY CallFacts, PlainPhase
      <4> QED
        BY <4>1, <4>2, Zenon
    <3> QED
      BY <3>1, <3>2 DEF CallsGood
  <2> QED
    BY <2>1, <2>2 DEF WrongCodeElsewhere, Tick
<1>5. TabGood'
  BY <1>1, <1>2, TabKept
<1>6. TokenIsKnown(token, keys)' /\ CallsGood(calls, keys)'
  BY <1>1, <1>2, <1>4 DEF tab, TokenIsKnown
<1> QED
  BY <1>3, <1>5, <1>6 DEF IInv

-----------------------------------------------------------------------------
(* The tab's steps. *)

LEMMA TabFacts ==
    ASSUME IInv
    PROVE  /\ token \in Real \cup {NoCode} /\ user \in Real \cup {NoCode}
           /\ screen \in Screens /\ NavGood(nav) /\ crossed \in BOOLEAN
           /\ IdentityIsTheCodes /\ TokenIsKnown(token, keys)
           /\ CallsGood(calls, keys) /\ ServerGood
BY DEF IInv, TabGood

(* What is left to show of a step of the tab: its code, its page and its requests. *)
LEMMA TabStep ==
    ASSUME IInv, UNCHANGED server,
           token' \in Real \cup {NoCode}, user' \in Real \cup {NoCode}, TokenIsKnown(token', keys),
           crossed' \in BOOLEAN, IdentityIsTheCodes',
           screen' \in Screens, NavGood(nav'), CallsGood(calls', keys)
    PROVE  IInv'
<1>1. ServerGood'
  BY DEF IInv, ServerGood, server
<1>2. TabGood'
  BY DEF TabGood, NavGood
<1>3. TokenIsKnown(token, keys)' /\ CallsGood(calls, keys)'
  BY DEF server, TokenIsKnown
<1> QED
  BY <1>1, <1>2, <1>3 DEF IInv

(* The code and the identity as they were. *)
LEMMA CodeKeptStep ==
    ASSUME IInv, UNCHANGED server, UNCHANGED <<token, user, crossed>>,
           screen' \in Screens, NavGood(nav'), CallsGood(calls', keys)
    PROVE  IInv'
<1>1. token' \in Real \cup {NoCode} /\ user' \in Real \cup {NoCode} /\ TokenIsKnown(token', keys)
      /\ crossed' \in BOOLEAN
  BY TabFacts DEF TokenIsKnown
<1>2. IdentityIsTheCodes'
  BY TabFacts DEF IdentityIsTheCodes, Shown
<1> QED
  BY <1>1, <1>2, TabStep

LEMMA StayGood == NavGood(Stay) /\ \A page \in Screens : NavGood(To(page))
BY DEF NavGood, Navs, Stay, To, Screens, Panel

LEMMA DecidedGood ==
    ASSUME IInv, nav # Stay, NEW ok, Decided(ok)
    PROVE  screen' \in Screens /\ NavGood(nav')
<1>1. screen \in Screens /\ NavGood(nav)
  BY TabFacts
<1>2. nav.to \in Screens
  BY <1>1 DEF NavGood, Navs
<1>3. "panel" \in Screens /\ "login" \in Screens
  BY DEF Screens, Panel
<1>4. screen' \in {screen, "login", "panel", nav.to} /\ nav' \in {To("panel"), Stay, To("login")}
  BY Zenon DEF Decided
<1> QED
  BY <1>1, <1>2, <1>3, <1>4, StayGood

LEMMA StaysGood ==
    ASSUME IInv, StaysUnlessSignedOut
    PROVE  screen' \in Screens /\ NavGood(nav')
<1>1. screen \in Screens /\ NavGood(nav) /\ "login" \in Screens
  BY TabFacts DEF Screens
<1>2. screen' = screen /\ nav' \in {nav, To("login")}
  BY DEF StaysUnlessSignedOut
<1> QED
  BY <1>1, <1>2, StayGood

LEMMA PageLeftGood ==
    ASSUME NEW cs, CallsGood(cs, keys)
    PROVE  CallsGood(PageLeft(cs), keys)
BY QuietCalls, Zenon DEF PageLeft

LEMMA ClosedGood ==
    ASSUME IInv, NEW r \in Calls
    PROVE  CallsGood(Closed(r), keys)
<1>1. CallsGood([calls EXCEPT ![r] = NoCall], keys)
  BY OneCall, NoCallGood, TabFacts
<1> QED
  BY <1>1, PageLeftGood DEF Closed

LEMMA TokenCodes == ASSUME IInv PROVE token \in Codes \cup {NoCode} /\ (token \in Keys => keys[token] # NoKey)
BY TabFacts DEF Real, TokenIsKnown

LEMMA SentGood ==
    ASSUME IInv, NEW r \in Calls, NEW c \in CallRows, Good(c, keys), Sent(r, c)
    PROVE  CallsGood(calls', keys)
BY OneCall, TabFacts DEF Sent

LEMMA PageSteps ==
    ASSUME IInv, (\E page \in Screens : Visit(page)) \/ GuardKnows
    PROVE  IInv'
<1>1. UNCHANGED server /\ UNCHANGED <<token, user, crossed>> /\ calls' = PageLeft(calls)
  BY DEF Visit, GuardKnows, tab
<1>2. CallsGood(calls', keys)
  BY <1>1, PageLeftGood, TabFacts
<1>3. screen' \in Screens /\ NavGood(nav')
  <2>1. ASSUME NEW page \in Screens, Visit(page) PROVE screen' \in Screens /\ NavGood(nav')
    <3>1. screen' \in {page, screen} /\ nav' \in {Stay, To(page)}
      BY <2>1 DEF Visit
    <3> QED
      BY <3>1, StayGood, TabFacts
  <2>2. CASE GuardKnows
    BY <2>2, DecidedGood DEF GuardKnows
  <2> QED
    BY <2>1, <2>2
<1> QED
  BY <1>1, <1>2, <1>3, CodeKeptStep

LEMMA SendSteps ==
    ASSUME IInv, NEW r \in Calls,
           \/ GuardAsks(r) \/ PanelCalls(r) \/ IssueKey(r)
           \/ \E code \in Codes : SubmitCode(r, code)
           \/ \E k \in Keys : RevokeKey(r, k)
    PROVE  IInv'
<1>1. CASE GuardAsks(r)
  <2>1. CallsGood(calls', keys)
    BY <1>1, TokenCodes, CallIsGood, SentGood DEF GuardAsks
  <2>2. nav' = [nav EXCEPT !.asks = r] /\ nav # Stay /\ NavGood(nav)
    BY <1>1, TabFacts DEF GuardAsks
  <2>3. NavGood(nav')
    BY <2>2 DEF NavGood, Navs
  <2> QED
    BY <1>1, <2>1, <2>3, CodeKeptStep, TabFacts DEF GuardAsks
<1>2. CASE PanelCalls(r) \/ IssueKey(r) \/ \E code \in Codes : SubmitCode(r, code)
  <2>1. CallsGood(calls', keys)
    <3>1. CASE PanelCalls(r)
      BY <3>1, TokenCodes, CallIsGood, SentGood DEF PanelCalls
    <3>2. CASE IssueKey(r)
      BY <3>2, TokenCodes, CallIsGood, SentGood DEF IssueKey
    <3>3. ASSUME NEW code \in Codes, SubmitCode(r, code) PROVE CallsGood(calls', keys)
      BY <3>3, CallIsGood, SentGood DEF SubmitCode
    <3> QED
      BY <1>2, <3>1, <3>2, <3>3
  <2>2. UNCHANGED <<server, tab>>
    BY <1>2 DEF PanelCalls, IssueKey, SubmitCode
  <2> QED
    BY <2>1, <2>2, CodeKeptStep, TabFacts DEF tab
<1>3. ASSUME NEW k \in Keys, RevokeKey(r, k) PROVE IInv'
  <2>1. keys[k] # NoKey /\ UNCHANGED <<server, tab>>
        /\ Sent(r, [Call("revoke", token) EXCEPT !.key = k, !.mine = Shown(token, user) = k, !.busy = TRUE])
    BY <1>3 DEF RevokeKey
  <2>2. CallsGood(calls', keys)
    BY <2>1, TokenCodes, RevokeIsGood, SentGood
  <2> QED
    BY <2>1, <2>2, CodeKeptStep, TabFacts DEF tab
<1> QED
  BY <1>1, <1>2, <1>3

(* A request answered well carries a real code; one sent from here has a known row. *)
LEMMA OkFacts ==
    ASSUME IInv, NEW r \in Calls, calls[r].phase = "ok"
    PROVE  calls[r].code \in Real /\ TokenIsKnown(calls[r].code, keys) /\ calls[r].code # NoCode
<1>1. Good(calls[r], keys)
  BY CallFacts
<1>2. calls[r].code \in Real /\ TokenIsKnown(calls[r].code, keys)
  BY <1>1 DEF Good, TokenIsKnown
<1>3. NoCode \notin Real
  BY AccessAssumption DEF Real, Codes
<1> QED
  BY <1>2, <1>3

(* Ending a session, or signing out of it, shows nobody. *)
CodeGood ==
    /\ token \in Real \cup {NoCode} /\ user \in Real \cup {NoCode}
    /\ TokenIsKnown(token, keys) /\ crossed \in BOOLEAN /\ IdentityIsTheCodes

LEMMA EndedGood ==
    ASSUME IInv, UNCHANGED server, EndSession \/ SignedOut \/ UNCHANGED <<token, user, crossed>>
    PROVE  CodeGood'
<1>1. keys' = keys /\ NoCode \notin Keys
  BY AccessAssumption DEF server
<1>2. CASE UNCHANGED <<token, user, crossed>>
  BY <1>1, <1>2, TabFacts DEF CodeGood, IdentityIsTheCodes, Shown, TokenIsKnown
<1>3. CASE EndSession \/ SignedOut
  <2>1. token' = NoCode /\ user' \in {user, NoCode} /\ crossed' = crossed
    BY <1>3 DEF EndSession, SignedOut
  <2> QED
    BY <1>1, <2>1, TabFacts DEF CodeGood, IdentityIsTheCodes, Shown, TokenIsKnown
<1> QED
  BY <1>2, <1>3

LEMMA AnswerStep ==
    ASSUME IInv, UNCHANGED server, CodeGood', screen' \in Screens, NavGood(nav'), CallsGood(calls', keys)
    PROVE  IInv'
BY TabStep DEF CodeGood, server

LEMMA SignInStep ==
    ASSUME IInv, NEW r \in Calls, SignInAnswered(r)
    PROVE  IInv'
<1>1. UNCHANGED server /\ screen' = screen /\ CallsGood(calls', keys)
  BY ClosedGood DEF SignInAnswered
<1>2. CASE calls[r].phase = "ok"
  <2>1. token' = calls[r].code /\ user' = calls[r].code /\ crossed' = FALSE /\ nav' = To("panel")
    BY <1>2 DEF SignInAnswered, SignedIn
  <2>2. CodeGood'
    BY <1>1, <1>2, <2>1, OkFacts DEF CodeGood, IdentityIsTheCodes, Shown, TokenIsKnown, server
  <2>3. "panel" \in Screens
    BY DEF Screens, Panel
  <2> QED
    BY <1>1, <2>1, <2>2, <2>3, AnswerStep, StayGood, TabFacts
<1>3. CASE calls[r].phase # "ok"
  BY <1>1, <1>3, CodeKeptStep, TabFacts DEF SignInAnswered
<1> QED
  BY <1>2, <1>3

LEMMA RestoreStep ==
    ASSUME IInv, NEW r \in Calls, RestoreAnswered(r)
    PROVE  IInv'
<1>1. UNCHANGED server /\ CallsGood(calls', keys)
  BY ClosedGood DEF RestoreAnswered
<1>2. CodeGood'
  <2>1. CASE calls[r].phase = "ok"
    <3>1. user' = calls[r].code /\ crossed' = (crossed \/ calls[r].code # token) /\ token' = token
      BY <2>1 DEF RestoreAnswered
    <3>2. calls[r].code \in Real
      BY <2>1, OkFacts
    <3>3. crossed' \in BOOLEAN /\ (user' = token' \/ crossed')
      BY <3>1
    <3>4. IdentityIsTheCodes'
      <4>1. Shown(token', user') # NoCode => user' = token' \/ crossed'
        BY <3>3
      <4> QED
        BY <4>1 DEF IdentityIsTheCodes
    <3> QED
      BY <1>1, <3>1, <3>2, <3>3, <3>4, TabFacts DEF CodeGood, TokenIsKnown, server
  <2>2. CASE calls[r].phase # "ok"
    BY <1>1, <2>2, EndedGood DEF RestoreAnswered, KeptOrEnded
  <2> QED
    BY <2>1, <2>2
<1>3. screen' \in Screens /\ NavGood(nav')
  <2>1. CASE nav.asks = r
    <3>1. nav # Stay
      BY <2>1, AccessAssumption DEF Stay
    <3>2. Decided(calls[r].phase = "ok")
      BY <2>1 DEF RestoreAnswered
    <3> QED
      BY <3>1, <3>2, DecidedGood
  <2>2. CASE nav.asks # r
    BY <2>2, StaysGood DEF RestoreAnswered
  <2> QED
    BY <2>1, <2>2
<1> QED
  BY <1>1, <1>2, <1>3, AnswerStep

LEMMA AfterCallStep ==
    ASSUME IInv, NEW r \in Calls, CallAnswered(r) \/ IssueAnswered(r) \/ RevokeAnswered(r)
    PROVE  IInv'
<1>1. UNCHANGED server /\ screen' \in Screens /\ NavGood(nav')
  BY StaysGood DEF CallAnswered, IssueAnswered, RevokeAnswered
<1>2. CodeGood'
  BY <1>1, EndedGood DEF CallAnswered, IssueAnswered, RevokeAnswered, KeptOrEnded
<1>3. CallsGood(calls', keys)
  <2>1. CallsGood(Closed(r), keys) /\ CallsGood(calls, keys)
    BY ClosedGood, TabFacts
  <2>2. /\ Call("call", token) \in CallRows /\ Good(Call("call", token), keys)
        /\ [Call("call", token) EXCEPT !.busy = calls[r].busy] \in CallRows
        /\ Good([Call("call", token) EXCEPT !.busy = calls[r].busy], keys)
    <3>1. calls[r].busy \in BOOLEAN
      BY CallFacts DEF CallRows
    <3> QED
      BY <3>1, TokenCodes, CallIsGood
  <2>3. \/ calls' = Closed(r)
        \/ calls' = [calls EXCEPT ![r] = [Call("call", token) EXCEPT !.busy = calls[r].busy]]
        \/ calls' = [calls EXCEPT ![r] = Call("call", token)]
    BY Zenon DEF CallAnswered, IssueAnswered, RevokeAnswered
  <2> QED
    BY <2>1, <2>2, <2>3, OneCall
<1> QED
  BY <1>1, <1>2, <1>3, AnswerStep

LEMMA LeavingSteps ==
    ASSUME IInv, SignOut \/ Reload
    PROVE  IInv'
<1>1. CASE SignOut
  <2>1. UNCHANGED server /\ SignedOut /\ StaysUnlessSignedOut /\ calls' = calls
    BY <1>1 DEF SignOut
  <2>2. CodeGood'
    BY <2>1, EndedGood
  <2>3. screen' \in Screens /\ NavGood(nav')
    BY <2>1, StaysGood
  <2> QED
    BY <2>1, <2>2, <2>3, AnswerStep, TabFacts
<1>2. CASE Reload
  <2>1. UNCHANGED server /\ token' = token /\ user' = NoCode /\ crossed' = FALSE /\ screen' = "elsewhere"
    BY <1>2 DEF Reload
  <2>2. CodeGood'
    BY <2>1, TabFacts DEF CodeGood, IdentityIsTheCodes, Shown, TokenIsKnown, server
  <2>3. CallsGood(calls', keys)
    <3>1. calls' = [r \in Calls |-> NoCall]
      BY <1>2 DEF Reload
    <3> QED
      BY <3>1, NoCallGood DEF CallsGood
  <2>4. "elsewhere" \in Screens /\ screen \in Screens /\ NavGood(nav)
    BY TabFacts DEF Screens
  <2>5. nav # Stay => nav.to \in Screens
    BY <2>4 DEF NavGood, Navs
  <2>6. nav' = IF nav # Stay THEN To(nav.to) ELSE To(screen)
    BY <1>2 DEF Reload
  <2>7. NavGood(nav')
    BY <2>4, <2>5, <2>6, StayGood, Zenon
  <2> QED
    BY <2>1, <2>2, <2>3, <2>4, <2>7, AnswerStep
<1> QED
  BY <1>1, <1>2

-----------------------------------------------------------------------------
(* The theorems. *)

LEMMA InitHolds == Init => IInv
<1> SUFFICES ASSUME Init PROVE IInv
  OBVIOUS
<1>1. ServerGood
  <2>1. NoKey \in KeyRows /\ NoWindow \in Windows /\ 0 \in Times
    BY AccessAssumption DEF NoKey, KeyRows, Roles, NoWindow, Windows, Times
  <2>2. \A s \in Subjects : SpansGood(NoWindow, [t \in Times |-> 0], 0, Limit[s])
    BY <2>1, NothingCounted, AccessAssumption
  <2>3. \A s \in Subjects : SpansGood(windows[s], counted[s], now, Limit[s])
    BY <2>2 DEF Init
  <2>4. windows \in [Subjects -> Windows] /\ counted \in [Subjects -> [Times -> Nat]]
    BY <2>1 DEF Init
  <2> QED
    BY <2>1, <2>3, <2>4 DEF Init, ServerGood
<1>2. TabGood
  BY StayGood DEF Init, TabGood, Screens, IdentityIsTheCodes, Shown
<1>3. TokenIsKnown(token, keys)
  BY AccessAssumption DEF Init, TokenIsKnown
<1>4. CallsGood(calls, keys)
  BY NoCallGood DEF Init, CallsGood
<1> QED
  BY <1>1, <1>2, <1>3, <1>4 DEF IInv

LEMMA StutterHolds == IInv /\ UNCHANGED vars => IInv'
<1> SUFFICES ASSUME IInv, UNCHANGED vars PROVE IInv'
  OBVIOUS
<1>1. UNCHANGED server /\ UNCHANGED tab /\ calls' = calls
  BY DEF vars
<1> QED
  BY <1>1, CodeKeptStep, TabFacts DEF tab

LEMMA NextHolds == IInv /\ Next => IInv'
<1> SUFFICES ASSUME IInv, Next PROVE IInv'
  OBVIOUS
<1>1. ASSUME NEW r \in Calls, Server(r) PROVE IInv'
  BY <1>1, ServerSteps, IsDoneStep DEF Server
<1>2. ASSUME NEW r \in Calls, Answered(r) PROVE IInv'
  BY <1>2, SignInStep, RestoreStep, AfterCallStep DEF Answered
<1>3. ASSUME NEW r \in Calls,
             \/ GuardAsks(r) \/ PanelCalls(r) \/ IssueKey(r)
             \/ \E code \in Codes : SubmitCode(r, code)
             \/ \E k \in Keys : RevokeKey(r, k)
      PROVE IInv'
  BY <1>3, SendSteps
<1>4. CASE (\E page \in Screens : Visit(page)) \/ GuardKnows
  BY <1>4, PageSteps
<1>5. CASE SignOut \/ Reload
  BY <1>5, LeavingSteps
<1>6. ASSUME NEW k \in Keys, RevokedElsewhere(k) \/ \E role \in Roles : IssuedElsewhere(k, role) PROVE IInv'
  BY <1>6, OtherKeySteps
<1>7. CASE WrongCodeElsewhere \/ Tick \/ BackendRestart
  BY <1>7, TimeSteps
<1> QED
  BY <1>1, <1>2, <1>3, <1>4, <1>5, <1>6, <1>7 DEF Next

(* The inductive invariant: what is typed, known and shown stays so. *)
THEOREM AccessInvariance == Spec => []IInv
<1>1. Init => IInv
  BY InitHolds
<1>2. IInv /\ [Next]_vars => IInv'
  BY NextHolds, StutterHolds
<1> QED
  BY <1>1, <1>2, PTL DEF Spec

(* Every variable keeps its type: in particular the code kept is never one  *)
(* the server does not know, and no count or window leaves its range.       *)
THEOREM AccessTypeCorrect == Spec => []TypeOK
<1>1. IInv => TypeOK
  BY DEF IInv, ServerGood, TabGood, CallsGood, NavGood, TypeOK, KeyRows, Windows, Real, Navs, CallRows, Phases
<1> QED
  BY <1>1, AccessInvariance, PTL

(* The panel never shows another person than the one whose code it sends,   *)
(* but for an answer that crossed a sign-in (admin-session.service.ts).     *)
THEOREM IdentityStaysTheCodes == Spec => []IdentityIsTheCodes
<1>1. IInv => IdentityIsTheCodes
  BY DEF IInv, TabGood
<1> QED
  BY <1>1, AccessInvariance, PTL

LEMMA ClosedIsNoCall ==
    ASSUME IInv, NEW r \in Calls
    PROVE  Closed(r)[r] = NoCall
<1> DEFINE cs == [calls EXCEPT ![r] = NoCall]
<1>0. calls \in [Calls -> CallRows]
  BY CallFacts
<1>1. cs[r] = NoCall
  BY <1>0
<1>2. [NoCall EXCEPT !.busy = FALSE] = NoCall
  <2>1. NoCall = [kind |-> "none", code |-> NoCode, key |-> NoCode, mine |-> FALSE, busy |-> FALSE, phase |-> "idle"]
    BY DEF NoCall
  <2>2. NoCall.busy = FALSE
    BY <2>1
  <2>3. [NoCall EXCEPT !.busy = NoCall.busy] = NoCall
    BY <2>1
  <2> QED
    BY <2>2, <2>3
<1> HIDE DEF cs
<1>3. PageLeft(cs)[r] = NoCall
  BY <1>1, <1>2 DEF PageLeft
<1> QED
  BY <1>3 DEF Closed, cs

LEMMA RejectionEnds ==
    ASSUME IInv, NEW r \in Calls, calls[r].phase = "rejected", calls' = Closed(r)
    PROVE  EndsForAReason
<1>1. Good(calls[r], keys)
  BY CallFacts
<1>2. CASE calls[r].code = token
  <2>1. ~Valid(token)
    BY <1>1, <1>2 DEF Good, Valid
  <2> QED
    BY <2>1 DEF EndsForAReason
<1>3. CASE calls[r].code # token
  <2>1. calls'[r] = NoCall
    BY ClosedIsNoCall
  <2> QED
    BY <1>3, <2>1 DEF EndsForAReason
<1> QED
  BY <1>2, <1>3

LEMMA EndingStep ==
    ASSUME IInv, Next, token # NoCode, token' = NoCode
    PROVE  EndsForAReason
<1>1. CASE SignOut
  BY <1>1 DEF EndsForAReason
<1>2. ASSUME NEW r \in Calls, SignInAnswered(r) PROVE EndsForAReason
  <2>1. calls[r].phase = "ok" /\ token' = calls[r].code
    BY <1>2 DEF SignInAnswered, SignedIn
  <2> QED
    BY <2>1, OkFacts
<1>3. ASSUME NEW r \in Calls, RestoreAnswered(r) \/ CallAnswered(r) PROVE EndsForAReason
  <2>1. calls[r].phase = "rejected" /\ calls' = Closed(r)
    BY <1>3 DEF RestoreAnswered, CallAnswered, KeptOrEnded, IsCredentialRejection
  <2> QED
    BY <2>1, RejectionEnds
<1>4. ASSUME NEW r \in Calls, IssueAnswered(r) PROVE EndsForAReason
  <2>1. calls[r].phase = "rejected" /\ calls' = Closed(r)
    BY <1>4 DEF IssueAnswered, KeptOrEnded, IsCredentialRejection
  <2> QED
    BY <2>1, RejectionEnds
<1>5. ASSUME NEW r \in Calls, RevokeAnswered(r) PROVE EndsForAReason
  <2>1. CASE calls[r].phase = "ok" /\ calls[r].mine
    <3>1. calls' = Closed(r) /\ calls[r].kind = "revoke"
      BY <1>5, <2>1 DEF RevokeAnswered
    <3>2. calls[r].key \in Keys /\ keys[calls[r].key].state = "revoked"
      BY <2>1, <3>1, CallFacts DEF Good
    <3>3. CASE calls[r].key = token
      <4>1. ~Valid(token)
        BY <3>2, <3>3, AccessAssumption DEF Valid
      <4> QED
        BY <4>1 DEF EndsForAReason
    <3>4. CASE calls[r].key # token
      <4>1. calls'[r] = NoCall
        BY <3>1, ClosedIsNoCall
      <4> QED
        BY <2>1, <3>4, <4>1 DEF EndsForAReason
    <3> QED
      BY <3>3, <3>4
  <2>2. CASE ~(calls[r].phase = "ok" /\ calls[r].mine)
    <3>1. calls[r].phase = "rejected" /\ calls' = Closed(r)
      BY <1>5, <2>2 DEF RevokeAnswered, KeptOrEnded, IsCredentialRejection
    <3> QED
      BY <3>1, RejectionEnds
  <2> QED
    BY <2>1, <2>2
<1>6. ASSUME UNCHANGED token PROVE EndsForAReason
  BY <1>6
<1>7. ASSUME NEW r \in Calls, Server(r) PROVE UNCHANGED token
  BY <1>7 DEF Server, IsWrong, IsValid, LimitsUploads, HasNoCode, IsDone, Fails, tab
<1>8. ASSUME NEW r \in Calls,
             \/ GuardAsks(r) \/ PanelCalls(r) \/ IssueKey(r)
             \/ \E code \in Codes : SubmitCode(r, code)
             \/ \E k \in Keys : RevokeKey(r, k)
      PROVE UNCHANGED token
  BY <1>8 DEF GuardAsks, PanelCalls, IssueKey, SubmitCode, RevokeKey, tab
<1>9. ASSUME \/ \E page \in Screens : Visit(page)
             \/ GuardKnows \/ Reload
             \/ \E k \in Keys : RevokedElsewhere(k) \/ \E role \in Roles : IssuedElsewhere(k, role)
             \/ WrongCodeElsewhere \/ Tick \/ BackendRestart
      PROVE UNCHANGED token
  BY <1>9 DEF Visit, GuardKnows, Reload, RevokedElsewhere, IssuedElsewhere, WrongCodeElsewhere, Tick,
              BackendRestart, tab
<1> QED
  BY <1>1, <1>2, <1>3, <1>4, <1>5, <1>6, <1>7, <1>8, <1>9 DEF Next, Answered

(* No refusal, limit or outage ends a session whose code is good: only a     *)
(* sign-out, a rejected code or an answer of an earlier session does         *)
(* (admin-api.service.ts, AdminSession.endSession).                                  *)
THEOREM SessionsAreNotLost == Spec => SessionsEndForAReason
<1>1. IInv /\ [Next]_vars => [token # NoCode /\ token' = NoCode => EndsForAReason]_vars
  BY EndingStep
<1> QED
  BY <1>1, AccessInvariance, PTL DEF Spec, SessionsEndForAReason


-----------------------------------------------------------------------------
LEMMA UptoIsBefore ==
    ASSUME NEW s \in Subjects, NEW t \in Times
    PROVE  Upto(counted[s], t) = Before(s, t)
BY DEF Upto, Before

LEMMA GuessesOfState == IInv => GuessesAreBounded
<1> SUFFICES ASSUME IInv PROVE GuessesAreBounded
  OBVIOUS
<1>1. ASSUME NEW s \in Subjects, NEW t \in Times, NEW u \in Times, t <= u, u < t + Window
      PROVE  counted[s][u] < Before(s, t) + 2 * Limit[s]
  <2>1. SpansGood(windows[s], counted[s], now, Limit[s])
    BY DEF IInv, ServerGood
  <2>2. counted[s][u] < Upto(counted[s], t) + 2 * Limit[s]
    BY <1>1, <2>1 DEF SpansGood
  <2> QED
    BY <2>2, UptoIsBefore
<1>2. ASSUME NEW r \in Calls, calls[r].phase = "limited", Valid(calls[r].code)
      PROVE  calls[r].kind = "call" /\ IsAuthor(calls[r].code)
  <2>1. Good(calls[r], keys)
    BY DEF IInv, CallsGood
  <2>2. calls[r].code # Bootstrap /\ calls[r].code \in Keys /\ keys[calls[r].code].state = "live"
    BY <1>2, <2>1 DEF Good, Valid
  <2>3. calls[r].kind = "call" /\ keys[calls[r].code].role = "author"
    BY <1>2, <2>1, <2>2 DEF Good
  <2> QED
    BY <2>2, <2>3 DEF IsAuthor, RoleOf
<1> QED
  BY <1>1, <1>2 DEF GuessesAreBounded

(* However guesses straddle the end of a window, less than twice the limit  *)
(* passes in any span as long as a window, and the limit of an address      *)
(* never turns away a code that is good when it is answered                 *)
(* (rate-limits.js, auth.js: the principal is resolved before counting).    *)
THEOREM GuessesStayBounded == Spec => []GuessesAreBounded
BY AccessInvariance, GuessesOfState, PTL

=============================================================================
