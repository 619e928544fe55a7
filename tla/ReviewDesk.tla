----------------------------- MODULE ReviewDesk -----------------------------
(***************************************************************************)
(* The moderation queue (pages/admin/queue) in front of Publishing.  A     *)
(* moderator's browser shows cards from its last load; everything the      *)
(* authors and the other moderators do goes on meanwhile.  A card of a     *)
(* published scenario with a waiting archive is a proposal and its buttons *)
(* send the version id; any other card's buttons send the scenario id only.*)
(***************************************************************************)
EXTENDS Publishing

VARIABLE card   \* card[m]: the card moderator m is looking at, or NoCard

deskVars == <<scenario, version, lastId, request, letThrough, card>>

NoCard == [proposal |-> FALSE]

DeskInit ==
    /\ Init
    /\ card = [m \in Moderators |-> NoCard]

(* A decision the server carries out ends with a fresh load of the queue. *)
Reloaded(m) == card' = [card EXCEPT ![m] = NoCard]

(* rows -> pending -> cards: a proposal only while the row is published. *)
OpenCard(m, s) ==
    /\ card[m] = NoCard
    /\ \/ \E v \in PendingOf(s) :
             /\ scenario[s].status = "published"
             /\ card' = [card EXCEPT ![m] = [scn |-> s, proposal |-> TRUE, vid |-> v,
                                             archive |-> version[v].archive]]
       \/ \E v \in CurrentOf(s) :
             /\ scenario[s].status = "review" \/ PendingOf(s) # {}
             /\ scenario[s].status # "published"
             /\ card' = [card EXCEPT ![m] = [scn |-> s, proposal |-> FALSE, vid |-> 0,
                                             archive |-> version[v].archive]]
    /\ UNCHANGED vars

(* Slip: the accept route takes whatever is pending now. *)
AcceptPendingNow(m, c) == \E v \in PendingOf(c.scn) : Accept(m, c.scn, v)

AcceptShown(m, c) == Accept(m, c.scn, c.vid)

(* decide(card, 'approve') *)
PublishCard(m) ==
    /\ card[m] # NoCard
    /\ IF card[m].proposal THEN AcceptShown(m, card[m])
       ELSE ApplyTransition(m, card[m].scn, "approve")
    /\ Reloaded(m)

(* decide(card, 'reject') *)
ReturnCard(m) ==
    /\ card[m] # NoCard
    /\ IF card[m].proposal THEN RejectVersion(m, card[m].scn, card[m].vid)
       ELSE ApplyTransition(m, card[m].scn, "reject")
    /\ Reloaded(m)

(* The server refused (the card shows why), or the moderator left the page. *)
CloseCard(m) ==
    /\ card[m] # NoCard
    /\ Reloaded(m)
    /\ UNCHANGED vars

DeskNext ==
    \/ Next /\ UNCHANGED card
    \/ \E m \in Moderators :
          \/ \E s \in Scenarios : OpenCard(m, s)
          \/ PublishCard(m) \/ ReturnCard(m) \/ CloseCard(m)

DeskSpec == DeskInit /\ [][DeskNext]_deskVars

-----------------------------------------------------------------------------

(* m's decision on its card has just changed the database. *)
Decided(m) == card[m] # NoCard /\ card'[m] = NoCard /\ (scenario' # scenario \/ version' # version)

(***************************************************************************)
(* A decision on a proposal is about the archive on the card: accepting    *)
(* puts that archive before the students, and neither decision takes any   *)
(* other waiting proposal away - although the author may have replaced the *)
(* proposal, and a moderator decided it, since the card was loaded.        *)
(***************************************************************************)
ProposalDecisionIsOnTheCard ==
    [][\A m \in Moderators, s \in Scenarios :
          Decided(m) /\ card[m].proposal /\ card[m].scn = s =>
             /\ scenario' # scenario => scenario'[s].archive = card[m].archive
             /\ PendingOf(s)' = PendingOf(s) \ {card[m].vid}]_deskVars

(***************************************************************************)
(* versions.js 91: an upload under review is refused so that "a moderator  *)
(* never reviews bytes that then change".  Publishing from a card that is  *)
(* not a proposal names the scenario only: the author may withdraw, upload *)
(* and submit again under the moderator's eyes.                            *)
(***************************************************************************)
PublishesWhatWasReviewed ==
    [][\A m \in Moderators :
          Decided(m) /\ ~card[m].proposal /\ scenario'[card[m].scn].status = "published"
             => scenario'[card[m].scn].archive = card[m].archive]_deskVars

=============================================================================
