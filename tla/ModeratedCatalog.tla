-------------------------- MODULE ModeratedCatalog --------------------------
(***************************************************************************)
(* What the publishing backend promises the students, with no rows, locks, *)
(* statuses or uploads in it: every scenario has a set of archives on      *)
(* offer (its history) and at most one of them shown.  Whatever is shown   *)
(* was on offer before or with the step that shows it, and is not          *)
(* withdrawn from the history while it is shown.  Publishing implements    *)
(* this specification.                                                     *)
(***************************************************************************)
CONSTANTS
    Scenarios,   \* catalog ids
    Archives,    \* archive contents, one per SHA-256
    NoArchive    \* nothing is shown

VARIABLES
    offered,     \* offered[s]: the archives in the history of s
    shown        \* shown[s]: the archive students play, or NoArchive

vars == <<offered, shown>>

Init ==
    /\ offered = [s \in Scenarios |-> {}]
    /\ shown = [s \in Scenarios |-> NoArchive]

(***************************************************************************)
(* The history of s gains an archive; it may lose others in the same step  *)
(* (a new proposal replaces the earlier one), the shown one never.         *)
(***************************************************************************)
Offer(s, a) ==
    \E rest \in SUBSET offered[s] :
        /\ shown[s] \in rest \cup {NoArchive}
        /\ offered' = [offered EXCEPT ![s] = rest \cup {a}]
        /\ UNCHANGED shown

Retract(s) ==
    \E rest \in SUBSET offered[s] :
        /\ shown[s] \in rest \cup {NoArchive}
        /\ offered' = [offered EXCEPT ![s] = rest]
        /\ UNCHANGED shown

(* Students get a: it is on offer already, or offered by the same step. *)
Show(s, a) ==
    /\ offered' \in {offered, [offered EXCEPT ![s] = @ \cup {a}]}
    /\ a \in offered'[s]
    /\ shown' = [shown EXCEPT ![s] = a]

Hide(s) ==
    /\ shown' = [shown EXCEPT ![s] = NoArchive]
    /\ UNCHANGED offered

(* The scenario is deleted with its history. *)
Remove(s) ==
    /\ offered' = [offered EXCEPT ![s] = {}]
    /\ shown' = [shown EXCEPT ![s] = NoArchive]

Next ==
    \E s \in Scenarios :
        \/ \E a \in Archives : Offer(s, a) \/ Show(s, a)
        \/ Retract(s)
        \/ Hide(s)
        \/ Remove(s)

Spec == Init /\ [][Next]_vars

=============================================================================
