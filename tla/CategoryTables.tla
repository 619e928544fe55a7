--------------------------- MODULE CategoryTables ---------------------------
(***************************************************************************)
(* What the routes about categories promise together, with no locks,       *)
(* statements or transactions in it: each act on the two tables happens at *)
(* once, on the tables as they are then.  A move takes the label the       *)
(* category has, a rename reaches every scenario in it, no label is        *)
(* overwritten by an insert, and a category a scenario was moved into      *)
(* under lock is not deleted.  Categories implements this specification.   *)
(***************************************************************************)
CONSTANTS Scenarios, Slugs, Labels, Absent

VARIABLES
    category,   \* category[c]: the label of c, or Absent
    scenario    \* scenario[s]: its category, its copy of the label, whether it was moved under lock

vars == <<category, scenario>>

Row(c, l, locked) == [category |-> c, label |-> l, locked |-> locked]

IsThere(s) == scenario[s] # Absent

Init ==
    /\ category \in [Slugs -> Labels \cup {Absent}]
    /\ scenario \in [Scenarios -> [category : Slugs, label : Labels, locked : {FALSE}] \cup {Absent}]

Add(c, l) ==
    /\ category[c] = Absent
    /\ category' = [category EXCEPT ![c] = l]
    /\ UNCHANGED scenario

Rename(c, l) ==
    /\ category[c] # Absent
    /\ category' = [category EXCEPT ![c] = l]
    /\ scenario' = [s \in Scenarios |->
                      IF IsThere(s) /\ scenario[s].category = c
                      THEN Row(c, l, scenario[s].locked) ELSE scenario[s]]

Delete(c) ==
    /\ category[c] # Absent
    /\ \A s \in Scenarios : IsThere(s) /\ scenario[s].locked => scenario[s].category # c
    /\ category' = [category EXCEPT ![c] = Absent]
    /\ UNCHANGED scenario

(* Into a category that is there, with the label it has. *)
Move(s, c) ==
    /\ IsThere(s) /\ category[c] # Absent
    /\ scenario' = [scenario EXCEPT ![s] = Row(c, category[c], TRUE)]
    /\ UNCHANGED category

(* Created or edited: category and label as they are sent; a missing category may come with it. *)
Put(s, c, l) ==
    /\ scenario' = [scenario EXCEPT ![s] = Row(c, l, FALSE)]
    /\ \/ UNCHANGED category
       \/ /\ category[c] = Absent
          /\ \E name \in Labels : category' = [category EXCEPT ![c] = name]

Drop(s) ==
    /\ IsThere(s)
    /\ scenario' = [scenario EXCEPT ![s] = Absent]
    /\ UNCHANGED category

Next ==
    \/ \E c \in Slugs, l \in Labels : Add(c, l) \/ Rename(c, l)
    \/ \E c \in Slugs : Delete(c)
    \/ \E s \in Scenarios :
          \/ \E c \in Slugs : Move(s, c)
          \/ \E c \in Slugs, l \in Labels : Put(s, c, l)
          \/ Drop(s)

Spec == Init /\ [][Next]_vars

=============================================================================
