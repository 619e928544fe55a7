------------------------------ MODULE MCAccess ------------------------------
(* Access on a small instance: two guesses and one upload in a window of two. *)
EXTENDS Access, TLC

MCLimit == [s \in Subjects |-> IF s = Address THEN 2 ELSE 1]

(* The clock moves while the tab is quiet; wrong codes and limits meet it at time 0. *)
QuietWhileTimePasses == now = 0 \/ (screen = "elsewhere" /\ nav = Stay /\ \A r \in Calls : calls[r] = NoCall)

Interchangeable == Permutations(Calls)

=============================================================================
