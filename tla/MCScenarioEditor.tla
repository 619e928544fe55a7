--------------------------- MODULE MCScenarioEditor ---------------------------
(* ScenarioEditor on a small instance; no formula names a scenario or a title. *)
EXTENDS ScenarioEditor, TLC

Interchangeable == Permutations(Scenarios) \cup Permutations(Titles)

=============================================================================
