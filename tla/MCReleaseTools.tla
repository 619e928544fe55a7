--------------------------- MODULE MCReleaseTools ---------------------------
(* ReleaseTools on a small instance.  Two processes, one of an older image;   *)
(* three catalog ids: one public, one not, and the row the latter replaces.   *)
EXTENDS ReleaseTools

CONSTANTS old, new, lab, bench, legacy, o1, o2

MCFiles == [b \in Instances |-> IF b = old THEN {1} ELSE {1, 2}]
MCMetadata == [s \in InRelease |-> [published |-> s = lab, supersedes |-> IF s = bench THEN {legacy} ELSE {}]]
MCObjects == <<[s \in Scenarios |-> IF s = legacy THEN {} ELSE {o1}],
               [s \in Scenarios |-> IF s = lab THEN {o1, o2} ELSE {}]>>

(* The processes start, stop and load their key before the scripts do        *)
(* anything.  The scripts work one at a time, publishing before importing,   *)
(* with one process or none; calls may fail at any time.                     *)
NothingImported == importer = Idle /\ assets.objects = {} /\ torn.scenarios = {}
StartsOnly == publisher = Rest /\ others = 0 /\ NothingImported /\ \A s \in InRelease : ~Exists(s)
ScriptsOnly ==
    /\ pc[old] = "down" /\ pc[new] \in {"down", "listening"} /\ ~ending[new] /\ keyPc[new] = "idle"
    /\ keyFile = "absent" /\ applied = {1, 2}
    /\ NothingImported \/ (publisher.at = "rest" /\ others = 0)

OneAtATime == StartsOnly \/ ScriptsOnly

=============================================================================
