----------------------------- MODULE MCAgentTurn -----------------------------
(* The instance of AgentTurn that TLC checks: one code file, one document.  *)
EXTENDS AgentTurn

CONSTANTS src, doc

MCFiles == {src, doc}
MCCodeFiles == {src}
MCNoFiles == {}
MCAllVerdicts == Verdicts
(* A cached answer is only of interest where there is a suite: without one,  *)
(* looking for it first leads to the same turns.                            *)
MCProjects == {p \in [runner : {"unset", "suite", "none"}, hasSuite : BOOLEAN] :
                  p.runner = "unset" \/ p.hasSuite}
MCNoSuite == {[runner |-> "unset", hasSuite |-> FALSE]}
MCNoVerdicts == {NoVerdict}
==============================================================================
