------------------------------ MODULE MCToolWave ------------------------------
(* The instance of ToolWave that TLC checks: single calls, and the pairs that *)
(* overlap, that are cut into two waves, or of which one is not run.          *)
EXTENDS ToolWave

MCSingles == {<<k>> : k \in {"search", "read", "edit", "check"}}
MCPairs ==
    {<<"shell", k>> : k \in {"search", "read", "tests"}}
    \cup {<<"session", "read">>, <<"edit", "tests">>,
          <<"search", "map">>, <<"search", "search">>}
MCBatches == [n \in 1..MaxBatches |-> IF n = 1 THEN MCPairs \cup MCSingles ELSE MCSingles]
===============================================================================
