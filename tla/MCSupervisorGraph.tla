------------------------- MODULE MCSupervisorGraph -------------------------
(***************************************************************************)
(* Instances of SupervisorGraph for TLC.                                   *)
(***************************************************************************)
EXTENDS SupervisorGraph

CONSTANTS configuration, obsidian, finance, fitness

MCAgents    == {configuration, obsidian, finance, fitness}
MCSalvaging == {configuration, obsidian}
MCMaxSteps  == [a \in MCAgents |-> IF a = fitness THEN 0 ELSE 3]  \* fitness is unavailable

\* Single steps, plans of two and three specialists, and plans that name one twice,
\* in a row and not.
MCPlans ==
    {<<configuration>>, <<obsidian>>, <<finance>>, <<fitness>>,
     <<finance, obsidian>>, <<configuration, finance>>,
     <<obsidian, finance, configuration>>,
     <<finance, finance>>, <<obsidian, finance, obsidian>>}
=============================================================================
