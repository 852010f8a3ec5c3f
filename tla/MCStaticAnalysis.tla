-------------------------- MODULE MCStaticAnalysis --------------------------
(* Traced programs of one and two pieces: one that is recognised to its     *)
(* exit, and the ways in which the analysis of a piece ends before.        *)
EXTENDS StaticAnalysis

Recognised  == <<"vm", "exit">>
Short       == <<"exit">>
Unknown     == <<"unknown", "unknown", "unknown", "unknown">>
Environment == <<"unknown", "env">>
Native      == <<"vm", "stop">>
McPrograms == {<<Recognised, Short>>, <<Short, Environment>>, <<Short, Native>>, <<Unknown>>}
AllRules == {"normal", "limited", "cycle"}
=============================================================================
