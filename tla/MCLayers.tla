------------------------------ MODULE MCLayers ------------------------------
EXTENDS OptionalLayers, TLC

\* A game, a browser and a player, of whose class the recogniser is not sure.
MCClass == [doom |-> "GAME", firefox |-> "BROWSER", mpv |-> "MULTIMEDIA"]

\* Three plugins, one of them in two directories; the third needs both others.
MCPluginId  == [p1 |-> "p1", p2 |-> "p2", p3 |-> "p3", p1again |-> "p1"]
MCDependsOn == [p1 |-> {}, p2 |-> {"p1"}, p3 |-> {"p1", "p2"}, p1again |-> {}]

\* The thresholds, scaled: the defaults, files that set one or both of a pair,
\* in order and not, or to what the schema refuses, and the presets.
Psi(warn, critical) == [PSI_CPU_WARN |-> warn, PSI_CPU_CRITICAL |-> critical]
Thermal(resume, pause) ==
  [THERMAL_RESUME_THRESHOLD |-> resume, THERMAL_PAUSE_THRESHOLD |-> pause]
MCDefaultConfig == Psi(8, 20) @@ Thermal(75, 85)
MCFiles == {<<>>,
            [PSI_CPU_WARN |-> 25], Psi(25, 40), Psi(Illegal, 2),
            [THERMAL_PAUSE_THRESHOLD |-> 60], [THERMAL_RESUME_THRESHOLD |-> 80],
            Thermal(45, 50), Thermal(90, 95) @@ Psi(2, 3)}
MCThermalPresets == {Thermal(65, 75), Thermal(55, 65)}
MCModes == {Psi(4, 10), Psi(12, 30), Psi(8, 20)}

\* Built-in profiles, and files that replace and drop some of them: a parent
\* replaced, two parents, an ancestor they share, a cycle and a tie, a profile
\* without priority and one that is not valid.
Define(id, version, priority, inherits, settings, overrides) ==
  [valid |-> TRUE, id |-> id, version |-> version, priority |-> priority,
   inherits |-> inherits, settings |-> settings, overrides |-> overrides]
Sets(heat, supply) == [thermal |-> heat, power |-> supply]
MCBuiltins ==
  <<Define("balanced", 1, 100, <<>>, Sets("balanced", "balanced"), <<>>),
    Define("performance", 1, 200, <<>>, Sets("balanced", "performance"), <<>>),
    Define("gaming", 1, 500, <<"performance">>, <<>>, [thermal |-> "cool"]),
    Define("idle", 1, 50, <<>>, Sets("balanced", "power-saver"), <<>>)>>
MCProfileDocuments ==
  {<<Define("performance", 2, 200, <<>>, Sets("silent", "power-saver"), <<>>),
     Define("idle", 2, 50, <<"gaming", "performance">>, [power |-> "turbo"], <<>>),
     Define("balanced", 2, 100, <<"gaming">>, <<>>, <<>>)>>,
   <<Define("quiet", 1, None, <<>>, [thermal |-> "silent"], <<>>),
     Define("gaming", 2, 500, <<"performance", "quiet">>, <<>>, <<>>),
     Define("balanced", 2, 100, <<"quiet", "nobody">>, [power |-> "balanced"], <<>>)>>,
   <<Define("quiet", 1, 10, <<"gaming">>, <<>>, <<>>),
     Define("gaming", 2, 500, <<"quiet">>, [thermal |-> "silent"], [power |-> "balanced"]),
     Define("idle", 2, 500, <<"balanced">>, <<>>, <<>>)>>,
   <<Define("gaming", 2, None, <<>>, [power |-> "power-saver"], <<>>),
     [Define("idle", 2, 50, <<>>, <<>>, <<>>) EXCEPT !.valid = FALSE],
     Define("balanced", 1, 100, <<>>, Sets("balanced", "balanced"), <<>>)>>}
MCPluginProfiles == {Define("gaming", 3, 60, <<"balanced">>, <<>>, [thermal |-> "cool"])}
MCKnownPresets == Sets({"balanced", "cool", "silent"},
                       {"balanced", "power-saver", "performance"})
MCCallsFor == [workload |-> {"gaming", "balanced"}, idle |-> {"idle"}]
=============================================================================
