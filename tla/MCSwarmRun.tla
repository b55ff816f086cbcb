----------------------------- MODULE MCSwarmRun -----------------------------
EXTENDS SwarmRun, TLC

CONSTANTS a, b, c, unknown

Plan(x, y, z) == (a :> x) @@ (b :> y) @@ (c :> z)

(* Plans of three subtasks: a chain; a join; a cycle beside a sound        *)
(* subtask; an unknown name beside one, with a dependent of both.          *)
MCGraphs == {Plan({}, {a}, {b}),
             Plan({}, {}, {a, b}),
             Plan({b}, {a}, {}),
             Plan({}, {unknown}, {a, b})}
=============================================================================
