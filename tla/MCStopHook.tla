----------------------------- MODULE MCStopHook -----------------------------
(* Model values for StopHook. *)
EXTENDS StopHook, TLC

CONSTANTS s1, h1, h2

OneSession == {s1}
TwoHooks == {h1, h2}

(* The hook processes are alike. *)
HookSymmetry == Permutations(Hooks)
=============================================================================
