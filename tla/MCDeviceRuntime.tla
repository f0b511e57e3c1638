--------------------------- MODULE MCDeviceRuntime ---------------------------
(* Instances of DeviceRuntime for TLC.                                     *)
EXTENDS DeviceRuntime, TLC

CONSTANTS k1, k2, a, b, c

\* One controller whose configuration changes, beside one that only comes and
\* goes.
TwoConfigurations == k1 :> {a, b} @@ k2 :> {c}

\* Sessions are interchangeable; used in the runs without liveness.
Symmetry == Permutations(Sessions)
=============================================================================
