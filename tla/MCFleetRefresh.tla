---------------------------- MODULE MCFleetRefresh ----------------------------
(* An instance of FleetRefresh for TLC.                                      *)
EXTENDS FleetRefresh

\* Bound of the model: the last action leaves live updates off and nothing
\* else in the loops' way.  What is cut off are operator actions.
LastTurnsOff == clicks = MaxClicks => ~enabled /\ parses /\ sortable /\ numbers

===============================================================================
