------------------------------- MODULE MCAlarms -------------------------------
(* The instance of Alarms that TLC checks. *)
EXTENDS Alarms, TLC

Offline == {[id |-> n, device |-> d, good |-> FALSE, at |-> 0] : n \in {-1, 0}, d \in Devices}
\* Before the start: a streak of each device.
Before == {Offline}
StreakOf == [k \in Kinds |-> 2]
KeptFor == [k \in Kinds |-> 2]
Alike == Permutations(Kinds)
=============================================================================
