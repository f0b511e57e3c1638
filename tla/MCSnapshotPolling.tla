------------------------- MODULE MCSnapshotPolling -------------------------
(* Instances of SnapshotPolling for TLC.                                   *)
EXTENDS SnapshotPolling, TLC

CONSTANTS c1, c2, c3, k1, k2

\* Bound of the model: while the clock stands at zero all callers use all
\* keys; in the time after that c1 and c2 use k1.  What is cut off are calls
\* and ticks, which are not fair, so every call still ends within the bound.
FewLater ==
  now > 0 =>
    /\ \A c \in Callers \ {c1, c2} : pc[c] = "idle"
    /\ \A k \in Keys \ {k1} : backoff[k].last_result = None /\ inflight[k] = None

=============================================================================
