---------------------------- MODULE MCMediaCheck ----------------------------
EXTENDS MediaCheck

On(v) == [id |-> v, enabled |-> TRUE]
Off(v) == [id |-> v, enabled |-> FALSE]

Gate == [id |-> 1, streams |-> <<Off(1), On(2)>>]
Mast == [id |-> 2, streams |-> <<On(1), On(1)>>]
Bare == [id |-> 2, streams |-> <<>>]

\* A camera that is off beside one that is on, two cameras under one id, and a
\* controller that has none.
MCTypedLists == {<<>>, <<Gate, Mast>>, <<Bare, Gate>>}

=============================================================================
