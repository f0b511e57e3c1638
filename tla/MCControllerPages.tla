-------------------------- MODULE MCControllerPages --------------------------
EXTENDS ControllerPages

Camera == [id |-> 1, ip |-> 1, placed |-> TRUE, polling |-> TRUE, streams |-> "cam"]
Bare == [id |-> 2, ip |-> 1, placed |-> FALSE, polling |-> FALSE, streams |-> "none"]
Named == [id |-> 2, ip |-> 9, placed |-> TRUE, polling |-> TRUE, streams |-> "none"]

\* None, two with one address, one twice, and one that cannot be sorted.
MCTypedLists == {<<>>, <<Bare, Camera>>, <<Camera, [Camera EXCEPT !.streams = "none"]>>,
                 <<Camera, Named>>}

=============================================================================
