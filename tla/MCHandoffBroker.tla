---------------------------- MODULE MCHandoffBroker ----------------------------
(* A prompt whose number has two digits and whose text has a version line    *)
(* too, one whose version begins with a number and is none, and one without  *)
(* front matter.                                                             *)
EXTENDS HandoffBroker

Fence == [kind |-> "fence", digits |-> None, more |-> FALSE]
Version(n) == [kind |-> "version", digits |-> n, more |-> FALSE]
Draft(n) == [kind |-> "version", digits |-> n, more |-> TRUE]

MCPrompts ==
  { <<Fence, Version(12), Fence, Version(1)>>,
    <<Fence, Draft(12)>>,
    <<Version(3), Version(1)>> }

=============================================================================
