---------------------------- MODULE ProfileLists ----------------------------
(***************************************************************************)
(* Lists of controller profiles, as FleetService reads and edits them.  A  *)
(* profile is a record with a field id and others that depend on what the  *)
(* module that extends this one looks at.  A list typed as JSON may name   *)
(* an id more than once; where the code looks for one profile it takes the *)
(* first.                                                                  *)
(***************************************************************************)
EXTENDS Naturals, Sequences

Configured(list) == {list[i].id : i \in DOMAIN list}

\* Whether i is where the list first names its id.
IsFirst(list, i) == \A j \in 1..(i - 1) : list[j].id # list[i].id

\* The profile of an id of the list.
ProfileOf(list, d) == list[CHOOSE i \in DOMAIN list : list[i].id = d /\ IsFirst(list, i)]

\* The profile of d, or else the first one.
SelectProfile(list, d) == IF d \in Configured(list) THEN d ELSE Head(list).id

\* The entries of a list at these places, in their order.
Entries(list, places) ==
  LET upTo[n \in 0..Len(list)] ==
        IF n = 0 THEN <<>>
        ELSE IF n \in places THEN Append(upTo[n - 1], list[n]) ELSE upTo[n - 1]
  IN  upTo[Len(list)]

Remove(list, d) == Entries(list, {i \in DOMAIN list : list[i].id # d})

\* The first profile of that id is replaced; a new one goes to the end.
Upsert(list, p) ==
  IF p.id \in Configured(list)
  THEN [i \in DOMAIN list |-> IF list[i].id = p.id /\ IsFirst(list, i) THEN p ELSE list[i]]
  ELSE Append(list, p)

WithPolling(list, d, v) ==
  [i \in DOMAIN list |-> IF list[i].id = d THEN [list[i] EXCEPT !.polling = v] ELSE list[i]]

=============================================================================
