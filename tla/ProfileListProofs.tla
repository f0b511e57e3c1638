-------------------------- MODULE ProfileListProofs --------------------------
(***************************************************************************)
(* Lemmas about lists of profiles: the entries at some of their places,    *)
(* gathered from the front, and the first and the last place of an id.     *)
(*                                                                         *)
(* Entries is a recursive function.  What it gathers is described by its   *)
(* values on the lengths up to the list's own (Gathered); facts about it   *)
(* hold of all lengths because there is no first length of which they fail *)
(* (NoFirstFailure).                                                       *)
(***************************************************************************)
EXTENDS ProfileLists, SequenceTheorems, WellFoundedInduction, TLAPS

(* A set of natural numbers that is not empty has a least one.               *)
LEMMA LeastIsThere ==
  ASSUME NEW S \in SUBSET Nat, S # {}
  PROVE  \E x \in S : \A y \in S : x <= y
<1>1. PICK x \in S : \A y \in S : ~(<<y, x>> \in OpToRel(<, Nat))
  BY NatLessThanWellFounded, WFMin
<1>2. \A y \in S : ~(y < x)
  BY <1>1 DEF OpToRel
<1> QED
  BY <1>2

(* What holds of nothing gathered, and of n if it holds of n - 1, holds.     *)
LEMMA NoFirstFailure ==
  ASSUME NEW N \in Nat, NEW Failing \in SUBSET (0..N), 0 \notin Failing,
         \A m \in 1..N : m - 1 \notin Failing => m \notin Failing
  PROVE  Failing = {}
<1> SUFFICES ASSUME Failing # {} PROVE FALSE
  OBVIOUS
<1>1. Failing \in SUBSET Nat
  OBVIOUS
<1>2. PICK m \in Failing : \A k \in Failing : m <= k
  BY <1>1, LeastIsThere
<1>3. m \in 1..N /\ m - 1 \in Nat /\ ~(m <= m - 1)
  BY <1>2
<1> QED
  BY <1>2, <1>3

(* The entries among the first n of a list, from those among fewer.          *)
NextUpTo(f, n, list, places) ==
  IF n = 0 THEN <<>>
  ELSE IF n \in places THEN Append(f[n - 1], list[n]) ELSE f[n - 1]

IsUpTo(f, m, list, places) == f = [n \in 0..m |-> NextUpTo(f, n, list, places)]

(* They can be gathered one after the other, up to any place.                *)
LEMMA UpToExists ==
  ASSUME NEW list, NEW places, NEW N \in Nat
  PROVE  \E f : IsUpTo(f, N, list, places)
<1> DEFINE Failing == {m \in 0..N : ~\E f : IsUpTo(f, m, list, places)}
<1>1. 0 \notin Failing
  <2> DEFINE g == [n \in 0..0 |-> <<>>]
  <2>1. IsUpTo(g, 0, list, places)
    BY DEF IsUpTo, NextUpTo
  <2> QED
    BY <2>1
<1>2. ASSUME NEW m \in 1..N, m - 1 \notin Failing PROVE m \notin Failing
  <2>1. m - 1 \in 0..N
    OBVIOUS
  <2>2. PICK f : IsUpTo(f, m - 1, list, places)
    BY <1>2, <2>1
  <2>3. \A n \in 0..(m - 1) : f[n] = NextUpTo(f, n, list, places)
    BY <2>2 DEF IsUpTo
  <2> DEFINE g == [n \in 0..m |-> IF n = m THEN NextUpTo(f, m, list, places) ELSE f[n]]
  <2>4. \A n \in 0..m : g[n] = NextUpTo(g, n, list, places)
    <3> SUFFICES ASSUME NEW n \in 0..m PROVE g[n] = NextUpTo(g, n, list, places)
      OBVIOUS
    <3>1. n # 0 => n - 1 \in 0..m /\ g[n - 1] = f[n - 1]
      OBVIOUS
    <3> QED
      BY <2>3, <3>1 DEF NextUpTo
  <2>5. IsUpTo(g, m, list, places)
    BY <2>4 DEF IsUpTo
  <2> QED
    BY <2>5
<1> HIDE DEF Failing
<1>3. Failing \in SUBSET (0..N)
  BY DEF Failing
<1>4. Failing = {}
  BY <1>1, <1>2, <1>3, NoFirstFailure
<1> QED
  BY <1>4 DEF Failing

(* How the entries of a list are gathered.                                   *)
Gathers(f, list, places) ==
  /\ f[0] = <<>>
  /\ \A n \in 1..Len(list) :
       f[n] = IF n \in places THEN Append(f[n - 1], list[n]) ELSE f[n - 1]

(* Entries is what is gathered at the end of the list.                       *)
LEMMA Gathered ==
  ASSUME NEW S, NEW list \in Seq(S), NEW places
  PROVE  \E f : Gathers(f, list, places) /\ Entries(list, places) = f[Len(list)]
<1> DEFINE f == CHOOSE f : IsUpTo(f, Len(list), list, places)
<1>1. Len(list) \in Nat
  BY LenProperties
<1>2. IsUpTo(f, Len(list), list, places)
  BY <1>1, UpToExists
<1>3. Entries(list, places) = f[Len(list)]
  BY DEF Entries, IsUpTo, NextUpTo
<1> HIDE DEF f
<1>4. \A n \in 0..Len(list) : f[n] = NextUpTo(f, n, list, places)
  BY <1>2 DEF IsUpTo
<1>5. Gathers(f, list, places)
  BY <1>1, <1>4 DEF Gathers, NextUpTo
<1> QED
  BY <1>3, <1>5

(* What is gathered on the way is of the kind that is at the places.         *)
LEMMA GatheredType ==
  ASSUME NEW S, NEW list \in Seq(S), NEW places, NEW f, Gathers(f, list, places),
         NEW T, \A i \in places \cap DOMAIN list : list[i] \in T
  PROVE  \A n \in 0..Len(list) : f[n] \in Seq(T)
<1>1. Len(list) \in Nat /\ DOMAIN list = 1..Len(list)
  BY LenProperties
<1> DEFINE Failing == {n \in 0..Len(list) : f[n] \notin Seq(T)}
<1>2. 0 \notin Failing
  <2>1. f[0] = <<>> /\ <<>> \in Seq(T)
    BY EmptySeq DEF Gathers
  <2> QED
    BY <2>1
<1>3. ASSUME NEW m \in 1..Len(list), m - 1 \notin Failing PROVE m \notin Failing
  <2>1. m - 1 \in 0..Len(list) /\ m \in DOMAIN list
    BY <1>1
  <2>2. f[m - 1] \in Seq(T)
    BY <1>3, <2>1
  <2>3. m \in places => Append(f[m - 1], list[m]) \in Seq(T)
    BY <2>1, <2>2, AppendProperties
  <2>4. f[m] \in Seq(T)
    BY <2>2, <2>3 DEF Gathers
  <2> QED
    BY <2>4
<1> HIDE DEF Failing
<1>4. Failing \in SUBSET (0..Len(list))
  BY DEF Failing
<1>5. Failing = {}
  BY <1>1, <1>2, <1>3, <1>4, NoFirstFailure
<1> QED
  BY <1>5 DEF Failing

(* The entries of a list at some places are of the kind that is there.       *)
LEMMA EntriesAreTheirs ==
  ASSUME NEW S, NEW list \in Seq(S), NEW places, NEW T, \A i \in places \cap DOMAIN list : list[i] \in T
  PROVE  Entries(list, places) \in Seq(T)
<1>1. PICK f : Gathers(f, list, places) /\ Entries(list, places) = f[Len(list)]
  BY Gathered
<1>2. Len(list) \in 0..Len(list)
  <2>1. Len(list) \in Nat
    BY LenProperties
  <2> QED
    BY <2>1
<1>3. \A n \in 0..Len(list) : f[n] \in Seq(T)
  BY <1>1, GatheredType
<1> QED
  BY <1>1, <1>2, <1>3

(* Lists that agree up to some place have the same entries so far.           *)
LEMMA SamePrefix ==
  ASSUME NEW S, NEW list \in Seq(S), NEW other \in Seq(S), NEW N \in Nat,
         N <= Len(list), N <= Len(other), NEW places, NEW others,
         \A i \in 1..N : (i \in places <=> i \in others) /\ (i \in places => list[i] = other[i]),
         NEW f, Gathers(f, list, places), NEW g, Gathers(g, other, others)
  PROVE  f[N] = g[N]
<1>1. Len(list) \in Nat /\ Len(other) \in Nat
  BY LenProperties
<1> DEFINE Failing == {n \in 0..N : f[n] # g[n]}
<1>2. 0 \notin Failing
  BY DEF Gathers
<1>3. ASSUME NEW m \in 1..N, m - 1 \notin Failing PROVE m \notin Failing
  <2>1. m - 1 \in 0..N /\ m \in 1..Len(list) /\ m \in 1..Len(other)
    BY <1>1
  <2>2. f[m - 1] = g[m - 1]
    BY <1>3, <2>1
  <2>3. f[m] = g[m]
    BY <2>1, <2>2 DEF Gathers
  <2> QED
    BY <2>3
<1> HIDE DEF Failing
<1>4. Failing \in SUBSET (0..N)
  BY DEF Failing
<1>5. Failing = {}
  BY <1>2, <1>3, <1>4, NoFirstFailure
<1>6. N \in 0..N
  OBVIOUS
<1> QED
  BY <1>5, <1>6 DEF Failing

(* Lists that agree on the places have the same entries there.               *)
LEMMA SameEntries ==
  ASSUME NEW S, NEW list \in Seq(S), NEW other \in Seq(S), Len(other) = Len(list),
         NEW places, NEW others,
         \A i \in DOMAIN list : (i \in places <=> i \in others) /\ (i \in places => list[i] = other[i])
  PROVE  Entries(list, places) = Entries(other, others)
<1>1. Len(list) \in Nat /\ DOMAIN list = 1..Len(list) /\ Len(list) <= Len(list)
  BY LenProperties
<1>2. PICK f : Gathers(f, list, places) /\ Entries(list, places) = f[Len(list)]
  BY Gathered
<1>3. PICK g : Gathers(g, other, others) /\ Entries(other, others) = g[Len(other)]
  BY Gathered
<1>4. f[Len(list)] = g[Len(list)]
  BY <1>1, <1>2, <1>3, SamePrefix
<1> QED
  BY <1>2, <1>3, <1>4

(* The entries of a list with one more at its end.                           *)
LEMMA EntriesOfAppend ==
  ASSUME NEW S, NEW list \in Seq(S), NEW x \in S, NEW places, NEW others,
         \A i \in DOMAIN list : i \in places <=> i \in others
  PROVE  Entries(Append(list, x), others) =
           IF Len(list) + 1 \in others THEN Append(Entries(list, places), x) ELSE Entries(list, places)
<1> DEFINE N == Len(list)
           longer == Append(list, x)
<1>1. N \in Nat /\ DOMAIN list = 1..N /\ N <= N
  BY LenProperties
<1>2. /\ longer \in Seq(S) /\ Len(longer) = N + 1
      /\ \A i \in 1..N : longer[i] = list[i]
      /\ longer[N + 1] = x
  BY AppendProperties
<1> HIDE DEF N, longer
<1>3. PICK f : Gathers(f, list, places) /\ Entries(list, places) = f[N]
  BY Gathered DEF N
<1>4. PICK g : Gathers(g, longer, others) /\ Entries(longer, others) = g[N + 1]
  BY <1>2, Gathered
<1>5. N <= Len(longer) /\ N + 1 \in 1..Len(longer) /\ (N + 1) - 1 = N
  BY <1>1, <1>2
<1>6. N = Len(list)
  BY DEF N
<1>7. \A i \in 1..N : (i \in places <=> i \in others) /\ (i \in places => list[i] = longer[i])
  BY <1>1, <1>2
<1>8. f[N] = g[N]
  BY <1>1, <1>2, <1>3, <1>4, <1>5, <1>6, <1>7, SamePrefix
<1>9. g[N + 1] = IF N + 1 \in others THEN Append(g[N], longer[N + 1]) ELSE g[N]
  BY <1>4, <1>5 DEF Gathers
<1>10. Entries(longer, others) = IF N + 1 \in others THEN Append(Entries(list, places), x)
                                                     ELSE Entries(list, places)
  BY <1>2, <1>3, <1>4, <1>8, <1>9
<1> QED
  BY <1>10 DEF N, longer

(* A list without entries.                                                   *)
LEMMA EntriesOfNone ==
  ASSUME NEW places
  PROVE  Entries(<<>>, places) = <<>>
<1>1. <<>> \in Seq({}) /\ Len(<<>>) = 0
  BY EmptySeq
<1>2. PICK f : Gathers(f, <<>>, places) /\ Entries(<<>>, places) = f[Len(<<>>)]
  BY <1>1, Gathered
<1> QED
  BY <1>1, <1>2 DEF Gathers

(* Of the places of a list with some id there is a first one and a last one. *)
LEMMA FirstAndLastPlace ==
  ASSUME NEW S, NEW list \in Seq(S), NEW d \in Configured(list)
  PROVE  /\ \E i \in DOMAIN list : list[i].id = d /\ IsFirst(list, i)
         /\ \E i \in DOMAIN list : list[i].id = d /\ \A j \in DOMAIN list : list[j].id = d => j <= i
<1>1. Len(list) \in Nat /\ DOMAIN list = 1..Len(list)
  BY LenProperties
<1>2. PICK at \in DOMAIN list : list[at].id = d
  BY DEF Configured
<1> DEFINE places == {i \in DOMAIN list : list[i].id = d}
           ends == {Len(list) - i : i \in places}
<1>3. places \in SUBSET Nat /\ places # {} /\ ends \in SUBSET Nat /\ ends # {}
  BY <1>1, <1>2
<1>4. PICK i \in places : \A j \in places : i <= j
  BY <1>3, LeastIsThere
<1>5. IsFirst(list, i)
  BY <1>1, <1>4 DEF IsFirst
<1>6. PICK e \in ends : \A x \in ends : e <= x
  BY <1>3, LeastIsThere
<1>7. PICK k \in places : e = Len(list) - k
  BY <1>6
<1>8. ASSUME NEW j \in places PROVE j <= k
  <2>1. Len(list) - j \in ends
    OBVIOUS
  <2>2. Len(list) - k <= Len(list) - j
    BY <1>6, <1>7, <2>1
  <2>3. j \in Nat /\ k \in Nat
    BY <1>3
  <2> QED
    BY <1>1, <2>2, <2>3
<1>9. k \in DOMAIN list /\ list[k].id = d
  OBVIOUS
<1>10. \A j \in DOMAIN list : list[j].id = d => j \in places
  OBVIOUS
<1>11. i \in DOMAIN list /\ list[i].id = d
  OBVIOUS
<1> QED
  BY <1>5, <1>8, <1>9, <1>10, <1>11

(* The profile of an id is the one at its first place.                       *)
LEMMA FirstIsTheProfile ==
  ASSUME NEW S, NEW list \in Seq(S), NEW i \in DOMAIN list, IsFirst(list, i)
  PROVE  ProfileOf(list, list[i].id) = list[i]
<1> DEFINE d == list[i].id
           k == CHOOSE j \in DOMAIN list : list[j].id = d /\ IsFirst(list, j)
<1>1. k \in DOMAIN list /\ list[k].id = d /\ IsFirst(list, k)
  OBVIOUS
<1>2. DOMAIN list = 1..Len(list) /\ Len(list) \in Nat
  BY LenProperties
<1>3. ProfileOf(list, d) = list[k]
  BY DEF ProfileOf
<1>4. list[i].id = d
  OBVIOUS
<1> HIDE DEF k, d
<1>5. k \in Nat /\ i \in Nat /\ k >= 1 /\ i >= 1
  BY <1>1, <1>2
<1>6. ~(k < i)
  <2>1. k < i => k \in 1..(i - 1)
    BY <1>5
  <2> QED
    BY <1>1, <1>4, <2>1 DEF IsFirst
<1>7. ~(i < k)
  <2>1. i < k => i \in 1..(k - 1)
    BY <1>5
  <2> QED
    BY <1>1, <1>4, <2>1 DEF IsFirst
<1>8. k = i
  BY <1>5, <1>6, <1>7
<1> QED
  BY <1>3, <1>8 DEF d

-----------------------------------------------------------------------------
(* What the operations on lists of profiles keep                           *)

(* Removing a profile, or gathering some, leaves a list of what it held.     *)
LEMMA GatheringIsTyped ==
  ASSUME NEW S, NEW list \in Seq(S)
  PROVE  /\ \A places : Entries(list, places) \in Seq(S)
         /\ \A d : Remove(list, d) \in Seq(S)
<1>1. \A i \in DOMAIN list : list[i] \in S
  OBVIOUS
<1>2. \A places : Entries(list, places) \in Seq(S)
  BY <1>1, EntriesAreTheirs
<1> QED
  BY <1>2 DEF Remove

(* So does replacing one profile, or adding one.                             *)
LEMMA UpsertIsTyped ==
  ASSUME NEW S, NEW list \in Seq(S), NEW p \in S
  PROVE  Upsert(list, p) \in Seq(S)
<1>1. DOMAIN list = 1..Len(list) /\ Len(list) \in Nat /\ \A i \in DOMAIN list : list[i] \in S
  BY LenProperties
<1> DEFINE replaced == [i \in DOMAIN list |->
                          IF list[i].id = p.id /\ IsFirst(list, i) THEN p ELSE list[i]]
<1>2. replaced \in Seq(S)
  <2>1. \A i \in 1..Len(list) :
          (IF list[i].id = p.id /\ IsFirst(list, i) THEN p ELSE list[i]) \in S
    BY <1>1
  <2> QED
    BY <1>1, <2>1, IsASeq
<1>3. Append(list, p) \in Seq(S)
  BY AppendProperties
<1> QED
  BY <1>2, <1>3 DEF Upsert

(* So does switching the polling of one.                                     *)
LEMMA SwitchIsTyped ==
  ASSUME NEW S, NEW list \in Seq(S), NEW d, NEW v, \A q \in S : [q EXCEPT !.polling = v] \in S
  PROVE  WithPolling(list, d, v) \in Seq(S)
<1>1. DOMAIN list = 1..Len(list) /\ Len(list) \in Nat /\ \A i \in DOMAIN list : list[i] \in S
  BY LenProperties
<1>2. \A i \in 1..Len(list) :
        (IF list[i].id = d THEN [list[i] EXCEPT !.polling = v] ELSE list[i]) \in S
  BY <1>1
<1> QED
  BY <1>1, <1>2, IsASeq DEF WithPolling

(* What is selected of a list that is not empty is in it.                    *)
LEMMA SelectionIsConfigured ==
  ASSUME NEW S, NEW list \in Seq(S), list # <<>>, NEW d
  PROVE  SelectProfile(list, d) \in Configured(list)
<1>1. 1 \in DOMAIN list /\ Head(list) = list[1]
  OBVIOUS
<1> QED
  BY <1>1 DEF SelectProfile, Configured

(* A profile that is looked up by its id is one of the list.                 *)
LEMMA LookupIsTyped ==
  ASSUME NEW S, NEW list \in Seq(S), NEW d \in Configured(list)
  PROVE  ProfileOf(list, d) \in S
<1>1. \E i \in DOMAIN list : list[i].id = d /\ IsFirst(list, i)
  BY FirstAndLastPlace
<1>2. \A i \in DOMAIN list : list[i] \in S
  OBVIOUS
<1> QED
  BY <1>1, <1>2 DEF ProfileOf

=============================================================================
