-------------------------- MODULE HandoffBrokerProofs --------------------------
(***************************************************************************)
(* Proofs about HandoffBroker, for any prompts.                            *)
(*                                                                         *)
(* Two arguments: the number of a prefix of a prompt is cut off that of    *)
(* the prompt, or is it, or there is none, as both look for the first      *)
(* version line and a front matter is cut where the prefix is; and a       *)
(* broker that waits remembers what its state file holds, and that is what *)
(* it handed over last unless it died on the way (Remembers).              *)
(***************************************************************************)
EXTENDS HandoffBroker, SequenceTheorems, WellFoundedInduction, TLAPS

-----------------------------------------------------------------------------
(* The first of some lines                                                 *)

(* A set of numbers that is not empty has a least one: min() of the lines    *)
(* that hold a version.                                                      *)
LEMMA LeastIsThere ==
  ASSUME NEW S \in SUBSET Nat, S # {}
  PROVE  Min(S) \in S /\ \A y \in S : Min(S) <= y
<1>1. PICK x \in S : \A y \in S : ~(<<y, x>> \in OpToRel(<, Nat))
  BY NatLessThanWellFounded, WFMin
<1>2. \A y \in S : ~(y < x)
  BY <1>1 DEF OpToRel
<1>3. \A y \in S : x <= y
  BY <1>2
<1> QED
  BY <1>1, <1>3 DEF Min

(* A prefix of a file: its lines are those of the file, the last may be cut. *)
Prefix(t, s) ==
  /\ Len(t) <= Len(s)
  /\ \A i \in 1..Len(t) : t[i] = s[i] \/ (i = Len(t) /\ t[i] \in Cuts(s[i]))

(* The version lines of t are those of s that it reaches, the last one of    *)
(* which may be cut.                                                         *)
Follows(t, s) ==
  \A i \in 1..Len(t) :
    /\ t[i].kind = "version" => /\ i <= Len(s) /\ s[i].kind = "version"
                                /\ t[i] = s[i] \/ t[i] \in Cuts(s[i])
    /\ i <= Len(s) /\ s[i].kind = "version" /\ i < Len(t) => t[i] = s[i]

NoNewer(a, b) == a # None /\ b # None => a <= b

(* A version line that is cut has no number or one that is no higher: its    *)
(* digits are the first ones of the line's.                                  *)
LEMMA CutNumber ==
  ASSUME NEW line \in Lines, NEW cut \in Cuts(line)
  PROVE  /\ cut \in Lines /\ cut.kind # "fence"
         /\ cut.kind = "version" => line.kind = "version" /\ NoNewer(Number(cut), Number(line))
<1>1. CASE cut = Piece
  BY <1>1 DEF Piece, Lines
<1>2. CASE cut # Piece
  <2>1. PICK d \in {None} \cup (IF line.digits = None THEN {} ELSE Heads(line.digits)) :
          cut = CutVersion(d)
    BY <1>2 DEF Cuts
  <2>2. line.kind = "version"
    BY <1>2 DEF Cuts
  <2>3. d = None \/ (line.digits \in Nat /\ d \in Nat /\ d <= line.digits)
    BY <2>1, BrokerAssumption DEF Heads, Lines, BrokerAssumption
  <2>4. cut.kind = "version" /\ Number(cut) = d /\ cut \in Lines
    BY <2>1, <2>3 DEF CutVersion, Number, Lines
  <2>5. Number(line) = None \/ Number(line) = line.digits
    BY DEF Number
  <2> QED
    BY <2>2, <2>3, <2>4, <2>5 DEF NoNewer
<1> QED
  BY <1>1, <1>2

(* The first version line of what follows a file is the first of the file,   *)
(* or that one cut: _scan reads line after line.                             *)
LEMMA FirstOfPrefix ==
  ASSUME NEW s \in Seq(Lines), NEW t \in Seq(Lines), Follows(t, s), Versions(t) # {}
  PROVE  Versions(s) # {} /\ NoNewer(FirstVersion(t), FirstVersion(s))
<1>1. Versions(s) \in SUBSET Nat /\ Versions(t) \in SUBSET Nat
  BY DEF Versions
<1>2. Versions(t) \subseteq Versions(s)
  BY DEF Versions, Follows
<1> DEFINE a == Min(Versions(t))
           b == Min(Versions(s))
<1>3. a \in Versions(t) /\ b \in Versions(s) /\ b <= a
  BY <1>1, <1>2, LeastIsThere
<1>4. a \in 1..Len(t) /\ b \in 1..Len(s) /\ t[a].kind = "version" /\ s[b].kind = "version"
  BY <1>3 DEF Versions
<1>5. a = b
  <2>1. SUFFICES ASSUME b < a PROVE FALSE
    BY <1>3, <1>4
  <2>2. b \in 1..Len(t) /\ b < Len(t)
    BY <1>4, <2>1
  <2>3. t[b] = s[b]
    BY <1>4, <2>2 DEF Follows
  <2>4. b \in Versions(t)
    BY <1>4, <2>2, <2>3 DEF Versions
  <2> QED
    BY <1>1, <1>4, <2>1, <2>4, LeastIsThere
<1> HIDE DEF a, b
<1>6. t[a] = s[a] \/ t[a] \in Cuts(s[a])
  BY <1>4 DEF Follows
<1>7. s[a] \in Lines /\ t[a] \in Lines
  BY <1>4, <1>5
<1>8. NoNewer(Number(t[a]), Number(s[a]))
  <2>1. CASE t[a] = s[a]
    <3>1. Number(s[a]) \in Nat \cup {None}
      BY <1>7, BrokerAssumption DEF Number, Lines
    <3> QED
      BY <2>1, <3>1 DEF NoNewer
  <2>2. CASE t[a] \in Cuts(s[a])
    BY <1>4, <1>7, <2>2, CutNumber
  <2> QED
    BY <1>6, <2>1, <2>2
<1> QED
  BY <1>3, <1>5, <1>8 DEF FirstVersion, a, b

(* A version is a number or none.                                            *)
LEMMA FirstVersionType ==
  ASSUME NEW s \in Seq(Lines), Versions(s) # {}
  PROVE  FirstVersion(s) \in Nat \cup {None}
<1>1. Versions(s) \in SUBSET (1..Len(s))
  BY DEF Versions
<1>2. Min(Versions(s)) \in 1..Len(s)
  BY <1>1, LeastIsThere
<1>3. s[Min(Versions(s))] \in Lines
  BY <1>2
<1> QED
  BY <1>3 DEF FirstVersion, Number, Lines

(* The window is the file or its beginning.                                  *)
LEMMA WindowType ==
  ASSUME NEW s \in Seq(Lines)
  PROVE  /\ Window(s) \in Seq(Lines)
         /\ Len(Window(s)) = IF Len(s) < WindowLines THEN Len(s) ELSE WindowLines
         /\ \A i \in 1..Len(Window(s)) : Window(s)[i] = s[i]
<1> DEFINE k == IF Len(s) < WindowLines THEN Len(s) ELSE WindowLines
<1>1. k \in 0..Len(s) /\ Window(s) = SubSeq(s, 1, k)
  BY DEF Window, WindowLines
<1>2. \A i \in 1..k : s[i] \in Lines
  BY <1>1
<1> QED
  BY <1>1, <1>2, SubSeqProperties

(* The front matter is a part of the window that begins at its second line.  *)
LEMMA FrontMatterType ==
  ASSUME NEW s \in Seq(Lines)
  PROVE  /\ FrontMatter(s) \in Seq(Lines)
         /\ Len(FrontMatter(s)) < Len(s) \/ FrontMatter(s) = <<>>
         /\ \A i \in 1..Len(FrontMatter(s)) : FrontMatter(s)[i] = s[i + 1]
<1> DEFINE fences == {i \in 2..Len(s) : s[i].kind = "fence"}
           end == IF fences = {} THEN Len(s) ELSE Min(fences) - 1
<1>0. s # <<>> => Len(s) >= 1
  OBVIOUS
<1>1. CASE s = <<>> \/ s[1].kind # "fence"
  <2>1. FrontMatter(s) = <<>>
    BY <1>1 DEF FrontMatter
  <2> QED
    BY <2>1
<1>2. CASE ~(s = <<>> \/ s[1].kind # "fence")
  <2>1. FrontMatter(s) = SubSeq(s, 2, end)
    BY <1>2 DEF FrontMatter
  <2>2. fences \in SUBSET Nat
    OBVIOUS
  <2>3. fences # {} => Min(fences) \in 2..Len(s)
    <3> HIDE DEF fences
    <3>1. fences # {} => Min(fences) \in fences
      BY <2>2, LeastIsThere
    <3> QED
      BY <3>1 DEF fences
  <2>4. end \in 1..Len(s)
    BY <1>0, <1>2, <2>3
  <2> HIDE DEF end
  <2>5. \A i \in 2..end : s[i] \in Lines
    BY <2>4
  <2>6. /\ SubSeq(s, 2, end) \in Seq(Lines)
        /\ Len(SubSeq(s, 2, end)) = IF 2 <= end THEN end - 1 ELSE 0
        /\ \A i \in 1..(end - 1) : SubSeq(s, 2, end)[i] = s[i + 1]
    BY <2>4, <2>5, SubSeqProperties
  <2> QED
    BY <2>1, <2>4, <2>6
<1> QED
  BY <1>1, <1>2

(* A prefix has the front matter of the whole, or it ends within it, or it   *)
(* is a line that says nothing yet.                                          *)
LEMMA FrontMatterOfPrefix ==
  ASSUME NEW s \in Seq(Lines), NEW t \in Seq(Lines), Prefix(t, s), t # <<>>
  PROVE  \/ FrontMatter(t) = FrontMatter(s)
         \/ Versions(t) = {}
         \/ /\ t[1].kind = "fence" /\ Len(FrontMatter(t)) = Len(t) - 1
            /\ Follows(FrontMatter(t), FrontMatter(s))
<1> DEFINE f(u) == {i \in 2..Len(u) : u[i].kind = "fence"}
           end(u) == IF f(u) = {} THEN Len(u) ELSE Min(f(u)) - 1
<1>1. Len(t) >= 1 /\ Len(s) >= Len(t) /\ Len(s) \in Nat /\ Len(t) \in Nat /\ s # <<>>
  BY DEF Prefix
<1>0. \A i \in 1..Len(t) :
        /\ t[i] \in Lines /\ s[i] \in Lines
        /\ t[i] = s[i] \/ (i = Len(t) /\ t[i] \in Cuts(s[i]) /\ t[i].kind # "fence"
                           /\ (t[i].kind = "version" => s[i].kind = "version"))
  <2> SUFFICES ASSUME NEW i \in 1..Len(t), t[i] # s[i]
               PROVE  /\ t[i] \in Lines /\ s[i] \in Lines /\ i = Len(t) /\ t[i] \in Cuts(s[i])
                      /\ t[i].kind # "fence" /\ (t[i].kind = "version" => s[i].kind = "version")
    BY <1>1
  <2>1. t[i] \in Lines /\ s[i] \in Lines /\ i = Len(t) /\ t[i] \in Cuts(s[i])
    BY <1>1 DEF Prefix
  <2> QED
    BY <2>1, CutNumber
<1>2. CASE t[1].kind # "fence" /\ s[1].kind # "fence"
  BY <1>1, <1>2 DEF FrontMatter
<1>3. CASE t[1].kind # "fence" /\ s[1].kind = "fence"
  <2>1. Len(t) = 1 /\ t[1].kind # "version"
    <3>1. 1 \in 1..Len(t) /\ t[1] # s[1]
      BY <1>1, <1>3
    <3>2. 1 = Len(t) /\ (t[1].kind = "version" => s[1].kind = "version")
      BY <1>0, <3>1
    <3> QED
      BY <1>3, <3>2
  <2> QED
    BY <2>1 DEF Versions
<1>4. CASE t[1].kind = "fence"
  <2>0. s[1].kind = "fence"
    BY <1>0, <1>1, <1>4
  <2>1. FrontMatter(t) = SubSeq(t, 2, end(t)) /\ FrontMatter(s) = SubSeq(s, 2, end(s))
    BY <1>1, <1>4, <2>0 DEF FrontMatter
  <2>2. /\ f(t) \subseteq {i \in f(s) : i <= Len(t)}
        /\ \A i \in f(s) : i < Len(t) => i \in f(t)
    BY <1>0, <1>1
  <2>3. f(s) \in SUBSET Nat /\ f(t) \in SUBSET Nat /\ f(s) \subseteq 2..Len(s) /\ f(t) \subseteq 2..Len(t)
    BY <1>1
  <2>a. \A i \in f(s) : s[i].kind = "fence"
    OBVIOUS
  <2> HIDE DEF f
  <2>4. CASE f(t) # {}
    <3>1. Min(f(t)) \in f(t) /\ Min(f(s)) \in f(s) /\ Min(f(s)) <= Min(f(t))
      BY <2>2, <2>3, <2>4, LeastIsThere
    <3>2. Min(f(t)) = Min(f(s))
      <4>1. SUFFICES ASSUME Min(f(s)) < Min(f(t)) PROVE FALSE
        BY <2>3, <3>1
      <4>2. Min(f(s)) \in f(t)
        BY <1>1, <2>2, <2>3, <3>1, <4>1
      <4> QED
        BY <2>3, <3>1, <4>1, <4>2, LeastIsThere
    <3>3. end(t) = end(s) /\ end(t) \in 1..(Len(t) - 1)
      BY <1>1, <2>2, <2>3, <2>4, <3>1, <3>2
    <3> HIDE DEF end
    <3>4. SubSeq(t, 2, end(t)) = SubSeq(s, 2, end(s))
      <4>1. \A i \in 2..end(t) : t[i] = s[i]
        BY <1>0, <1>1, <3>3
      <4> QED
        BY <1>1, <3>3, <4>1
    <3> QED
      BY <2>1, <3>4
  <2>5. CASE f(t) = {}
    <3>1. f(s) # {} => Min(f(s)) \in f(s) /\ Min(f(s)) >= Len(t)
      BY <1>1, <2>2, <2>3, <2>5, LeastIsThere
    <3>2. /\ end(t) = Len(t) /\ end(s) \in (Len(t) - 1)..Len(s) /\ end(s) >= 1
          /\ end(s) < Len(t) => s[Len(t)].kind = "fence"
      BY <1>1, <2>3, <2>5, <2>a, <3>1
    <3> HIDE DEF end
    <3>3. /\ Len(SubSeq(t, 2, end(t))) = Len(t) - 1
          /\ \A i \in 1..(Len(t) - 1) : SubSeq(t, 2, end(t))[i] = t[i + 1]
      <4>1. \A i \in 2..Len(t) : t[i] \in Lines
        BY <1>1
      <4> QED
        BY <1>1, <3>2, <4>1, SubSeqProperties
    <3>4. /\ Len(SubSeq(s, 2, end(s))) = end(s) - 1
          /\ \A i \in 1..(end(s) - 1) : SubSeq(s, 2, end(s))[i] = s[i + 1]
      <4>1. \A i \in 2..end(s) : s[i] \in Lines
        BY <1>1, <3>2
      <4> QED
        BY <1>1, <3>2, <4>1, SubSeqProperties
    <3> DEFINE a == FrontMatter(t)
               b == FrontMatter(s)
    <3>5. /\ Len(a) = Len(t) - 1 /\ \A i \in 1..Len(a) : a[i] = t[i + 1]
          /\ Len(b) = end(s) - 1 /\ \A i \in 1..Len(b) : b[i] = s[i + 1]
      BY <1>1, <2>1, <3>2, <3>3, <3>4
    <3> HIDE DEF a, b
    <3>6. Follows(a, b)
      <4> SUFFICES ASSUME NEW i \in 1..Len(a)
                   PROVE  /\ a[i].kind = "version" =>
                               /\ i <= Len(b) /\ b[i].kind = "version"
                               /\ a[i] = b[i] \/ a[i] \in Cuts(b[i])
                          /\ i <= Len(b) /\ b[i].kind = "version" /\ i < Len(a) => a[i] = b[i]
        BY DEF Follows
      <4>1. i + 1 \in 1..Len(t) /\ a[i] = t[i + 1] /\ (i <= Len(b) => b[i] = s[i + 1])
        BY <1>1, <3>2, <3>5
      <4>2. a[i].kind = "version" => i <= Len(b)
        <5>1. SUFFICES ASSUME t[i + 1].kind = "version", i > Len(b) PROVE FALSE
          BY <1>1, <3>2, <3>5, <4>1
        <5>2. i + 1 = Len(t) /\ s[Len(t)].kind = "fence"
          BY <1>1, <3>2, <3>5, <4>1, <5>1
        <5> QED
          BY <1>0, <4>1, <5>1, <5>2
      <4>3. i < Len(a) => t[i + 1] = s[i + 1]
        BY <1>0, <1>1, <3>5, <4>1
      <4>4. a[i].kind = "version" => t[i + 1] = s[i + 1] \/ (t[i + 1] \in Cuts(s[i + 1]) /\ s[i + 1].kind = "version")
        BY <1>0, <4>1
      <4> QED
        BY <4>1, <4>2, <4>3, <4>4
    <3> QED
      BY <1>4, <3>5, <3>6 DEF a, b
  <2> QED
    BY <2>4, <2>5
<1> QED
  BY <1>2, <1>3, <1>4

(* The number of a file is a number or none.                                 *)
LEMMA ExtractVersionType ==
  ASSUME NEW s \in Seq(Lines)
  PROVE  ExtractVersion(s) \in Nat \cup {None}
BY WindowType, FrontMatterType, FirstVersionType DEF ExtractVersion

(* A file that is cut anywhere is a prefix of the whole.                     *)
LEMMA TornType ==
  ASSUME NEW p \in Seq(Lines), NEW t \in Torn(p)
  PROVE  t \in Seq(Lines) /\ Prefix(t, p)
<1>1. PICK n \in 0..(Len(p) - 1) :
        \/ t = SubSeq(p, 1, n)
        \/ \E cut \in Cuts(p[n + 1]) : t = Append(SubSeq(p, 1, n), cut)
  BY DEF Torn
<1>2. \A i \in 1..n : p[i] \in Lines
  OBVIOUS
<1> DEFINE u == SubSeq(p, 1, n)
<1>3. u \in Seq(Lines) /\ Len(u) = n /\ \A i \in 1..n : u[i] = p[i]
  BY <1>2, SubSeqProperties
<1> HIDE DEF u
<1>4. CASE t = u
  BY <1>3, <1>4 DEF Prefix
<1>5. CASE \E cut \in Cuts(p[n + 1]) : t = Append(u, cut)
  <2>1. PICK cut \in Cuts(p[n + 1]) : t = Append(u, cut)
    BY <1>5
  <2>2. p[n + 1] \in Lines
    OBVIOUS
  <2>3. cut \in Lines
    BY <2>2, CutNumber
  <2>4. t \in Seq(Lines) /\ Len(t) = n + 1 /\ t[n + 1] = cut /\ \A i \in 1..n : t[i] = u[i]
    BY <1>3, <2>1, <2>3
  <2> QED
    BY <1>3, <2>4 DEF Prefix
<1> QED
  BY <1>1, <1>4, <1>5 DEF u

(* A file that is cut anywhere has a number no higher than the whole, or     *)
(* none, or the whole has none.                                              *)
LEMMA TornVersion ==
  ASSUME NEW p \in Seq(Lines), NEW t \in Torn(p)
  PROVE  NoNewer(ExtractVersion(t), ExtractVersion(p))
<1> DEFINE v == Window(t)
           w == Window(p)
<1>1. t \in Seq(Lines) /\ Prefix(t, p)
  BY TornType
<1>2. v \in Seq(Lines) /\ w \in Seq(Lines) /\ Prefix(v, w)
  <2>1. /\ v \in Seq(Lines) /\ Len(v) = IF Len(t) < WindowLines THEN Len(t) ELSE WindowLines
        /\ \A i \in 1..Len(v) : v[i] = t[i]
    BY <1>1, WindowType
  <2>2. /\ w \in Seq(Lines) /\ Len(w) = IF Len(p) < WindowLines THEN Len(p) ELSE WindowLines
        /\ \A i \in 1..Len(w) : w[i] = p[i]
    BY WindowType
  <2> HIDE DEF v, w
  <2>3. Len(v) <= Len(w) /\ Len(v) <= Len(t) /\ Len(t) <= Len(p)
    BY <1>1, <2>1, <2>2 DEF Prefix, WindowLines
  <2>4. \A i \in 1..Len(v) : v[i] = t[i] /\ w[i] = p[i] /\ i \in 1..Len(t)
    BY <1>1, <2>1, <2>2, <2>3
  <2> QED
    BY <1>1, <2>1, <2>2, <2>3, <2>4 DEF Prefix
<1> HIDE DEF v, w
<1> DEFINE a == FrontMatter(v)
           b == FrontMatter(w)
<1>3. /\ ExtractVersion(t) = IF Versions(a) # {} THEN FirstVersion(a)
                             ELSE IF Versions(v) # {} THEN FirstVersion(v) ELSE None
      /\ ExtractVersion(p) = IF Versions(b) # {} THEN FirstVersion(b)
                             ELSE IF Versions(w) # {} THEN FirstVersion(w) ELSE None
  BY DEF ExtractVersion, v, w
<1>4. a \in Seq(Lines) /\ b \in Seq(Lines)
  BY <1>2, FrontMatterType
<1>5. Versions(v) # {} => Versions(w) # {} /\ NoNewer(FirstVersion(v), FirstVersion(w))
  <2>1. Follows(v, w)
    <3>1. \A i \in 1..Len(v) : v[i] \in Lines /\ w[i] \in Lines /\ i <= Len(w)
      BY <1>2 DEF Prefix
    <3> QED
      BY <1>2, <3>1, CutNumber DEF Prefix, Follows
  <2> QED
    BY <1>2, <2>1, FirstOfPrefix
<1>6. Versions(a) # {} => Versions(v) # {}
  <2>1. \A i \in 1..Len(a) : a[i] = v[i + 1]
    BY <1>2, FrontMatterType
  <2>2. Len(a) < Len(v) \/ a = <<>>
    BY <1>2, FrontMatterType
  <2> HIDE DEF a
  <2> SUFFICES ASSUME NEW i \in 1..Len(a), a[i].kind = "version" PROVE i + 1 \in Versions(v)
    BY <1>4 DEF Versions
  <2> QED
    BY <1>2, <1>4, <2>1, <2>2 DEF Versions
<1>7. CASE a = b
  <2>1. Versions(a) # {} => FirstVersion(a) \in Nat \cup {None}
    BY <1>4, FirstVersionType
  <2> HIDE DEF a, b
  <2> QED
    BY <1>3, <1>5, <1>7, <2>1, BrokerAssumption DEF NoNewer
<1>8. CASE Versions(v) = {}
  <2> HIDE DEF a, b
  <2> QED
    BY <1>3, <1>6, <1>8 DEF NoNewer
<1>9. CASE v = <<>>
  <2>1. Versions(v) = {}
    BY <1>9 DEF Versions
  <2> QED
    BY <1>8, <2>1
<1>10. CASE v # <<>> /\ a # b /\ Versions(v) # {}
  <2>1. v[1].kind = "fence" /\ Len(a) = Len(v) - 1 /\ Follows(a, b)
    BY <1>2, <1>10, FrontMatterOfPrefix
  <2>2. Versions(a) # {}
    <3>1. \A i \in 1..Len(a) : a[i] = v[i + 1]
      BY <1>2, FrontMatterType
    <3> HIDE DEF a, b
    <3>2. PICK i \in 1..Len(v) : v[i].kind = "version"
      BY <1>2, <1>10 DEF Versions
    <3>3. i # 1
      BY <2>1, <3>2
    <3>4. i - 1 \in 1..Len(a)
      BY <1>2, <1>4, <2>1, <3>2, <3>3
    <3>5. a[i - 1].kind = "version"
      BY <3>1, <3>2, <3>4
    <3> QED
      BY <1>4, <3>4, <3>5 DEF Versions
  <2>3. Versions(b) # {} /\ NoNewer(FirstVersion(a), FirstVersion(b))
    <3> HIDE DEF a, b
    <3> QED
      BY <1>4, <2>1, <2>2, FirstOfPrefix
  <2> HIDE DEF a, b
  <2> QED
    BY <1>3, <2>2, <2>3
<1> QED
  BY <1>7, <1>8, <1>9, <1>10

-----------------------------------------------------------------------------
(* What the broker remembers                                               *)

\* A waiting broker compares with what the state file holds, or had nothing yet.
Remembers ==
  /\ disk = saved
  /\ pc = "waiting" => IF saved = None THEN ~previous.exists ELSE previous = saved
  /\ pc = "running" => current = last /\ current.exists
  /\ \A s \in {last, saved} : s = None \/ s.exists

IInv == TypeOK /\ Remembers

(* A snapshot is one, of a file or of none.                                  *)
LEMMA SnapshotType ==
  ASSUME NEW file, file = None \/ file \in Seq(Lines)
  PROVE  Snapshot(file) \in Snapshots
<1>1. CASE file = None
  BY <1>1 DEF Snapshot, Snapshots, NoFile
<1>2. CASE file # None
  BY <1>2, ExtractVersionType DEF Snapshot, Snapshots
<1> QED
  BY <1>1, <1>2

(* Every step of the author and the broker keeps the types.                  *)
LEMMA TypeStep == TypeOK /\ [Next]_vars => TypeOK'
<1> SUFFICES ASSUME TypeOK, [Next]_vars PROVE TypeOK'
  OBVIOUS
<1> USE BrokerAssumption DEF BrokerAssumption, TypeOK
<1>0. Snapshot(inbox) \in Snapshots
  BY SnapshotType
<1>1. CASE UNCHANGED vars
  BY <1>1 DEF vars, author, broker, history
<1>2. ASSUME NEW p \in Prompts, Begin(p) PROVE TypeOK'
  <2>1. p \in Seq(Lines) /\ inbox' \in Torn(p)
    BY <1>2 DEF Begin
  <2>2. inbox' \in Seq(Lines)
    BY <2>1, TornType
  <2> QED
    BY <1>2, <2>2 DEF Begin, broker, history
<1>9. CASE Continue
  <2>1. writing \in Seq(Lines) /\ inbox' \in Torn(writing)
    BY <1>9 DEF Continue
  <2>2. inbox' \in Seq(Lines)
    BY <2>1, TornType
  <2> QED
    BY <1>9, <2>2 DEF Continue, broker, history
<1>3. CASE Finish
  BY <1>3 DEF Finish, broker, history
<1>4. CASE Remove
  BY <1>4 DEF Remove, broker, history
<1>5. CASE Start
  BY <1>0, <1>5 DEF Start, Prime, author, history
<1>6. CASE Dispatch
  BY <1>0, <1>6 DEF Dispatch, author
<1>7. CASE Save
  BY <1>7 DEF Save, author
<1>8. CASE Crash \/ LookRaises
  BY <1>8 DEF Crash, LookRaises, Down, author, history
<1> QED
  BY <1>1, <1>2, <1>3, <1>4, <1>5, <1>6, <1>7, <1>8, <1>9 DEF Next

(* The memory of a waiting broker is its state file, through starts, commands *)
(* and deaths.                                                               *)
LEMMA RemembersStep == IInv /\ [Next]_vars => Remembers'
<1> SUFFICES ASSUME TypeOK, Remembers, [Next]_vars PROVE Remembers'
  BY DEF IInv
<1> USE DEF Remembers
<1>0. Snapshot(inbox) # None /\ current # None
  BY SnapshotType, BrokerAssumption DEF TypeOK, BrokerAssumption
<1>1. CASE UNCHANGED vars
  BY <1>1 DEF vars, author, broker, history
<1>2. CASE (\E p \in Prompts : Begin(p)) \/ Continue \/ Finish \/ Remove
  BY <1>2 DEF Begin, Continue, Finish, Remove, broker, history
<1>3. CASE Start
  <2>1. CASE disk # None
    BY <1>3, <2>1 DEF Start, history
  <2>2. CASE disk = None
    BY <1>0, <1>3, <2>2 DEF Start, Prime, history
  <2> QED
    BY <2>1, <2>2
<1>4. CASE Dispatch
  BY <1>0, <1>4 DEF Dispatch, ShouldTrigger
<1>5. CASE Save
  BY <1>0, <1>5 DEF Save
<1>6. CASE Crash \/ LookRaises
  BY <1>6 DEF Crash, LookRaises, Down, history
<1> QED
  BY <1>1, <1>2, <1>3, <1>4, <1>5, <1>6 DEF Next

(* The invariant holds at the start.                                         *)
LEMMA InitInv == Init => IInv
<1> USE BrokerAssumption DEF BrokerAssumption
<1>1. NoFile \in Snapshots
  BY DEF NoFile, Snapshots
<1>2. Init => TypeOK
  BY <1>1 DEF Init, TypeOK
<1>3. Init => Remembers
  BY DEF Init, Remembers
<1> QED
  BY <1>2, <1>3 DEF IInv

(* The broker's memory is lawful in every reachable state.                   *)
THEOREM BrokerRemembers == Spec => []IInv
<1>1. IInv /\ [Next]_vars => IInv'
  BY TypeStep, RemembersStep DEF IInv
<1> QED
  BY <1>1, InitInv, PTL DEF Spec

(* Every variable keeps its type.                                            *)
THEOREM TypeCorrect == Spec => []TypeOK
<1>1. IInv => TypeOK
  BY DEF IInv
<1> QED
  BY <1>1, BrokerRemembers, PTL

(* The state file holds the last prompt whose command was over.              *)
THEOREM RestartsKnowTheLast == Spec => []RestartsKnow
<1>1. IInv => RestartsKnow
  BY DEF IInv, Remembers, RestartsKnow
<1> QED
  BY <1>1, BrokerRemembers, PTL

(* Prompts are handed over in order, unless one was cut off.                 *)
THEOREM HandoversRise == Spec => HandoversAreNewer
<1>1. IInv /\ [Next]_vars =>
        [pc = "waiting" /\ pc' = "running" =>
           last # saved \/ last = None \/ Newer(last', last)]_vars
  <2> SUFFICES ASSUME Remembers, Next, pc = "waiting", pc' = "running",
                      last = saved, last # None
               PROVE  Newer(last', last)
    BY DEF IInv, vars
  <2>1. Dispatch
    BY DEF Next, Begin, Continue, Finish, Remove, Start, Save, Crash, LookRaises, Down, broker
  <2>2. previous = last /\ last.exists
    BY DEF Remembers
  <2>3. ShouldTrigger(last', previous)
    BY <2>1 DEF Dispatch
  <2> QED
    BY <2>2, <2>3 DEF ShouldTrigger, Newer
<1> QED
  BY <1>1, BrokerRemembers, PTL DEF Spec, HandoversAreNewer

(* A file that is still written is not newer than its prompt, wherever it is *)
(* cut: its number is that of the prompt, or cut off it.                     *)
THEOREM TornPromptsDoNotOvertake == Spec => []TornPromptsAreNoNewer
<1> DEFINE Cut == writing # None => writing \in Prompts /\ inbox \in Torn(writing)
<1> USE BrokerAssumption DEF BrokerAssumption
<1>1. Init => Cut
  BY DEF Init
<1>2. Cut /\ [Next]_vars => Cut'
  <2> SUFFICES ASSUME Cut, [Next]_vars PROVE Cut'
    OBVIOUS
  <2>1. ASSUME NEW p \in Prompts, Begin(p) PROVE Cut'
    BY <2>1 DEF Begin
  <2>2. CASE Continue
    BY <2>2 DEF Continue
  <2>3. CASE Finish
    BY <2>3 DEF Finish
  <2>4. CASE Remove
    BY <2>4 DEF Remove
  <2>5. CASE UNCHANGED author
    BY <2>5 DEF author
  <2> QED
    BY <2>1, <2>2, <2>3, <2>4, <2>5 DEF Next, vars, Start, Dispatch, Save, Crash, LookRaises, Down
<1>3. Cut => TornPromptsAreNoNewer
  <2> SUFFICES ASSUME Cut, writing # None
               PROVE  NoNewer(ExtractVersion(inbox), ExtractVersion(writing))
    BY DEF TornPromptsAreNoNewer, NoNewer
  <2>1. writing \in Seq(Lines) /\ inbox \in Torn(writing)
    OBVIOUS
  <2> QED
    BY <2>1, TornVersion
<1> QED
  BY <1>1, <1>2, <1>3, PTL DEF Spec

=============================================================================
