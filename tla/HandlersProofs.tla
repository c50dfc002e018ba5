--------------------------- MODULE HandlersProofs ---------------------------
(***************************************************************************)
(* Theorems about Handlers, for every value of its constants: what the     *)
(* three walks keep, reach, call and may touch, and how long select may    *)
(* sleep.                                                                  *)
(*                                                                         *)
(* The invariant comes in layers, each preserved on top of those before:   *)
(* WalkInv, types, lists without doubles, and pointers that are where they *)
(* should be as long as they do not dangle; GapInv, what a walk by three   *)
(* pointers has left between them; Accounts, the lists against what was    *)
(* registered; SafeInv, nothing dangles; DueInv and CallInv, what is still *)
(* to come and who may be called; TimeInv, the delay.  Under each layer    *)
(* there is one lemma for each action that can disturb it.                 *)
(*                                                                         *)
(* Who comes before whom, Behind, is all the layers say about positions:   *)
(* AddIs and DropIs say what adding to and unlinking from a list do to it, *)
(* OnGrows and OnShrinks what that means to a walk on that list.           *)
(***************************************************************************)
EXTENDS Handlers, SequenceTheorems, TLAPS

-----------------------------------------------------------------------------
(* Lists: who is on them and in which order. *)

Unique(s) == \A i, j \in DOMAIN s : s[i] = s[j] => i = j

Behind(s, f, g) == \E i, j \in DOMAIN s : i < j /\ s[i] = f /\ s[j] = g

\* What is taken from a list in its order keeps that order.
LEMMA SubIs ==
    ASSUME NEW S, NEW s \in Seq(S), Unique(s), NEW w \in Seq(S),
           NEW At \in [DOMAIN w -> DOMAIN s],
           \A i, j \in DOMAIN w : i < j => At[i] < At[j],
           \A j \in DOMAIN w : w[j] = s[At[j]]
    PROVE  /\ Unique(w)
           /\ Members(w) \subseteq Members(s)
           /\ \A f, g : Behind(w, f, g) <=>
                  f \in Members(w) /\ g \in Members(w) /\ Behind(s, f, g)
<1>1. DOMAIN s = 1 .. Len(s) /\ Len(s) \in Nat /\ DOMAIN w = 1 .. Len(w) /\ Len(w) \in Nat
  OBVIOUS
<1>2. \A j \in DOMAIN w : At[j] \in DOMAIN s /\ At[j] \in Int BY <1>1
<1>3. \A i, j \in DOMAIN w : At[i] < At[j] => i < j
  <2> SUFFICES ASSUME NEW i \in DOMAIN w, NEW j \in DOMAIN w, At[i] < At[j], ~(i < j)
               PROVE  FALSE
    OBVIOUS
  <2>1. i = j \/ j < i BY <1>1
  <2>2. At[i] \in Int /\ At[j] \in Int BY <1>2
  <2> QED BY <2>1, <2>2
<1>4. Unique(w)
  <2> SUFFICES ASSUME NEW i \in DOMAIN w, NEW j \in DOMAIN w, w[i] = w[j] PROVE i = j
    BY DEF Unique
  <2>1. At[i] = At[j] BY <1>2 DEF Unique
  <2>2. i < j \/ j < i \/ i = j BY <1>1
  <2>3. At[i] \in Int /\ At[j] \in Int BY <1>2
  <2> QED BY <2>1, <2>2, <2>3
<1>5. Members(w) \subseteq Members(s) BY <1>2 DEF Members
<1>6. ASSUME NEW f, NEW g, Behind(w, f, g)
      PROVE  f \in Members(w) /\ g \in Members(w) /\ Behind(s, f, g)
  <2>1. PICK i \in DOMAIN w, j \in DOMAIN w : i < j /\ w[i] = f /\ w[j] = g
    BY <1>6 DEF Behind
  <2>2. At[i] < At[j] /\ s[At[i]] = f /\ s[At[j]] = g BY <2>1
  <2> QED BY <1>2, <2>1, <2>2 DEF Behind, Members
<1>7. ASSUME NEW f, NEW g, f \in Members(w), g \in Members(w), Behind(s, f, g)
      PROVE  Behind(w, f, g)
  <2>1. PICK i \in DOMAIN w, j \in DOMAIN w : w[i] = f /\ w[j] = g BY <1>7 DEF Members
  <2>2. PICK k \in DOMAIN s, l \in DOMAIN s : k < l /\ s[k] = f /\ s[l] = g
    BY <1>7 DEF Behind
  <2>3. At[i] = k /\ At[j] = l BY <1>2, <2>1, <2>2 DEF Unique
  <2>4. i < j BY <1>3, <2>2, <2>3
  <2> QED BY <2>1, <2>4 DEF Behind
<1> QED BY <1>4, <1>5, <1>6, <1>7

\* A list without what is behind place a and in front of place b.
LEMMA SplicedIs ==
    ASSUME NEW S, NEW s \in Seq(S), Unique(s),
           NEW a \in 0 .. Len(s), NEW b \in a + 1 .. Len(s) + 1
    PROVE  LET w == SubSeq(s, 1, a) \o SubSeq(s, b, Len(s))
           IN /\ w \in Seq(S) /\ Unique(w)
              /\ Members(w) \subseteq Members(s)
              /\ \A i \in DOMAIN s : s[i] \in Members(w) <=> i <= a \/ b <= i
              /\ \A f, g : Behind(w, f, g) <=>
                     f \in Members(w) /\ g \in Members(w) /\ Behind(s, f, g)
<1> DEFINE front == SubSeq(s, 1, a)
           back  == SubSeq(s, b, Len(s))
           w     == front \o back
           At    == [j \in DOMAIN w |-> IF j <= a THEN j ELSE j + (b - 1 - a)]
<1>1. DOMAIN s = 1 .. Len(s) /\ Len(s) \in Nat /\ a \in Nat /\ b \in Nat \ {0}
  OBVIOUS
<1>2. front \in Seq(S) /\ Len(front) = a /\ \A j \in 1 .. a : front[j] = s[j]
  BY <1>1
<1>3. /\ back \in Seq(S) /\ Len(back) = Len(s) + 1 - b
      /\ \A j \in 1 .. Len(s) + 1 - b : back[j] = s[b - 1 + j]
  BY <1>1
<1> HIDE DEF front, back
<1>4. w \in Seq(S) /\ Len(w) = a + (Len(s) + 1 - b) /\ DOMAIN w = 1 .. Len(w)
  <2>1. Len(w) = Len(front) + Len(back) BY <1>2, <1>3, ConcatProperties
  <2>2. w \in Seq(S) BY <1>2, <1>3
  <2>3. DOMAIN w = 1 .. Len(w) BY <2>2
  <2> QED BY <1>2, <1>3, <2>1, <2>2, <2>3
<1>5. ASSUME NEW j \in DOMAIN w PROVE At[j] \in DOMAIN s /\ w[j] = s[At[j]]
  <2>1. j \in 1 .. a + (Len(s) + 1 - b) /\ j \in Int BY <1>1, <1>4
  <2>2. CASE j <= a
    <3>1. w[j] = front[j] BY <1>1, <1>2, <1>3, <2>1, <2>2
    <3> QED BY <1>1, <1>2, <2>1, <2>2, <3>1
  <2>3. CASE ~(j <= a)
    <3>1. j - a \in 1 .. Len(s) + 1 - b BY <1>1, <2>1, <2>3
    <3>2. w[j] = back[j - a] BY <1>1, <1>2, <1>3, <2>1, <2>3
    <3>3. b - 1 + (j - a) = j + (b - 1 - a) BY <1>1, <2>1
    <3>4. w[j] = s[j + (b - 1 - a)] BY <1>3, <3>1, <3>2, <3>3
    <3> QED BY <1>1, <2>1, <2>3, <3>1, <3>4
  <2> QED BY <2>2, <2>3
<1>6. At \in [DOMAIN w -> DOMAIN s] BY <1>5
<1>7. \A i, j \in DOMAIN w : i < j => At[i] < At[j] BY <1>1, <1>4
<1>8. /\ Unique(w) /\ Members(w) \subseteq Members(s)
      /\ \A f, g : Behind(w, f, g) <=>
             f \in Members(w) /\ g \in Members(w) /\ Behind(s, f, g)
  <2> HIDE DEF At, w
  <2> QED BY <1>4, <1>5, <1>6, <1>7, SubIs
<1>9. ASSUME NEW i \in DOMAIN s PROVE s[i] \in Members(w) <=> i <= a \/ b <= i
  <2>1. CASE i <= a
    <3>1. i \in DOMAIN w /\ At[i] = i BY <1>1, <1>4, <2>1
    <3>2. w[i] = s[i] BY <1>5, <3>1
    <3> QED BY <2>1, <3>1, <3>2 DEF Members
  <2>2. CASE b <= i
    <3> DEFINE j == i - (b - 1 - a)
    <3>1. j \in DOMAIN w /\ ~(j <= a) /\ j + (b - 1 - a) = i BY <1>1, <1>4, <2>2
    <3>2. At[j] = i BY <3>1
    <3>3. w[j] = s[i] BY <1>5, <3>1, <3>2
    <3> QED BY <2>2, <3>1, <3>3 DEF Members
  <2>3. CASE a < i /\ i < b
    <3> SUFFICES ASSUME s[i] \in Members(w) PROVE FALSE BY <1>1, <2>3
    <3>1. PICK j \in DOMAIN w : w[j] = s[i] BY DEF Members
    <3>2. At[j] = i BY <1>5, <3>1 DEF Unique
    <3> QED BY <1>1, <1>4, <2>3, <3>2
  <2> QED BY <1>1, <2>1, <2>2, <2>3
<1> QED BY <1>4, <1>8, <1>9 DEF front, back

\* No item is no function.
LEMMA NullIs == NULL \notin Functions
BY HandlersAssumption DEF Functions

\* The order of a list is a strict total order of its members.
LEMMA OrderIs ==
    ASSUME NEW s \in Seq(Functions), Unique(s)
    PROVE  /\ \A f, g : Behind(s, f, g) => f \in Members(s) /\ g \in Members(s) /\ f # g
           /\ \A f, g : Behind(s, f, g) => ~Behind(s, g, f)
           /\ \A f, g, h : Behind(s, f, g) /\ Behind(s, g, h) => Behind(s, f, h)
           /\ \A f, g \in Members(s) : f = g \/ Behind(s, f, g) \/ Behind(s, g, f)
<1>1. DOMAIN s = 1 .. Len(s) /\ Len(s) \in Nat OBVIOUS
<1>2. \A i \in DOMAIN s : i \in Int BY <1>1
<1>3. ASSUME NEW f, NEW g, Behind(s, f, g)
      PROVE  f \in Members(s) /\ g \in Members(s) /\ f # g /\ ~Behind(s, g, f)
  <2>1. PICK i \in DOMAIN s, j \in DOMAIN s : i < j /\ s[i] = f /\ s[j] = g
    BY <1>3 DEF Behind
  <2>2. f # g BY <1>2, <2>1 DEF Unique
  <2>3. ASSUME Behind(s, g, f) PROVE FALSE
    <3>1. PICK k \in DOMAIN s, l \in DOMAIN s : k < l /\ s[k] = g /\ s[l] = f
      BY <2>3 DEF Behind
    <3>2. k = j /\ l = i BY <2>1, <3>1 DEF Unique
    <3> QED BY <1>2, <2>1, <3>1, <3>2
  <2> QED BY <2>1, <2>2, <2>3 DEF Members
<1>4. ASSUME NEW f, NEW g, NEW h, Behind(s, f, g), Behind(s, g, h)
      PROVE  Behind(s, f, h)
  <2>1. PICK i \in DOMAIN s, j \in DOMAIN s : i < j /\ s[i] = f /\ s[j] = g
    BY <1>4 DEF Behind
  <2>2. PICK k \in DOMAIN s, l \in DOMAIN s : k < l /\ s[k] = g /\ s[l] = h
    BY <1>4 DEF Behind
  <2>3. j = k BY <2>1, <2>2 DEF Unique
  <2>4. i < l BY <1>2, <2>1, <2>2, <2>3
  <2> QED BY <2>1, <2>2, <2>4 DEF Behind
<1>5. ASSUME NEW f \in Members(s), NEW g \in Members(s), f # g
      PROVE  Behind(s, f, g) \/ Behind(s, g, f)
  <2>1. PICK i \in DOMAIN s, j \in DOMAIN s : s[i] = f /\ s[j] = g BY DEF Members
  <2>2. i < j \/ j < i BY <1>2, <1>5, <2>1
  <2> QED BY <2>1, <2>2 DEF Behind
<1> QED BY <1>3, <1>4, <1>5

\* Place finds the one place of a member.
LEMMA PlaceIs ==
    ASSUME NEW s \in Seq(Functions), Unique(s), NEW f \in Members(s)
    PROVE  /\ Place(s, f) \in 1 .. Len(s) /\ s[Place(s, f)] = f
           /\ \A i \in DOMAIN s : s[i] = f => i = Place(s, f)
<1>1. PICK i \in DOMAIN s : s[i] = f BY DEF Members
<1>2. Place(s, f) \in DOMAIN s /\ s[Place(s, f)] = f BY <1>1 DEF Place
<1>3. DOMAIN s = 1 .. Len(s) OBVIOUS
<1> QED BY <1>2, <1>3 DEF Unique

\* A function put at the end is behind all others.
LEMMA AppendIs ==
    ASSUME NEW s \in Seq(Functions), Unique(s), NEW f \in Functions, f \notin Members(s)
    PROVE  LET w == Append(s, f)
           IN /\ w \in Seq(Functions) /\ Unique(w)
              /\ Members(w) = Members(s) \cup {f}
              /\ \A g, h : Behind(w, g, h) <=>
                     Behind(s, g, h) \/ (g \in Members(s) /\ h = f)
<1> DEFINE w == Append(s, f)
<1>1. DOMAIN s = 1 .. Len(s) /\ Len(s) \in Nat OBVIOUS
<1>2. /\ w \in Seq(Functions) /\ DOMAIN w = 1 .. Len(s) + 1
      /\ w[Len(s) + 1] = f /\ \A i \in DOMAIN s : w[i] = s[i]
  BY <1>1
<1> HIDE DEF w
<1>3. \A i \in DOMAIN s : i \in DOMAIN w /\ i < Len(s) + 1 BY <1>1, <1>2
<1>4. \A i \in DOMAIN w : i \in DOMAIN s \/ i = Len(s) + 1 BY <1>1, <1>2
<1>5. Len(s) + 1 \in DOMAIN w BY <1>1, <1>2
<1>6. \A i \in DOMAIN s : s[i] # f BY DEF Members
<1>7. Unique(w)
  <2> SUFFICES ASSUME NEW i \in DOMAIN w, NEW j \in DOMAIN w, w[i] = w[j] PROVE i = j
    BY DEF Unique
  <2>1. CASE i \in DOMAIN s /\ j \in DOMAIN s BY <1>2, <2>1 DEF Unique
  <2>2. CASE i \notin DOMAIN s \/ j \notin DOMAIN s BY <1>2, <1>4, <1>6, <2>2
  <2> QED BY <2>1, <2>2
<1>8. Members(w) = Members(s) \cup {f}
  <2>1. Members(w) \subseteq Members(s) \cup {f} BY <1>2, <1>4 DEF Members
  <2>2. Members(s) \cup {f} \subseteq Members(w) BY <1>2, <1>3, <1>5 DEF Members
  <2> QED BY <2>1, <2>2
<1>9. ASSUME NEW g, NEW h, Behind(w, g, h)
      PROVE  Behind(s, g, h) \/ (g \in Members(s) /\ h = f)
  <2>1. PICK i \in DOMAIN w, j \in DOMAIN w : i < j /\ w[i] = g /\ w[j] = h
    BY <1>9 DEF Behind
  <2>2. i \in DOMAIN s BY <1>1, <1>2, <1>4, <2>1
  <2>3. CASE j \in DOMAIN s BY <1>2, <2>1, <2>2, <2>3 DEF Behind
  <2>4. CASE j = Len(s) + 1 BY <1>2, <2>1, <2>2, <2>4 DEF Members
  <2> QED BY <1>4, <2>3, <2>4
<1>10. ASSUME NEW g, NEW h, Behind(s, g, h) PROVE Behind(w, g, h)
  <2>1. PICK i \in DOMAIN s, j \in DOMAIN s : i < j /\ s[i] = g /\ s[j] = h
    BY <1>10 DEF Behind
  <2> QED BY <1>2, <1>3, <2>1 DEF Behind
<1>11. ASSUME NEW g \in Members(s) PROVE Behind(w, g, f)
  <2>1. PICK i \in DOMAIN s : s[i] = g BY DEF Members
  <2> QED BY <1>2, <1>3, <1>5, <2>1 DEF Behind
<1> QED BY <1>2, <1>7, <1>8, <1>9, <1>10, <1>11 DEF w

\* The first of a list is in front of all others.
LEMMA FirstIs ==
    ASSUME NEW s \in Seq(Functions), Unique(s)
    PROVE  \/ First(s) = NULL /\ Members(s) = {}
           \/ /\ First(s) \in Members(s)
              /\ \A f \in Members(s) : f = First(s) \/ Behind(s, First(s), f)
<1>1. DOMAIN s = 1 .. Len(s) /\ Len(s) \in Nat OBVIOUS
<1>2. CASE s = <<>> BY <1>2 DEF First, Members
<1>3. CASE s # <<>>
  <2>1. Len(s) # 0 BY <1>3
  <2>2. 1 \in DOMAIN s /\ First(s) = s[1] BY <1>1, <1>3, <2>1 DEF First
  <2>3. \A i \in DOMAIN s : i = 1 \/ 1 < i BY <1>1
  <2> QED BY <2>2, <2>3 DEF Members, Behind
<1> QED BY <1>2, <1>3

\* The lists that After, UpTo and From cut off.
LEMMA CutsAre ==
    ASSUME NEW s \in Seq(Functions), Unique(s), NEW f \in Members(s)
    PROVE  LET p == Place(s, f)
           IN /\ \A g : Behind(s, f, g) <=> \E i \in DOMAIN s : p < i /\ s[i] = g
              /\ \A g : Behind(s, g, f) <=> \E i \in DOMAIN s : i < p /\ s[i] = g
              /\ After(s, f) \in Seq(Functions) /\ Unique(After(s, f))
              /\ Members(After(s, f)) = {g \in Members(s) : Behind(s, f, g)}
              /\ \A g, h : Behind(After(s, f), g, h) <=>
                     Behind(s, f, g) /\ Behind(s, g, h)
<1> DEFINE p == Place(s, f)
           w == After(s, f)
<1>1. p \in 1 .. Len(s) /\ s[p] = f /\ \A i \in DOMAIN s : s[i] = f => i = p BY PlaceIs
<1>2. DOMAIN s = 1 .. Len(s) /\ Len(s) \in Nat OBVIOUS
<1>3. f # NULL
  <2>1. f \in Functions BY <1>1, <1>2
  <2> QED BY <2>1, NullIs
<1>4. w = SubSeq(s, p + 1, Len(s)) BY <1>3 DEF After
<1> HIDE DEF p
<1>5. \A g : Behind(s, f, g) <=> \E i \in DOMAIN s : p < i /\ s[i] = g
  BY <1>1, <1>2 DEF Behind
<1>6. \A g : Behind(s, g, f) <=> \E i \in DOMAIN s : i < p /\ s[i] = g
  BY <1>1, <1>2 DEF Behind
<1> DEFINE e == SubSeq(s, 1, 0)
<1>7. e = <<>> BY SubSeqEmpty
<1>8. w \in Seq(Functions)
  <2>1. \A i \in p + 1 .. Len(s) : s[i] \in Functions BY <1>1, <1>2
  <2> QED BY <1>1, <1>2, <1>4, <2>1, SubSeqProperties
<1>9. e \o w = w BY <1>7, <1>8, ConcatEmptySeq
<1> HIDE DEF e
<1>10. 0 \in 0 .. Len(s) /\ p + 1 \in 0 + 1 .. Len(s) + 1 BY <1>1, <1>2
<1>11. /\ Unique(w) /\ Members(w) \subseteq Members(s)
       /\ \A i \in DOMAIN s : s[i] \in Members(w) <=> i <= 0 \/ p + 1 <= i
       /\ \A g, h : Behind(w, g, h) <=>
              g \in Members(w) /\ h \in Members(w) /\ Behind(s, g, h)
  <2>1. LET v == e \o SubSeq(s, p + 1, Len(s))
        IN /\ v \in Seq(Functions) /\ Unique(v)
           /\ Members(v) \subseteq Members(s)
           /\ \A i \in DOMAIN s : s[i] \in Members(v) <=> i <= 0 \/ p + 1 <= i
           /\ \A g, h : Behind(v, g, h) <=>
                  g \in Members(v) /\ h \in Members(v) /\ Behind(s, g, h)
    BY <1>10, SplicedIs DEF e
  <2>2. e \o SubSeq(s, p + 1, Len(s)) = w BY <1>4, <1>9
  <2> HIDE DEF w
  <2> QED BY <2>1, <2>2
<1> HIDE DEF w
<1>12. \A i \in DOMAIN s : s[i] \in Members(w) <=> p < i BY <1>1, <1>2, <1>11
<1>13. Members(w) = {g \in Members(s) : Behind(s, f, g)}
  <2>1. ASSUME NEW g \in Members(w) PROVE g \in Members(s) /\ Behind(s, f, g)
    <3>1. g \in Members(s) BY <1>11
    <3>2. PICK i \in DOMAIN s : s[i] = g BY <3>1 DEF Members
    <3> QED BY <1>5, <1>12, <3>1, <3>2
  <2>2. ASSUME NEW g, Behind(s, f, g) PROVE g \in Members(w) BY <1>5, <1>12, <2>2
  <2> QED BY <2>1, <2>2
<1>14. ASSUME NEW g, NEW h
       PROVE  Behind(w, g, h) <=> Behind(s, f, g) /\ Behind(s, g, h)
  <2>1. Behind(s, f, g) /\ Behind(s, g, h) => h \in Members(s) /\ Behind(s, f, h)
    BY OrderIs
  <2>2. Behind(s, f, g) => g \in Members(s) BY OrderIs
  <2> QED BY <1>11, <1>13, <2>1, <2>2
<1> QED BY <1>5, <1>6, <1>8, <1>11, <1>13, <1>14 DEF p, w

\* The successor of f is the first behind it.
LEMMA NextIs ==
    ASSUME NEW s \in Seq(Functions), Unique(s), NEW f \in Members(s)
    PROVE  \/ NextOf(s, f) = NULL /\ \A g : ~Behind(s, f, g)
           \/ /\ NextOf(s, f) \in Members(s) /\ Behind(s, f, NextOf(s, f))
              /\ \A g : Behind(s, f, g) => g = NextOf(s, f) \/ Behind(s, NextOf(s, f), g)
<1> DEFINE w == After(s, f)
<1>1. w \in Seq(Functions) /\ Unique(w)
      /\ Members(w) = {g \in Members(s) : Behind(s, f, g)}
      /\ \A g, h : Behind(w, g, h) <=> Behind(s, f, g) /\ Behind(s, g, h)
  BY CutsAre
<1>2. \A g : Behind(s, f, g) => g \in Members(s) BY OrderIs
<1>3. NextOf(s, f) = First(w) BY DEF NextOf
<1> HIDE DEF w
<1>4. \/ First(w) = NULL /\ Members(w) = {}
      \/ /\ First(w) \in Members(w)
         /\ \A g \in Members(w) : g = First(w) \/ Behind(w, First(w), g)
  BY <1>1, FirstIs
<1> QED BY <1>1, <1>2, <1>3, <1>4

\* After an item comes the list from its successor on.
LEMMA AfterIs ==
    ASSUME NEW s \in Seq(Functions), Unique(s), NEW f \in Members(s)
    PROVE  After(s, f) = From(s, NextOf(s, f))
<1>1. PICK p \in 1 .. Len(s) : p = Place(s, f) /\ s[p] = f BY PlaceIs
<1> DEFINE w == SubSeq(s, p + 1, Len(s))
<1>2. DOMAIN s = 1 .. Len(s) /\ Len(s) \in Nat OBVIOUS
<1>3. f # NULL
  <2>1. f \in Functions BY <1>1, <1>2
  <2> QED BY <2>1, NullIs
<1>4. After(s, f) = SubSeq(s, p + 1, Len(s)) BY <1>1, <1>3 DEF After
<1>5. w \in Seq(Functions) /\ Len(w) = Len(s) - p /\ \A i \in 1 .. Len(w) : w[i] = s[p + i]
  <2>1. \A i \in p + 1 .. Len(s) : s[i] \in Functions BY <1>1, <1>2
  <2>2. /\ w \in Seq(Functions)
        /\ Len(w) = IF p + 1 <= Len(s) THEN Len(s) - (p + 1) + 1 ELSE 0
        /\ \A i \in 1 .. Len(s) - (p + 1) + 1 : w[i] = s[p + 1 + i - 1]
    BY <1>1, <1>2, <2>1, SubSeqProperties
  <2> HIDE DEF w
  <2>3. Len(w) = Len(s) - p BY <1>1, <1>2, <2>2
  <2>4. ASSUME NEW i \in 1 .. Len(w) PROVE w[i] = s[p + i]
    <3>1. i \in 1 .. Len(s) - (p + 1) + 1 /\ p + 1 + i - 1 = p + i BY <1>1, <1>2, <2>3
    <3> QED BY <2>2, <3>1
  <2> QED BY <2>2, <2>3, <2>4
<1>6. After(s, f) = w BY <1>4
<1> HIDE DEF w
<1>7. CASE p = Len(s)
  <2>1. w = <<>> BY <1>2, <1>5, <1>7
  <2> QED BY <1>6, <2>1 DEF NextOf, First, From
<1>8. CASE p < Len(s)
  <2>1. Len(w) # 0 /\ 1 \in 1 .. Len(w) BY <1>1, <1>2, <1>5, <1>8
  <2>2. w # <<>> /\ w[1] = s[p + 1] BY <1>5, <2>1
  <2>3. NextOf(s, f) = s[p + 1] BY <1>6, <2>2 DEF NextOf, First
  <2>4. p + 1 \in DOMAIN s BY <1>1, <1>2, <1>8
  <2>5. s[p + 1] \in Members(s) /\ s[p + 1] \in Functions BY <2>4 DEF Members
  <2>6. Place(s, s[p + 1]) = p + 1 BY <2>4, <2>5, PlaceIs
  <2>7. From(s, s[p + 1]) = SubSeq(s, p + 1, Len(s)) BY <2>5, <2>6, NullIs DEF From
  <2> QED BY <1>6, <2>3, <2>7 DEF w
<1>9. p = Len(s) \/ p < Len(s) BY <1>1, <1>2
<1> QED BY <1>7, <1>8, <1>9

\* A list without f has all others, in their order.
LEMMA WithoutIs ==
    ASSUME NEW s \in Seq(Functions), Unique(s), NEW f \in Members(s)
    PROVE  LET w == Without(s, f)
           IN /\ w \in Seq(Functions) /\ Unique(w)
              /\ Members(w) = Members(s) \ {f}
              /\ \A g, h : Behind(w, g, h) <=> Behind(s, g, h) /\ g # f /\ h # f
<1> DEFINE p == Place(s, f)
           w == Without(s, f)
<1>1. p \in 1 .. Len(s) /\ s[p] = f /\ \A i \in DOMAIN s : s[i] = f => i = p BY PlaceIs
<1>2. DOMAIN s = 1 .. Len(s) /\ Len(s) \in Nat OBVIOUS
<1>3. f # NULL
  <2>1. f \in Functions BY <1>1, <1>2
  <2> QED BY <2>1, NullIs
<1>4. w = SubSeq(s, 1, p - 1) \o SubSeq(s, p + 1, Len(s)) BY <1>3 DEF Without, After
<1> HIDE DEF p
<1>5. p - 1 \in 0 .. Len(s) /\ p + 1 \in (p - 1) + 1 .. Len(s) + 1 BY <1>1, <1>2
<1>6. /\ w \in Seq(Functions) /\ Unique(w) /\ Members(w) \subseteq Members(s)
      /\ \A i \in DOMAIN s : s[i] \in Members(w) <=> i <= p - 1 \/ p + 1 <= i
      /\ \A g, h : Behind(w, g, h) <=> g \in Members(w) /\ h \in Members(w) /\ Behind(s, g, h)
  <2> HIDE DEF w
  <2> QED BY <1>4, <1>5, SplicedIs
<1> HIDE DEF w
<1>7. Members(w) = Members(s) \ {f}
  <2>1. \A i \in DOMAIN s : s[i] \in Members(w) <=> i # p BY <1>1, <1>2, <1>6
  <2>2. ASSUME NEW g \in Members(w) PROVE g # f
    <3>1. PICK i \in DOMAIN s : s[i] = g BY <1>6 DEF Members
    <3> QED BY <1>1, <2>1, <3>1
  <2>3. ASSUME NEW g \in Members(s), g # f PROVE g \in Members(w)
    <3>1. PICK i \in DOMAIN s : s[i] = g BY DEF Members
    <3> QED BY <1>1, <2>1, <2>3, <3>1
  <2> QED BY <1>6, <2>2, <2>3
<1>8. \A g, h : Behind(s, g, h) => g \in Members(s) /\ h \in Members(s) BY OrderIs
<1> QED BY <1>6, <1>7, <1>8 DEF w

\* A list whose item p, or head, has been linked to n, or to nothing.
LEMMA LinkedIs ==
    ASSUME NEW s \in Seq(Functions), Unique(s),
           NEW p \in Members(s) \cup {NULL}, NEW n \in Members(s) \cup {NULL},
           p # NULL /\ n # NULL => Behind(s, p, n)
    PROVE  LET w == UpTo(s, p) \o From(s, n)
           IN /\ w \in Seq(Functions) /\ Unique(w)
              /\ \A g : g \in Members(w) <=>
                     \/ p # NULL /\ (g = p \/ Behind(s, g, p))
                     \/ n # NULL /\ (g = n \/ Behind(s, n, g))
              /\ \A g, h : Behind(w, g, h) <=>
                     g \in Members(w) /\ h \in Members(w) /\ Behind(s, g, h)
<1> DEFINE a == IF p = NULL THEN 0 ELSE Place(s, p)
           b == IF n = NULL THEN Len(s) + 1 ELSE Place(s, n)
           w == UpTo(s, p) \o From(s, n)
<1>1. DOMAIN s = 1 .. Len(s) /\ Len(s) \in Nat OBVIOUS
<1>2. a \in 0 .. Len(s) /\ (p # NULL => a \in DOMAIN s /\ s[a] = p)
  BY <1>1, PlaceIs
<1>3. b \in 1 .. Len(s) + 1 /\ (n # NULL => b \in DOMAIN s /\ s[b] = n)
  BY <1>1, PlaceIs
<1>4. UpTo(s, p) = SubSeq(s, 1, a)
  <2>1. SubSeq(s, 1, 0) = <<>> BY SubSeqEmpty
  <2> QED BY <2>1 DEF UpTo
<1>5. From(s, n) = SubSeq(s, b, Len(s))
  <2>1. SubSeq(s, Len(s) + 1, Len(s)) = <<>> BY <1>1, SubSeqEmpty
  <2> QED BY <2>1 DEF From
<1> HIDE DEF a, b
<1>6. a < b
  <2>1. CASE p # NULL /\ n # NULL
    <3>1. PICK i \in DOMAIN s, j \in DOMAIN s : i < j /\ s[i] = p /\ s[j] = n
      BY <2>1 DEF Behind
    <3>2. i = a /\ j = b BY <1>2, <1>3, <2>1, <3>1 DEF Unique
    <3> QED BY <3>1, <3>2
  <2>2. CASE p = NULL
    <3>1. a = 0 BY <2>2 DEF a
    <3> QED BY <1>1, <1>3, <3>1
  <2>3. CASE n = NULL
    <3>1. b = Len(s) + 1 BY <2>3 DEF b
    <3> QED BY <1>1, <1>2, <3>1
  <2> QED BY <2>1, <2>2, <2>3
<1>7. b \in a + 1 .. Len(s) + 1 BY <1>1, <1>2, <1>3, <1>6
<1>8. w = SubSeq(s, 1, a) \o SubSeq(s, b, Len(s)) BY <1>4, <1>5
<1> HIDE DEF w
<1>9. /\ w \in Seq(Functions) /\ Unique(w) /\ Members(w) \subseteq Members(s)
      /\ \A i \in DOMAIN s : s[i] \in Members(w) <=> i <= a \/ b <= i
      /\ \A g, h : Behind(w, g, h) <=> g \in Members(w) /\ h \in Members(w) /\ Behind(s, g, h)
  BY <1>2, <1>7, <1>8, SplicedIs
<1>10. \A i \in DOMAIN s : i <= a <=> p # NULL /\ (s[i] = p \/ Behind(s, s[i], p))
  <2> SUFFICES ASSUME NEW i \in DOMAIN s
               PROVE  i <= a <=> p # NULL /\ (s[i] = p \/ Behind(s, s[i], p))
    OBVIOUS
  <2>1. CASE p = NULL
    <3>1. a = 0 BY <2>1 DEF a
    <3> QED BY <1>1, <2>1, <3>1
  <2>2. CASE p # NULL
    <3>1. s[i] = p <=> i = a BY <1>2, <2>2 DEF Unique
    <3>2. Behind(s, s[i], p) <=> i < a BY <1>2, <2>2 DEF Unique, Behind
    <3> QED BY <1>1, <1>2, <2>2, <3>1, <3>2
  <2> QED BY <2>1, <2>2
<1>11. \A i \in DOMAIN s : b <= i <=> n # NULL /\ (s[i] = n \/ Behind(s, n, s[i]))
  <2> SUFFICES ASSUME NEW i \in DOMAIN s
               PROVE  b <= i <=> n # NULL /\ (s[i] = n \/ Behind(s, n, s[i]))
    OBVIOUS
  <2>1. CASE n = NULL
    <3>1. b = Len(s) + 1 BY <2>1 DEF b
    <3> QED BY <1>1, <2>1, <3>1
  <2>2. CASE n # NULL
    <3>1. s[i] = n <=> i = b BY <1>3, <2>2 DEF Unique
    <3>2. Behind(s, n, s[i]) <=> b < i BY <1>3, <2>2 DEF Unique, Behind
    <3> QED BY <1>1, <1>3, <2>2, <3>1, <3>2
  <2> QED BY <2>1, <2>2
<1>12. ASSUME NEW g
       PROVE  g \in Members(w) <=>
                  \/ p # NULL /\ (g = p \/ Behind(s, g, p))
                  \/ n # NULL /\ (g = n \/ Behind(s, n, g))
  <2>1. g \in Members(w) => g \in Members(s) BY <1>9
  <2>2. (p # NULL /\ (g = p \/ Behind(s, g, p))) \/ (n # NULL /\ (g = n \/ Behind(s, n, g)))
          => g \in Members(s)
    BY OrderIs
  <2>3. ASSUME g \in Members(s)
        PROVE  g \in Members(w) <=>
                  \/ p # NULL /\ (g = p \/ Behind(s, g, p))
                  \/ n # NULL /\ (g = n \/ Behind(s, n, g))
    <3>1. PICK i \in DOMAIN s : s[i] = g BY <2>3 DEF Members
    <3>2. g \in Members(w) <=> i <= a \/ b <= i BY <1>9, <3>1
    <3> QED BY <1>10, <1>11, <3>1, <3>2
  <2> QED BY <2>1, <2>2, <2>3
<1> QED BY <1>9, <1>12 DEF w

-----------------------------------------------------------------------------
(* The invariant, in layers. *)

Walking == pc \in {"id", "stanza", "timed1", "timed2"}

\* The list a walk is on, and who comes at f or later on it.
On         == lists[Walked]
AtOr(f, g) == g = f \/ Behind(On, f, g)

TypeInv ==
    /\ TypeOK
    /\ registered \in [Lists -> SUBSET Functions]
    /\ doubtful \subseteq Ids \X Functions
    /\ pc \in {"id", "stanza"} => stanza \in Stanzas
    /\ pc = "id" /\ item # NULL => stanza.id \in Ids

\* Lists have no doubles, and a walk's pointers that do not dangle are in order.
ListsInv == \A l \in Lists : Unique(lists[l])

Idle == item = NULL /\ prev = NULL /\ next = NULL /\ ~called /\ freed = {} /\ due = {}

PointersInv ==
    /\ ~Walking /\ pc # "undefined" => Idle
    /\ Walking =>
        /\ item = NULL => ~called
        /\ ~called => next = NULL /\ freed \subseteq {"prev"}
        /\ pc # "id" => next = NULL
        /\ pc \in {"timed1", "timed2"} => prev = NULL
    /\ Walking /\ item # NULL =>
        /\ "item" \notin freed => item \in Members(On)
        /\ prev # NULL /\ "prev" \notin freed => prev \in Members(On)
        /\ next # NULL /\ "next" \notin freed => next \in Members(On)
        /\ prev # NULL /\ freed \cap {"prev", "item"} = {} => Behind(On, prev, item)
        /\ next # NULL /\ freed \cap {"item", "next"} = {} => Behind(On, item, next)

\* What a walk has passed since prev, and what is between item and next, is doubtful.
GapInv ==
    Walking /\ item # NULL =>
        /\ pc \in {"id", "stanza"} /\ freed \cap {"prev", "item"} = {} =>
              \A f \in Members(On) :
                  Behind(On, f, item) /\ (prev = NULL \/ Behind(On, prev, f))
                      => <<Walked, f>> \in doubtful
        /\ pc = "id" /\ called /\ freed \cap {"item", "next"} = {} =>
              \A f \in Members(On) :
                  Behind(On, item, f) /\ (next = NULL \/ Behind(On, f, next))
                      => <<Walked, f>> \in doubtful

Accounts ==
    pc # "undefined" =>
        \A l \in Lists :
            /\ Members(lists[l]) \subseteq registered[l]
            /\ \A f \in registered[l] \ Members(lists[l]) : <<l, f>> \in doubtful

\* Nothing dangles while no callback has deleted what it should not.
SafeInv ==
    /\ pc = "undefined" => broken
    /\ Walking /\ ~broken =>
        /\ freed = {}
        /\ pc = "id" /\ called /\ next # NULL =>
              \A f \in Members(On) : ~(Behind(On, item, f) /\ Behind(On, f, next))

\* What is due is still to come.
DueInv ==
    Walking =>
        /\ item = NULL => due = {}
        /\ item # NULL /\ ~called => \A f \in due : AtOr(item, f)
        /\ called /\ pc = "id" /\ "next" \notin freed =>
              \A f \in due : next # NULL /\ AtOr(next, f)
        /\ called /\ pc # "id" /\ "item" \notin freed =>
              \A f \in due : Behind(On, item, f)

\* What is to come and would be called is due, or a handler of an id added since; what
\* is being called no longer is.
Eligible(f) ==
    CASE pc = "id"     -> <<stanza.id, f>> \notin doubtful
      [] pc = "stanza" -> f \in enabled /\ Matches(f, stanza)
      [] OTHER         -> f \in enabled /\ age[f] >= Period[f]

CallInv ==
    Walking /\ item # NULL =>
        /\ called => item \notin due
        /\ ~called => \A f \in Members(On) : AtOr(item, f) /\ Eligible(f) => f \in due
        /\ called /\ pc = "id" /\ next # NULL /\ "next" \notin freed =>
              \A f \in Members(On) : AtOr(next, f) /\ Eligible(f) => f \in due
        /\ called /\ pc # "id" /\ "item" \notin freed =>
              \A f \in Members(On) : Behind(On, item, f) /\ Eligible(f) => f \in due

\* The delay is short enough for every timed handler the walk has passed.
Timely(f) == Barred(f) \/ age[f] = 0 \/ min <= Period[f] - age[f]

TimeInv ==
    /\ pc = "timed1" /\ connected /\ "item" \notin freed =>
        \A f \in Members(lists["timed"]) :
            /\ f \notin enabled => age[f] = 0
            /\ \/ Timely(f)
               \/ item # NULL /\ ~called /\ AtOr(item, f)
               \/ called /\ Behind(On, item, f)
    /\ pc = "select" /\ connected => \A f \in Members(lists["timed"]) : Timely(f)

-----------------------------------------------------------------------------
(* What the actions do to lists. *)

\* Lists are lists, and each has its own functions.
LEMMA ListIs ==
    ASSUME TypeInv, ListsInv, NEW l \in Lists
    PROVE  /\ lists[l] \in Seq(Functions) /\ Unique(lists[l])
           /\ Members(lists[l]) \subseteq Of(l) /\ Of(l) \subseteq Functions
           /\ NULL \notin Members(lists[l])
<1>1. lists[l] \in Seq(Functions) /\ Members(lists[l]) \subseteq Of(l)
  BY DEF TypeInv, TypeOK
<1>2. Of(l) \subseteq Functions BY DEF Of, Functions
<1> QED BY <1>1, <1>2, NullIs DEF ListsInv

\* A walk that has an item has a list.
LEMMA OnIs ==
    ASSUME TypeInv, ListsInv, Walking, item # NULL
    PROVE  /\ Walked \in Lists /\ On = lists[Walked]
           /\ On \in Seq(Functions) /\ Unique(On) /\ NULL \notin Members(On)
           /\ Members(On) \subseteq Functions /\ Members(On) \subseteq Of(Walked)
           /\ pc = "id" => Walked = stanza.id /\ Walked \in Ids
           /\ pc = "stanza" => Walked = "stanza"
           /\ pc \in {"timed1", "timed2"} => Walked = "timed"
<1>1. /\ pc = "id" => Walked = stanza.id /\ Walked \in Ids
      /\ pc = "stanza" => Walked = "stanza"
      /\ pc \in {"timed1", "timed2"} => Walked = "timed"
  BY DEF Walked, TypeInv
<1>2. Walked \in Lists BY <1>1 DEF Walking, Lists
<1> QED BY <1>1, <1>2, ListIs DEF On

\* No walk is on a list when pc says so.
LEMMA NotOn ==
    ASSUME ~Walking
    PROVE  Walked \notin Lists
BY HandlersAssumption DEF Walking, Walked, Lists

\* Which list a walk is on depends on pc and the stanza only.
LEMMA WalkStays ==
    ASSUME pc' = pc, stanza' = stanza
    PROVE  Walked' = Walked /\ Walking' = Walking
BY DEF Walked, Walking

\* A list is replaced by another one.
LEMMA ListBecomes ==
    ASSUME TypeInv, ListsInv, NEW l \in Lists, NEW w \in Seq(Functions),
           Unique(w), Members(w) \subseteq Of(l), lists' = [lists EXCEPT ![l] = w]
    PROVE  /\ lists' \in [Lists -> Seq(Functions)]
           /\ lists'[l] = w /\ \A m \in Lists \ {l} : lists'[m] = lists[m]
           /\ \A m \in Lists : Members(lists'[m]) \subseteq Of(m)
           /\ ListsInv'
<1>1. lists \in [Lists -> Seq(Functions)] BY DEF TypeInv, TypeOK
<1>2. /\ lists' \in [Lists -> Seq(Functions)]
      /\ lists'[l] = w /\ \A m \in Lists \ {l} : lists'[m] = lists[m]
  BY <1>1
<1>3. \A m \in Lists : Unique(lists'[m]) /\ Members(lists'[m]) \subseteq Of(m)
  BY <1>2, ListIs
<1> QED BY <1>2, <1>3 DEF ListsInv

\* An addition appends a function to a list it is not on.
Added(l, f) ==
    /\ f \notin Members(lists[l])
    /\ lists' = [lists EXCEPT ![l] = Append(lists[l], f)]
    /\ registered' = [registered EXCEPT ![l] = registered[l] \cup {f}]
    /\ enabled' = enabled \ {f}
    /\ age' = IF l = "timed" THEN [age EXCEPT ![f] = 0] ELSE age
    /\ doubtful' = IF l \notin Ids THEN doubtful
                   ELSE IF Walked = l THEN doubtful \cup {<<l, f>>}
                   ELSE doubtful \ {<<l, f>>}

\* That is all that actions which add do to lists.
LEMMA AddIs ==
    ASSUME TypeInv, ListsInv, Register
    PROVE  \E l \in Lists : \E f \in Of(l) : Added(l, f)
<1>1. "timed" \in Lists /\ "stanza" \in Lists /\ Ids \subseteq Lists /\ "timed" # "stanza"
      /\ "timed" \notin Ids /\ "stanza" \notin Ids
  BY HandlersAssumption DEF Lists
<1>2. Of("timed") = TimedHandlers /\ Of("stanza") = StanzaHandlers
      /\ \A i \in Ids : Of(i) = IdHandlers
  BY <1>1 DEF Of
<1>3. CASE \E f \in TimedHandlers : _timed_handler_add(f)
  BY <1>1, <1>2, <1>3 DEF Added, _timed_handler_add, Append1
<1>4. CASE \E f \in IdHandlers, id \in Ids : _id_handler_add(f, id)
  BY <1>1, <1>2, <1>4 DEF Added, _id_handler_add, Append1
<1>5. CASE \E f \in StanzaHandlers : _handler_add(f)
  BY <1>1, <1>2, <1>5 DEF Added, _handler_add, Append1
<1> QED BY <1>3, <1>4, <1>5 DEF Register

\* A deletion takes a function from its list, if it is there.
Dropped(l, f) ==
    /\ \/ Remove(l, f)
       \/ /\ f \notin Members(lists[l])
          /\ UNCHANGED <<lists, enabled, freed, due, broken>>
    /\ registered' = [registered EXCEPT ![l] = registered[l] \ {f}]
    /\ age' = IF l = "timed" THEN [age EXCEPT ![f] = 0] ELSE age
    /\ doubtful' = doubtful \ {<<l, f>>}

\* That is all that actions which delete do to lists.
LEMMA DropIs ==
    ASSUME TypeInv, ListsInv, Delete
    PROVE  \E l \in Lists : \E f \in Of(l) : Dropped(l, f)
<1>1. "timed" \in Lists /\ "stanza" \in Lists /\ Ids \subseteq Lists /\ "timed" # "stanza"
      /\ "timed" \notin Ids /\ "stanza" \notin Ids
  BY HandlersAssumption DEF Lists
<1>2. Of("timed") = TimedHandlers /\ Of("stanza") = StanzaHandlers
      /\ \A i \in Ids : Of(i) = IdHandlers
  BY <1>1 DEF Of
<1>3. \A f : doubtful \ {<<"timed", f>>} = doubtful /\ doubtful \ {<<"stanza", f>>} = doubtful
  BY <1>1 DEF TypeInv
<1>4. CASE \E f \in TimedHandlers : xmpp_timed_handler_delete(f)
  <2>1. PICK f \in TimedHandlers : xmpp_timed_handler_delete(f) BY <1>4
  <2>2. /\ Remove("timed", f)
        /\ registered' = [registered EXCEPT !["timed"] = registered["timed"] \ {f}]
        /\ age' = [age EXCEPT ![f] = 0]
        /\ doubtful' = doubtful \ {<<"timed", f>>}
    BY <1>3, <2>1 DEF xmpp_timed_handler_delete
  <2> QED BY <1>1, <1>2, <2>2 DEF Dropped
<1>5. CASE \E f \in IdHandlers, id \in Ids : xmpp_id_handler_delete(f, id)
  <2>1. PICK f \in IdHandlers, id \in Ids : xmpp_id_handler_delete(f, id) BY <1>5
  <2>2. /\ \/ Remove(id, f)
           \/ /\ f \notin Members(lists[id])
              /\ UNCHANGED <<lists, enabled, freed, due, broken>>
        /\ registered' = [registered EXCEPT ![id] = registered[id] \ {f}]
        /\ age' = age
        /\ doubtful' = doubtful \ {<<id, f>>}
    BY <2>1 DEF xmpp_id_handler_delete
  <2>3. id \in Lists /\ id # "timed" /\ f \in Of(id) BY <1>1, <1>2
  <2> QED BY <2>2, <2>3 DEF Dropped
<1>6. CASE \E f \in StanzaHandlers : xmpp_handler_delete(f)
  <2>1. PICK f \in StanzaHandlers : xmpp_handler_delete(f) BY <1>6
  <2>2. /\ Remove("stanza", f)
        /\ registered' = [registered EXCEPT !["stanza"] = registered["stanza"] \ {f}]
        /\ age' = age
        /\ doubtful' = doubtful \ {<<"stanza", f>>}
    BY <1>3, <2>1 DEF xmpp_handler_delete
  <2> QED BY <1>1, <1>2, <2>2 DEF Dropped
<1> QED BY <1>4, <1>5, <1>6 DEF Delete

\* What an addition does to the list of the walk.
LEMMA OnGrows ==
    ASSUME TypeInv, ListsInv, Walking, item # NULL, NEW l \in Lists, NEW f \in Of(l),
           f \notin Members(lists[l]), lists' = [lists EXCEPT ![l] = Append(lists[l], f)],
           pc' = pc, stanza' = stanza
    PROVE  IF Walked = l
           THEN /\ f \notin Members(On) /\ Members(On') = Members(On) \cup {f}
                /\ \A g, h : Behind(On', g, h) <=>
                       Behind(On, g, h) \/ (g \in Members(On) /\ h = f)
           ELSE On' = On
<1>1. lists[l] \in Seq(Functions) /\ Unique(lists[l]) /\ Members(lists[l]) \subseteq Of(l)
      /\ f \in Functions
  BY ListIs
<1> DEFINE w == Append(lists[l], f)
<1>2. /\ w \in Seq(Functions) /\ Unique(w) /\ Members(w) = Members(lists[l]) \cup {f}
      /\ \A g, h : Behind(w, g, h) <=>
             Behind(lists[l], g, h) \/ (g \in Members(lists[l]) /\ h = f)
  BY <1>1, AppendIs
<1>3. lists' = [lists EXCEPT ![l] = w] OBVIOUS
<1> HIDE DEF w
<1>4. lists'[l] = w /\ \A m \in Lists \ {l} : lists'[m] = lists[m]
  BY <1>1, <1>2, <1>3, ListBecomes
<1>5. On' = lists'[Walked] /\ On = lists[Walked] /\ Walked \in Lists
  BY WalkStays, OnIs DEF On
<1> QED BY <1>2, <1>4, <1>5

\* What a deletion does to it.
LEMMA OnShrinks ==
    ASSUME TypeInv, ListsInv, Walking, item # NULL, NEW l \in Lists, NEW f \in Of(l),
           f \in Members(lists[l]), lists' = [lists EXCEPT ![l] = Without(lists[l], f)],
           pc' = pc, stanza' = stanza
    PROVE  IF Walked = l
           THEN /\ Members(On') = Members(On) \ {f}
                /\ \A g, h : Behind(On', g, h) <=> Behind(On, g, h) /\ g # f /\ h # f
           ELSE On' = On
<1>1. lists[l] \in Seq(Functions) /\ Unique(lists[l]) /\ Members(lists[l]) \subseteq Of(l)
  BY ListIs
<1> DEFINE w == Without(lists[l], f)
<1>2. /\ w \in Seq(Functions) /\ Unique(w) /\ Members(w) = Members(lists[l]) \ {f}
      /\ \A g, h : Behind(w, g, h) <=> Behind(lists[l], g, h) /\ g # f /\ h # f
  BY <1>1, WithoutIs
<1>3. lists' = [lists EXCEPT ![l] = w] OBVIOUS
<1> HIDE DEF w
<1>4. lists'[l] = w /\ \A m \in Lists \ {l} : lists'[m] = lists[m]
  BY <1>1, <1>2, <1>3, ListBecomes
<1>5. On' = lists'[Walked] /\ On = lists[Walked] /\ Walked \in Lists
  BY WalkStays, OnIs DEF On
<1> QED BY <1>2, <1>4, <1>5

-----------------------------------------------------------------------------
(* Types, and the order of a walk's pointers. *)

WalkInv == TypeInv /\ ListsInv /\ PointersInv

LEMMA ConstantsIs ==
    /\ "timed" \in Lists /\ "stanza" \in Lists /\ Ids \subseteq Lists
    /\ "timed" \notin Ids /\ "stanza" \notin Ids /\ NULL \notin Ids /\ NULL \notin Lists
    /\ Of("timed") = TimedHandlers /\ Of("stanza") = StanzaHandlers
    /\ \A i \in Ids : Of(i) = IdHandlers
    /\ Infinite \in Nat /\ MaxAge \in Nat /\ Timeout \in Nat
    /\ \A f \in TimedHandlers : Period[f] \in Nat /\ f \notin StanzaHandlers \cup IdHandlers
BY HandlersAssumption DEF Lists, Of, Infinite

LEMMA WalkInit == ASSUME Init PROVE WalkInv
<1>1. <<>> \in Seq(Functions) /\ Members(<<>>) = {} /\ Unique(<<>>)
  BY DEF Members, Unique
<1>2. TypeOK
  <2> SUFFICES ASSUME Init PROVE TypeOK OBVIOUS
  <2>1. lists \in [Lists -> Seq(Functions)] /\ \A l \in Lists : Members(lists[l]) \subseteq Of(l)
    BY <1>1 DEF Init
  <2>2. age \in [TimedHandlers -> 0 .. MaxAge] BY ConstantsIs DEF Init
  <2>3. min \in 0 .. Infinite BY ConstantsIs DEF Init
  <2> QED BY <2>1, <2>2, <2>3 DEF Init, TypeOK
<1>3. TypeInv BY <1>2, ConstantsIs DEF Init, TypeInv
<1>4. ListsInv BY <1>1 DEF Init, ListsInv
<1>5. PointersInv BY DEF Init, PointersInv, Walking, Idle
<1> QED BY <1>3, <1>4, <1>5 DEF WalkInv

\* Steps that leave lists and walk alone.
LEMMA WalkRest ==
    ASSUME WalkInv, UNCHANGED <<lists, enabled, registered, doubtful, walk>>,
           \/ UNCHANGED <<pc, stanza>>
           \/ ~Walking /\ ~Walking' /\ pc' # "undefined" /\ pc # "undefined",
           TypeOK'
    PROVE  WalkInv'
<1>1. TypeInv' BY DEF WalkInv, TypeInv, Walking, walk
<1>2. ListsInv' BY DEF WalkInv, ListsInv
<1>3. CASE UNCHANGED <<pc, stanza>>
  <2>1. Walked' = Walked /\ Walking' = Walking /\ On' = On BY <1>3, WalkStays DEF On
  <2> QED BY <1>1, <1>2, <1>3, <2>1 DEF WalkInv, PointersInv, walk, Idle
<1>4. CASE ~Walking /\ ~Walking' /\ pc' # "undefined" /\ pc # "undefined"
  BY <1>1, <1>2, <1>4 DEF WalkInv, PointersInv, walk, Idle
<1> QED BY <1>3, <1>4

LEMMA AgesAre ==
    ASSUME TypeInv, NEW d \in Nat
    PROVE  Older(d) \in [TimedHandlers -> 0 .. MaxAge]
BY ConstantsIs DEF Older, TypeInv, TypeOK

LEMMA WalkAuthenticate == ASSUME WalkInv, Authenticate PROVE WalkInv'
<1>1. TypeOK' BY DEF WalkInv, TypeInv, TypeOK, Authenticate, store, walk
<1> QED BY <1>1, WalkRest DEF Authenticate, store

LEMMA WalkStreamOpen == ASSUME WalkInv, StreamOpen PROVE WalkInv'
<1>1. age' \in [TimedHandlers -> 0 .. MaxAge]
  BY ConstantsIs DEF WalkInv, TypeInv, TypeOK, StreamOpen, handler_reset_timed
<1>2. TypeOK' BY <1>1 DEF WalkInv, TypeInv, TypeOK, StreamOpen, walk
<1> QED BY <1>2, WalkRest DEF StreamOpen

LEMMA WalkConnection == ASSUME WalkInv, Connection PROVE WalkInv'
<1>1. TypeOK' BY DEF WalkInv, TypeInv, TypeOK, Connection, store, walk
<1> QED BY <1>1, WalkRest DEF Connection, store

LEMMA WalkTime == ASSUME WalkInv, Time PROVE WalkInv'
<1>1. age' \in [TimedHandlers -> 0 .. MaxAge] BY AgesAre DEF WalkInv, Time
<1>2. TypeOK' BY <1>1 DEF WalkInv, TypeInv, TypeOK, Time, walk, conn
<1> QED BY <1>2, WalkRest DEF Time

LEMMA DelayIs == ASSUME TypeInv PROVE Delay \in Nat
BY ConstantsIs DEF Delay, TypeInv, TypeOK

LEMMA WalkSelect == ASSUME WalkInv, Select PROVE WalkInv'
<1>1. age' \in [TimedHandlers -> 0 .. MaxAge]
  BY AgesAre, DelayIs DEF WalkInv, Select
<1>2. pc' \in {"events", "user"} /\ pc = "select" BY DEF Select
<1>3. TypeOK' BY <1>1, <1>2, ConstantsIs DEF WalkInv, TypeInv, TypeOK, Select, walk, conn
<1> QED BY <1>2, <1>3, WalkRest DEF Select, Walking

LEMMA WalkRegister == ASSUME WalkInv, Register PROVE WalkInv'
<1>1. PICK l \in Lists : \E f \in Of(l) : Added(l, f)
  BY AddIs DEF WalkInv
<1>2. PICK f \in Of(l) : Added(l, f) BY <1>1
<1>0. /\ f \notin Members(lists[l])
      /\ lists' = [lists EXCEPT ![l] = Append(lists[l], f)]
      /\ enabled' = enabled \ {f}
  BY <1>2 DEF Added
<1>3. UNCHANGED <<walk, connected, authenticated, pc, stanza, min>> BY DEF Register
<1>4. lists[l] \in Seq(Functions) /\ Unique(lists[l]) /\ Members(lists[l]) \subseteq Of(l)
      /\ f \in Functions
  BY ListIs DEF WalkInv
<1> DEFINE w == Append(lists[l], f)
<1>5. w \in Seq(Functions) /\ Unique(w) /\ Members(w) \subseteq Of(l) BY <1>0, <1>4, AppendIs
<1>6. lists' = [lists EXCEPT ![l] = w] BY <1>0
<1> HIDE DEF w
<1>7. /\ lists' \in [Lists -> Seq(Functions)] /\ ListsInv'
      /\ \A m \in Lists : Members(lists'[m]) \subseteq Of(m)
  BY <1>5, <1>6, ListBecomes DEF WalkInv
<1>8. TypeOK'
  <2>1. age' \in [TimedHandlers -> 0 .. MaxAge]
    BY <1>2, ConstantsIs DEF Added, WalkInv, TypeInv, TypeOK
  <2> QED BY <1>0, <1>3, <1>7, <2>1 DEF WalkInv, TypeInv, TypeOK, walk
<1>9. TypeInv'
  <2>1. registered' \in [Lists -> SUBSET Functions]
    BY <1>2, <1>4 DEF Added, WalkInv, TypeInv
  <2>2. doubtful' \subseteq Ids \X Functions
    BY <1>2, <1>4 DEF Added, WalkInv, TypeInv
  <2> QED BY <1>3, <1>8, <2>1, <2>2 DEF WalkInv, TypeInv, walk
<1>10. Walking' = Walking BY <1>3, WalkStays
<1>11. PointersInv'
  <2>1. CASE Walking /\ item # NULL
    <3>1. Members(On) \subseteq Members(On')
          /\ \A g, h : Behind(On, g, h) => Behind(On', g, h)
      BY <1>0, <1>3, <2>1, OnGrows DEF WalkInv
    <3> QED BY <1>3, <1>10, <2>1, <3>1 DEF WalkInv, PointersInv, walk
  <2>2. CASE ~(Walking /\ item # NULL)
    BY <1>3, <1>10, <2>2 DEF WalkInv, PointersInv, walk, Idle
  <2> QED BY <2>1, <2>2
<1> QED BY <1>7, <1>9, <1>11 DEF WalkInv

LEMMA WalkDelete == ASSUME WalkInv, Delete PROVE WalkInv'
<1>1. PICK l \in Lists : \E f \in Of(l) : Dropped(l, f)
  BY DropIs DEF WalkInv
<1>2. PICK f \in Of(l) : Dropped(l, f) BY <1>1
<1>3. UNCHANGED <<item, prev, next, called, connected, authenticated, pc, stanza, min>>
  BY DEF Delete
<1>4. lists[l] \in Seq(Functions) /\ Unique(lists[l]) /\ Members(lists[l]) \subseteq Of(l)
      /\ f \in Functions
  BY ListIs DEF WalkInv
<1>5. Walking' = Walking /\ Walked' = Walked BY <1>3, WalkStays
<1>6. age' \in [TimedHandlers -> 0 .. MaxAge]
  BY <1>2, ConstantsIs DEF Dropped, WalkInv, TypeInv, TypeOK
<1>7. registered' \in [Lists -> SUBSET Functions] /\ doubtful' \subseteq Ids \X Functions
  BY <1>2 DEF Dropped, WalkInv, TypeInv
<1>8. CASE Remove(l, f)
  <2>1. /\ f \in Members(lists[l])
        /\ lists' = [lists EXCEPT ![l] = Without(lists[l], f)]
        /\ freed' = freed \cup Dangling(l, f)
        /\ due'   = IF Walked = l THEN due \ {f} ELSE due
        /\ broken' = (broken \/ f \in Forbidden(l))
        /\ enabled' = enabled \ {f}
    BY <1>8 DEF Remove
  <2> DEFINE w == Without(lists[l], f)
  <2>2. w \in Seq(Functions) /\ Unique(w) /\ Members(w) \subseteq Of(l)
    BY <1>4, <2>1, WithoutIs
  <2>3. lists' = [lists EXCEPT ![l] = w] BY <2>1
  <2> HIDE DEF w
  <2>4. /\ lists' \in [Lists -> Seq(Functions)] /\ ListsInv'
        /\ \A m \in Lists : Members(lists'[m]) \subseteq Of(m)
    BY <2>2, <2>3, ListBecomes DEF WalkInv
  <2>5. Dangling(l, f) \subseteq {"item", "prev", "next"} BY DEF Dangling
  <2>6. TypeOK' BY <1>3, <1>6, <2>1, <2>4, <2>5 DEF WalkInv, TypeInv, TypeOK
  <2>7. TypeInv' BY <1>3, <1>7, <2>6 DEF WalkInv, TypeInv
  <2>8. PointersInv'
    <3>1. CASE Walking /\ item # NULL
      <4>1. Walked = l =>
              /\ Members(On') = Members(On) \ {f}
              /\ \A g, h : Behind(On', g, h) <=> Behind(On, g, h) /\ g # f /\ h # f
        BY <1>3, <2>1, <3>1, OnShrinks DEF WalkInv
      <4>2. Walked # l => On' = On
        BY <1>3, <2>1, <3>1, OnShrinks DEF WalkInv
      <4>3. Walked = l =>
              /\ item = f => "item" \in freed'
              /\ prev = f => "prev" \in freed'
              /\ next = f => "next" \in freed'
        BY <2>1 DEF Dangling
      <4>4. freed \subseteq freed' BY <2>1
      <4>5. called BY <3>1 DEF Delete, Running, Walking
      <4> QED BY <1>3, <1>5, <3>1, <4>1, <4>2, <4>3, <4>4, <4>5 DEF WalkInv, PointersInv
    <3>2. CASE Walking /\ item = NULL
      <4>1. ~called /\ pc # "user" BY <3>2 DEF WalkInv, PointersInv, Walking
      <4> QED BY <4>1 DEF Delete, Running
    <3>3. CASE ~Walking
      <4>1. Walked # l BY <3>3, NotOn
      <4>2. freed' = freed /\ due' = due BY <2>1, <4>1 DEF Dangling
      <4> QED BY <1>3, <1>5, <3>3, <4>2 DEF WalkInv, PointersInv, Idle
    <3> QED BY <3>1, <3>2, <3>3
  <2> QED BY <2>4, <2>7, <2>8 DEF WalkInv
<1>9. CASE UNCHANGED <<lists, enabled, freed, due, broken>>
  <2>1. TypeOK' BY <1>3, <1>6, <1>9 DEF WalkInv, TypeInv, TypeOK
  <2>2. TypeInv' BY <1>3, <1>7, <2>1 DEF WalkInv, TypeInv
  <2>3. On' = On BY <1>5, <1>9 DEF On
  <2>4. PointersInv' BY <1>3, <1>5, <1>9, <2>3 DEF WalkInv, PointersInv, Idle
  <2>5. ListsInv' BY <1>9 DEF WalkInv, ListsInv
  <2> QED BY <2>2, <2>4, <2>5 DEF WalkInv
<1> QED BY <1>2, <1>8, <1>9 DEF Dropped

\* A walk that uses a freed item is over.
LEMMA WalkStop == ASSUME WalkInv, Stop, UNCHANGED conn PROVE WalkInv'
<1>1. TypeInv' BY DEF WalkInv, TypeInv, TypeOK, Stop, store, walk, conn
<1>2. ListsInv' BY DEF WalkInv, ListsInv, Stop, store
<1>3. PointersInv' BY DEF PointersInv, Stop, Walking
<1> QED BY <1>1, <1>2, <1>3 DEF WalkInv

\* A walk starts at the first item.
LEMMA WalkStarts ==
    ASSUME WalkInv, NEW s, NEW wanted, StartWalk(s, wanted), UNCHANGED <<lists, age>>,
           registered' = registered, doubtful' \subseteq doubtful,
           enabled' \subseteq Functions, connected' = connected,
           authenticated' = authenticated, min' \in 0 .. Infinite,
           pc' \in {"id", "stanza", "timed1", "timed2"},
           pc' \in {"id", "stanza"} => stanza' \in Stanzas,
           s = <<>> \/ (Walked' \in Lists /\ s = lists[Walked']),
           s # <<>> /\ pc' = "id" => stanza'.id \in Ids
    PROVE  WalkInv'
<1>1. /\ item' = First(s) /\ prev' = NULL /\ next' = NULL /\ called' = FALSE
      /\ freed' = {} /\ broken' = FALSE /\ due' \subseteq Members(s)
  BY DEF StartWalk
<1>2. s = <<>> => First(s) = NULL /\ Members(s) = {} BY DEF First, Members
<1>3. s \in Seq(Functions) /\ Unique(s) /\ Members(s) \subseteq Functions
  <2>1. s = <<>> => s \in Seq(Functions) /\ Unique(s) BY DEF Unique
  <2> QED BY <1>2, <2>1, ListIs DEF WalkInv
<1>4. First(s) # NULL => First(s) \in Members(s) BY <1>3, FirstIs
<1>5. TypeOK' BY <1>1, <1>3, <1>4 DEF WalkInv, TypeInv, TypeOK
<1>6. TypeInv' BY <1>1, <1>2, <1>5 DEF WalkInv, TypeInv
<1>7. ListsInv' BY DEF WalkInv, ListsInv
<1>8. item' # NULL => item' \in Members(On') BY <1>1, <1>2, <1>4 DEF On
<1>9. PointersInv' BY <1>1, <1>8 DEF PointersInv, Walking
<1> QED BY <1>6, <1>7, <1>9 DEF WalkInv

\* A walk moves to the successor of its item.
LEMMA WalkAdvances ==
    ASSUME WalkInv, Walking, item # NULL, "item" \notin freed,
           item' = NextOf(On, item), next' = NULL, called' = FALSE, due' \subseteq due,
           broken' = broken,
           \/ prev' = prev /\ freed' = freed \cap {"prev"}
           \/ prev' = item /\ freed' = {} /\ pc \in {"id", "stanza"},
           UNCHANGED <<lists, enabled, age, registered, conn, pc, stanza>>,
           doubtful' \subseteq Ids \X Functions, min' \in 0 .. Infinite
    PROVE  WalkInv'
<1>1. /\ On \in Seq(Functions) /\ Unique(On) /\ Members(On) \subseteq Functions
      /\ NULL \notin Members(On) /\ item \in Members(On)
  BY OnIs DEF WalkInv, PointersInv
<1>2. \/ NextOf(On, item) = NULL
      \/ NextOf(On, item) \in Members(On) /\ Behind(On, item, NextOf(On, item))
  BY <1>1, NextIs
<1>3. \A f, g, h : Behind(On, f, g) /\ Behind(On, g, h) => Behind(On, f, h) BY <1>1, OrderIs
<1>4. On' = On /\ Walking' = Walking BY WalkStays DEF On
<1>5. TypeInv' BY <1>1, <1>2 DEF WalkInv, TypeInv, TypeOK, conn
<1>6. ListsInv' BY DEF WalkInv, ListsInv
<1>7. PointersInv'
  <2>1. CASE prev' = prev /\ freed' = freed \cap {"prev"}
    <3>1. /\ prev # NULL /\ "prev" \notin freed => prev \in Members(On)
          /\ prev # NULL /\ freed \cap {"prev", "item"} = {} => Behind(On, prev, item)
          /\ pc \in {"timed1", "timed2"} => prev = NULL
      BY DEF WalkInv, PointersInv
    <3> QED BY <1>1, <1>2, <1>3, <1>4, <2>1, <3>1 DEF PointersInv
  <2>2. CASE prev' = item /\ freed' = {} /\ pc \in {"id", "stanza"}
    BY <1>1, <1>2, <1>4, <2>2 DEF PointersInv
  <2> QED BY <2>1, <2>2
<1> QED BY <1>5, <1>6, <1>7 DEF WalkInv

\* An item is called.
LEMMA WalkCalls ==
    ASSUME WalkInv, Walking, item # NULL, ~called, NEW n, Call(n),
           n = NULL \/ (pc = "id" /\ n = NextOf(On, item)),
           UNCHANGED <<lists, enabled, registered, doubtful, item, prev, freed, broken,
                       conn, pc, stanza, min>>,
           age' \in [TimedHandlers -> 0 .. MaxAge]
    PROVE  WalkInv'
<1>1. /\ On \in Seq(Functions) /\ Unique(On) /\ Members(On) \subseteq Functions
      /\ item \in Members(On) /\ freed \subseteq {"prev"}
  BY OnIs DEF WalkInv, PointersInv
<1>2. n # NULL => n \in Members(On) /\ Behind(On, item, n) BY <1>1, NextIs
<1>3. On' = On /\ Walking' = Walking BY WalkStays DEF On
<1>4. called' /\ called' \in BOOLEAN /\ next' = n /\ due' \subseteq due BY DEF Call
<1>5. TypeInv' BY <1>1, <1>2, <1>4 DEF WalkInv, TypeInv, TypeOK, conn
<1>6. ListsInv' BY DEF WalkInv, ListsInv
<1>7. PointersInv' BY <1>1, <1>2, <1>3, <1>4 DEF WalkInv, PointersInv
<1> QED BY <1>5, <1>6, <1>7 DEF WalkInv

LEMMA WalkFire ==
    ASSUME WalkInv, NEW s \in Stanzas, handler_fire_stanza(s)
    PROVE  WalkInv'
<1>1. pc' = "id" /\ stanza' = s /\ UNCHANGED <<store, conn, min>>
      /\ StartWalk(IF s.id = NULL THEN <<>> ELSE lists[s.id], IdHandlers)
  BY DEF handler_fire_stanza
<1>2. s.id = NULL \/ s.id \in Ids BY HandlersAssumption
<1>3. Walked' = s.id BY <1>1 DEF Walked
<1> DEFINE list == IF s.id = NULL THEN <<>> ELSE lists[s.id]
<1>4. /\ list = <<>> \/ (Walked' \in Lists /\ list = lists[Walked'])
      /\ list # <<>> => stanza'.id \in Ids
  BY <1>1, <1>2, <1>3, ConstantsIs
<1>5. StartWalk(list, IdHandlers) BY <1>1
<1> HIDE DEF list
<1>6. enabled \subseteq Functions /\ min \in 0 .. Infinite BY DEF WalkInv, TypeInv, TypeOK
<1> QED BY <1>1, <1>4, <1>5, <1>6, WalkStarts DEF store, conn

LEMMA WalkIdSkip == ASSUME WalkInv, IdSkip PROVE WalkInv'
<1>1. pc = "id" /\ item # NULL /\ ~called /\ Walking /\ freed \subseteq {"prev"}
  BY DEF IdSkip, Walking, WalkInv, PointersInv
<1>2. On = lists[stanza.id] /\ stanza.id \in Ids BY <1>1, OnIs DEF WalkInv
<1>3. item \in Functions /\ doubtful \subseteq Ids \X Functions /\ min \in 0 .. Infinite
  BY <1>1 DEF WalkInv, TypeInv, TypeOK
<1>4. doubtful' \subseteq Ids \X Functions BY <1>2, <1>3 DEF IdSkip
<1> QED BY <1>1, <1>2, <1>3, <1>4, WalkAdvances DEF IdSkip, Stay, MoveTo

LEMMA WalkIdCall == ASSUME WalkInv, IdCall PROVE WalkInv'
<1>1. pc = "id" /\ item # NULL /\ ~called /\ Walking BY DEF IdCall, Walking
<1>2. On = lists[stanza.id] BY <1>1, OnIs DEF WalkInv
<1>3. age' \in [TimedHandlers -> 0 .. MaxAge] BY DEF IdCall, store, WalkInv, TypeInv, TypeOK
<1> QED BY <1>1, <1>2, <1>3, WalkCalls DEF IdCall, store

LEMMA WalkIdKeep == ASSUME WalkInv, IdKeep PROVE WalkInv'
<1>1. CASE Stop BY <1>1, WalkStop DEF IdKeep, conn
<1>2. CASE "next" \notin freed /\ Forward(next) /\ UNCHANGED <<store, pc, stanza, min>>
  <2>1. pc = "id" /\ called /\ Walking /\ item # NULL
    BY DEF IdKeep, Walking, WalkInv, PointersInv
  <2>2. /\ item' = next /\ next' = NULL /\ called' = FALSE /\ due' \subseteq due
        /\ broken' = broken /\ prev' = item
        /\ freed' = IF "item" \in freed THEN {"prev"} ELSE {}
    BY <1>2 DEF Forward, MoveTo
  <2>3. On' = On /\ Walking' = Walking BY <1>2, WalkStays DEF On, store
  <2>4. TypeOK' BY <1>2, <2>2 DEF IdKeep, WalkInv, TypeInv, TypeOK, store, conn
  <2>5. TypeInv' BY <1>2, <2>1, <2>2, <2>4 DEF WalkInv, TypeInv, store
  <2>6. ListsInv' BY <1>2 DEF WalkInv, ListsInv, store
  <2>7. PointersInv' BY <1>2, <2>1, <2>2, <2>3 DEF WalkInv, PointersInv
  <2> QED BY <2>5, <2>6, <2>7 DEF WalkInv
<1> QED BY <1>1, <1>2 DEF IdKeep

\* Unlinking an item of an id's chain.
LEMMA IdUnlinkedIs ==
    ASSUME WalkInv, pc = "id", called, freed = {}
    PROVE  LET w == IdUnlinked(On)
           IN /\ item \in Members(On) /\ w \in Seq(Functions) /\ Unique(w)
              /\ Members(w) \subseteq Members(On) \ {item}
              /\ \A g : g \in Members(w) <=>
                     \/ prev # NULL /\ (g = prev \/ Behind(On, g, prev))
                     \/ next # NULL /\ (g = next \/ Behind(On, next, g))
              /\ \A g, h : Behind(w, g, h) <=>
                     g \in Members(w) /\ h \in Members(w) /\ Behind(On, g, h)
<1>1. Walking /\ item # NULL BY DEF Walking, WalkInv, PointersInv
<1>2. On \in Seq(Functions) /\ Unique(On) BY <1>1, OnIs DEF WalkInv
<1>3. /\ item \in Members(On)
      /\ prev \in Members(On) \cup {NULL} /\ next \in Members(On) \cup {NULL}
      /\ prev # NULL => Behind(On, prev, item)
      /\ next # NULL => Behind(On, item, next)
  BY <1>1 DEF WalkInv, PointersInv
<1>4. prev # NULL /\ next # NULL => Behind(On, prev, next) BY <1>2, <1>3, OrderIs
<1> DEFINE w == IdUnlinked(On)
<1>5. /\ w \in Seq(Functions) /\ Unique(w)
      /\ \A g : g \in Members(w) <=>
             \/ prev # NULL /\ (g = prev \/ Behind(On, g, prev))
             \/ next # NULL /\ (g = next \/ Behind(On, next, g))
      /\ \A g, h : Behind(w, g, h) <=>
             g \in Members(w) /\ h \in Members(w) /\ Behind(On, g, h)
  BY <1>2, <1>3, <1>4, LinkedIs DEF IdUnlinked
<1> HIDE DEF w
<1>6. item \notin Members(w) BY <1>2, <1>3, <1>5, OrderIs
<1>7. Members(w) \subseteq Members(On) BY <1>2, <1>3, <1>5, OrderIs
<1> QED BY <1>3, <1>5, <1>6, <1>7 DEF w

LEMMA WalkIdDone == ASSUME WalkInv, IdDone PROVE WalkInv'
<1>1. CASE Stop BY <1>1, WalkStop DEF IdDone, conn
<1>2. CASE freed = {} /\ ~Stop
  <2>1. /\ pc = "id" /\ called /\ Walking /\ item # NULL
    BY DEF IdDone, Walking, WalkInv, PointersInv
  <2>2. /\ lists' = [lists EXCEPT ![stanza.id] = IdUnlinked(@)]
        /\ registered' = [registered EXCEPT ![stanza.id] = @ \ {item}]
        /\ doubtful' = doubtful \ {<<stanza.id, item>>}
        /\ Stay(next)
        /\ UNCHANGED <<enabled, age, pc, stanza, min, connected, authenticated>>
    BY <1>2 DEF IdDone, conn
  <2>3. /\ Walked = stanza.id /\ stanza.id \in Lists /\ On = lists[stanza.id]
        /\ On \in Seq(Functions) /\ Unique(On) /\ Members(On) \subseteq Of(stanza.id)
    BY <2>1, OnIs DEF WalkInv
  <2> DEFINE w == IdUnlinked(On)
  <2>4. /\ item \in Members(On) /\ w \in Seq(Functions) /\ Unique(w)
        /\ Members(w) \subseteq Members(On) \ {item}
        /\ \A g : g \in Members(w) <=>
               \/ prev # NULL /\ (g = prev \/ Behind(On, g, prev))
               \/ next # NULL /\ (g = next \/ Behind(On, next, g))
        /\ \A g, h : Behind(w, g, h) <=>
               g \in Members(w) /\ h \in Members(w) /\ Behind(On, g, h)
    BY <1>2, <2>1, IdUnlinkedIs
  <2>5. lists' = [lists EXCEPT ![stanza.id] = w] BY <2>2, <2>3
  <2> HIDE DEF w
  <2>6. Members(w) \subseteq Of(stanza.id) BY <2>3, <2>4
  <2>7. /\ lists' \in [Lists -> Seq(Functions)] /\ ListsInv' /\ lists'[stanza.id] = w
        /\ \A m \in Lists : Members(lists'[m]) \subseteq Of(m)
    BY <2>3, <2>4, <2>5, <2>6, ListBecomes DEF WalkInv
  <2>8. On' = w /\ Walking' = Walking BY <2>2, <2>3, <2>7, WalkStays DEF On
  <2>9. /\ item' = next /\ next' = NULL /\ called' = FALSE /\ due' \subseteq due
        /\ broken' = broken /\ prev' = prev /\ freed' = {}
    BY <1>2, <2>2 DEF Stay, MoveTo
  <2>10. TypeOK' BY <2>2, <2>7, <2>9 DEF WalkInv, TypeInv, TypeOK
  <2>11. registered' \in [Lists -> SUBSET Functions] /\ doubtful' \subseteq Ids \X Functions
    BY <2>2 DEF WalkInv, TypeInv
  <2>12. TypeInv' BY <2>1, <2>2, <2>10, <2>11 DEF WalkInv, TypeInv
  <2>13. PointersInv'
    <3>1. /\ prev # NULL => prev \in Members(On) /\ Behind(On, prev, item)
          /\ next # NULL => next \in Members(On) /\ Behind(On, item, next)
      BY <1>2, <2>1 DEF WalkInv, PointersInv
    <3>2. prev # NULL /\ next # NULL => Behind(On, prev, next) BY <2>3, <3>1, OrderIs
    <3>3. /\ prev # NULL => prev \in Members(w)
          /\ next # NULL => next \in Members(w)
          /\ prev # NULL /\ next # NULL => Behind(w, prev, next)
      BY <2>4, <3>2
    <3> QED BY <2>1, <2>2, <2>8, <2>9, <3>3 DEF PointersInv
  <2> QED BY <2>7, <2>12, <2>13 DEF WalkInv
<1> QED BY <1>1, <1>2 DEF IdDone

LEMMA WalkStanzaStart == ASSUME WalkInv, StanzaStart PROVE WalkInv'
<1> DEFINE wanted == {f \in StanzaHandlers : Matches(f, stanza)}
<1>1. /\ pc' = "stanza" /\ StartWalk(lists["stanza"], wanted)
      /\ enabled' = enabled \cup Members(lists["stanza"]) /\ doubtful' \subseteq doubtful
      /\ UNCHANGED <<lists, age, registered, connected, authenticated, stanza, min>>
  BY DEF StanzaStart, conn
<1> HIDE DEF wanted
<1>2. Walked' = "stanza" /\ "stanza" \in Lists BY <1>1, ConstantsIs DEF Walked
<1>3. Members(lists["stanza"]) \subseteq Functions BY <1>2, ListIs DEF WalkInv
<1>4. /\ enabled' \subseteq Functions /\ min \in 0 .. Infinite
      /\ stanza \in Stanzas
  BY <1>1, <1>3 DEF StanzaStart, WalkInv, TypeInv, TypeOK
<1> QED BY <1>1, <1>2, <1>4, WalkStarts

LEMMA WalkStanzaSkip == ASSUME WalkInv, StanzaSkip PROVE WalkInv'
<1>1. /\ pc = "stanza" /\ item # NULL /\ ~called /\ Walking /\ "item" \notin freed
  BY DEF StanzaSkip, Walking, WalkInv, PointersInv
<1>2. On = lists["stanza"] BY <1>1, OnIs DEF WalkInv
<1>3. doubtful \subseteq Ids \X Functions /\ min \in 0 .. Infinite
  BY DEF WalkInv, TypeInv, TypeOK
<1> QED BY <1>1, <1>2, <1>3, WalkAdvances DEF StanzaSkip, Forward, MoveTo, store

LEMMA WalkStanzaCall == ASSUME WalkInv, StanzaCall PROVE WalkInv'
<1>1. pc = "stanza" /\ item # NULL /\ ~called /\ Walking BY DEF StanzaCall, Walking
<1>2. age' \in [TimedHandlers -> 0 .. MaxAge]
  BY DEF StanzaCall, store, WalkInv, TypeInv, TypeOK
<1> QED BY <1>1, <1>2, WalkCalls DEF StanzaCall, store

LEMMA WalkStanzaKeep == ASSUME WalkInv, StanzaKeep PROVE WalkInv'
<1>1. CASE Stop BY <1>1, WalkStop DEF StanzaKeep, conn
<1>2. CASE /\ "item" \notin freed /\ Forward(NextOf(lists["stanza"], item))
           /\ UNCHANGED <<store, pc, stanza, min>>
  <2>1. pc = "stanza" /\ item # NULL /\ Walking
    BY DEF StanzaKeep, Walking, WalkInv, PointersInv
  <2>2. On = lists["stanza"] BY <2>1, OnIs DEF WalkInv
  <2>3. doubtful \subseteq Ids \X Functions /\ min \in 0 .. Infinite
    BY DEF WalkInv, TypeInv, TypeOK
  <2> QED BY <1>2, <2>1, <2>2, <2>3, WalkAdvances DEF StanzaKeep, Forward, MoveTo, store
<1> QED BY <1>1, <1>2 DEF StanzaKeep

\* Unlinking an item of the stanza handlers, and where the walk goes on.
LEMMA StanzaUnlinkedIs ==
    ASSUME WalkInv, GapInv, pc = "stanza", called, freed = {}
    PROVE  LET w == StanzaUnlinked(On)
           IN /\ item \in Members(On) /\ w \in Seq(Functions) /\ Unique(w)
              /\ Members(w) = Members(On) \ {item}
              /\ \A g, h : Behind(w, g, h) <=> Behind(On, g, h) /\ g # item /\ h # item
              /\ Resume(w) = NextOf(On, item)
<1>1. Walking /\ item # NULL BY DEF Walking, WalkInv, PointersInv
<1>2. /\ On \in Seq(Functions) /\ Unique(On) /\ NULL \notin Members(On)
      /\ Walked = "stanza"
  BY <1>1, OnIs DEF WalkInv
<1>3. /\ item \in Members(On) /\ prev \in Members(On) \cup {NULL}
      /\ prev # NULL => Behind(On, prev, item)
  BY <1>1 DEF WalkInv, PointersInv
<1> DEFINE n == NextOf(On, item)
           w == StanzaUnlinked(On)
<1>4. /\ n \in Members(On) \cup {NULL}
      /\ n # NULL => Behind(On, item, n)
      /\ \A g : Behind(On, item, g) => n # NULL /\ (g = n \/ Behind(On, n, g))
  BY <1>2, <1>3, NextIs
<1>5. w = UpTo(On, prev) \o From(On, n) BY <1>2, <1>3, AfterIs DEF StanzaUnlinked
<1> HIDE DEF n
<1>6. prev # NULL /\ n # NULL => Behind(On, prev, n) BY <1>2, <1>3, <1>4, OrderIs
<1>7. /\ w \in Seq(Functions) /\ Unique(w)
      /\ \A g : g \in Members(w) <=>
             \/ prev # NULL /\ (g = prev \/ Behind(On, g, prev))
             \/ n # NULL /\ (g = n \/ Behind(On, n, g))
      /\ \A g, h : Behind(w, g, h) <=>
             g \in Members(w) /\ h \in Members(w) /\ Behind(On, g, h)
  BY <1>2, <1>3, <1>4, <1>5, <1>6, LinkedIs
<1> HIDE DEF w
<1>8. \A f \in Members(On) :
          ~(Behind(On, f, item) /\ (prev = NULL \/ Behind(On, prev, f)))
  <2>1. \A f : <<"stanza", f>> \notin doubtful BY ConstantsIs DEF WalkInv, TypeInv
  <2> QED BY <1>1, <1>2, <2>1 DEF GapInv
<1>9. Members(w) = Members(On) \ {item}
  <2>1. ASSUME NEW g \in Members(w) PROVE g \in Members(On) /\ g # item
    BY <1>2, <1>3, <1>4, <1>6, <1>7, OrderIs
  <2>2. ASSUME NEW g \in Members(On), g # item PROVE g \in Members(w)
    <3>1. Behind(On, g, item) \/ Behind(On, item, g) BY <1>2, <1>3, <2>2, OrderIs
    <3>2. CASE Behind(On, item, g) BY <1>4, <1>7, <3>2
    <3>3. CASE Behind(On, g, item)
      <4>1. prev # NULL /\ ~Behind(On, prev, g) BY <1>8, <3>3
      <4>2. g = prev \/ Behind(On, g, prev) BY <1>2, <1>3, <4>1, OrderIs
      <4> QED BY <1>7, <4>1, <4>2
    <3> QED BY <3>1, <3>2, <3>3
  <2> QED BY <2>1, <2>2
<1>10. \A g, h : Behind(w, g, h) <=> Behind(On, g, h) /\ g # item /\ h # item
  BY <1>2, <1>7, <1>9, OrderIs
<1>11. Resume(w) = n
  <2>1. CASE prev = NULL
    <3>1. Resume(w) = First(w) BY <2>1 DEF Resume
    <3>2. \/ First(w) = NULL /\ Members(w) = {}
          \/ /\ First(w) \in Members(w)
             /\ \A f \in Members(w) : f = First(w) \/ Behind(w, First(w), f)
      BY <1>7, FirstIs
    <3>3. n = NULL => Members(w) = {} BY <1>7, <2>1
    <3>4. n # NULL => n \in Members(w) /\ \A g \in Members(w) : g = n \/ Behind(w, n, g)
      BY <1>7, <2>1
    <3>5. First(w) \in Members(w) => First(w) # NULL BY <1>2, <1>9
    <3>6. \A g, h : Behind(w, g, h) => ~Behind(w, h, g) BY <1>7, OrderIs
    <3>7. CASE n = NULL BY <3>1, <3>2, <3>3, <3>7
    <3>8. CASE n # NULL
      <4>1. First(w) \in Members(w) /\ n \in Members(w) BY <3>2, <3>4, <3>8
      <4>2. First(w) = n \/ (Behind(w, n, First(w)) /\ Behind(w, First(w), n))
        BY <3>2, <3>4, <3>8, <4>1
      <4> QED BY <3>1, <3>6, <4>2
    <3> QED BY <3>7, <3>8
  <2>2. CASE prev # NULL
    <3>1. Resume(w) = NextOf(w, prev) BY <2>2 DEF Resume
    <3>2. prev \in Members(w) BY <1>7, <2>2
    <3>3. \/ NextOf(w, prev) = NULL /\ \A g : ~Behind(w, prev, g)
          \/ /\ NextOf(w, prev) \in Members(w) /\ Behind(w, prev, NextOf(w, prev))
             /\ \A g : Behind(w, prev, g) => g = NextOf(w, prev) \/ Behind(w, NextOf(w, prev), g)
      BY <1>7, <3>2, NextIs
    <3>4. \A g : Behind(w, prev, g) => n # NULL /\ (g = n \/ Behind(w, n, g))
      <4>1. ASSUME NEW g, Behind(w, prev, g) PROVE n # NULL /\ (g = n \/ Behind(w, n, g))
        <5>1. g \in Members(w) /\ Behind(On, prev, g) BY <1>10, <1>7, <4>1
        <5>2. g # prev /\ ~Behind(On, g, prev) BY <1>2, <5>1, OrderIs
        <5>3. n # NULL /\ (g = n \/ Behind(On, n, g)) BY <1>7, <5>1, <5>2
        <5>4. n \in Members(w) BY <1>7, <5>3
        <5> QED BY <1>7, <5>1, <5>3, <5>4
      <4> QED BY <4>1
    <3>5. n # NULL => n \in Members(w) /\ Behind(w, prev, n) BY <1>6, <1>7, <2>2, <3>2
    <3>6. \A g, h : Behind(w, g, h) => ~Behind(w, h, g) /\ g # h BY <1>7, OrderIs
    <3>7. CASE n = NULL
      <4>1. NextOf(w, prev) = NULL BY <3>3, <3>4, <3>7
      <4> QED BY <3>1, <3>7, <4>1
    <3>8. CASE n # NULL
      <4>1. Behind(w, prev, NextOf(w, prev)) BY <3>3, <3>5, <3>8
      <4>2. NextOf(w, prev) = n \/ (Behind(w, n, NextOf(w, prev)) /\ Behind(w, NextOf(w, prev), n))
        BY <3>3, <3>4, <3>5, <3>8, <4>1
      <4> QED BY <3>1, <3>6, <4>2
    <3> QED BY <3>7, <3>8
  <2> QED BY <2>1, <2>2
<1> QED BY <1>3, <1>7, <1>9, <1>10, <1>11 DEF n, w

LEMMA WalkStanzaDone == ASSUME WalkInv, GapInv, StanzaDone PROVE WalkInv'
<1>1. CASE Stop BY <1>1, WalkStop DEF StanzaDone, conn
<1>2. CASE freed = {} /\ ~Stop
  <2>1. /\ pc = "stanza" /\ called /\ Walking /\ item # NULL
    BY DEF StanzaDone, Walking, WalkInv, PointersInv
  <2>2. /\ "stanza" \in Lists /\ On = lists["stanza"] /\ Walked = "stanza"
        /\ On \in Seq(Functions) /\ Unique(On) /\ Members(On) \subseteq Of("stanza")
        /\ NULL \notin Members(On) /\ Members(On) \subseteq Functions
    BY <2>1, OnIs DEF WalkInv
  <2> DEFINE w == StanzaUnlinked(On)
             n == NextOf(On, item)
  <2>3. /\ item \in Members(On) /\ w \in Seq(Functions) /\ Unique(w)
        /\ Members(w) = Members(On) \ {item}
        /\ \A g, h : Behind(w, g, h) <=> Behind(On, g, h) /\ g # item /\ h # item
        /\ Resume(w) = n
    BY <1>2, <2>1, StanzaUnlinkedIs
  <2>4. /\ n \in Members(On) \cup {NULL}
        /\ n # NULL => Behind(On, item, n)
    BY <2>2, <2>3, NextIs
  <2>5. /\ lists' = [lists EXCEPT !["stanza"] = w]
        /\ registered' = [registered EXCEPT !["stanza"] = @ \ {item}]
        /\ enabled' = enabled \ {item}
        /\ Stay(Resume(w))
        /\ UNCHANGED <<age, doubtful, pc, stanza, min, connected, authenticated>>
    BY <1>2, <2>2 DEF StanzaDone, conn
  <2>6. /\ item' = n /\ next' = NULL /\ called' = FALSE /\ due' \subseteq due
        /\ broken' = broken /\ prev' = prev /\ freed' = {}
    BY <1>2, <2>3, <2>5 DEF Stay, MoveTo
  <2> HIDE DEF w, n
  <2>7. Members(w) \subseteq Of("stanza") BY <2>2, <2>3
  <2>8. /\ lists' \in [Lists -> Seq(Functions)] /\ ListsInv' /\ lists'["stanza"] = w
        /\ \A m \in Lists : Members(lists'[m]) \subseteq Of(m)
    BY <2>2, <2>3, <2>5, <2>7, ListBecomes DEF WalkInv
  <2>9. On' = w /\ Walking' = Walking BY <2>2, <2>5, <2>8, WalkStays DEF On
  <2>10. n \in Functions \cup {NULL} BY <2>2, <2>4
  <2>11. TypeOK' BY <2>5, <2>6, <2>8, <2>10 DEF WalkInv, TypeInv, TypeOK
  <2>12. TypeInv' BY <2>1, <2>5, <2>11 DEF WalkInv, TypeInv
  <2>13. PointersInv'
    <3>1. prev # NULL => prev \in Members(On) /\ Behind(On, prev, item)
      BY <1>2, <2>1 DEF WalkInv, PointersInv
    <3>2. prev # NULL => prev # item BY <2>2, <3>1, OrderIs
    <3>3. n # NULL => n \in Members(On) /\ n # item BY <2>2, <2>4, OrderIs
    <3>4. prev # NULL /\ n # NULL => Behind(On, prev, n) BY <2>2, <2>4, <3>1, OrderIs
    <3>5. /\ prev # NULL => prev \in Members(w)
          /\ n # NULL => n \in Members(w)
          /\ prev # NULL /\ n # NULL => Behind(w, prev, n)
      BY <2>3, <3>1, <3>2, <3>3, <3>4
    <3> QED BY <2>1, <2>5, <2>6, <2>9, <3>5 DEF PointersInv
  <2> QED BY <2>8, <2>12, <2>13 DEF WalkInv
<1> QED BY <1>1, <1>2 DEF StanzaDone

\* At the end of the list the walk is over.
LEMMA WalkEnds ==
    ASSUME WalkInv, NoWalk, UNCHANGED <<store, conn>>, ~Walking', pc' # "undefined",
           pc' \in {"select", "user", "events"}, min' \in 0 .. Infinite
    PROVE  WalkInv'
<1>1. TypeInv' BY DEF WalkInv, TypeInv, TypeOK, NoWalk, store, conn
<1>2. ListsInv' BY DEF WalkInv, ListsInv, store
<1>3. PointersInv' BY DEF PointersInv, NoWalk, Idle
<1> QED BY <1>1, <1>2, <1>3 DEF WalkInv

LEMMA WalkStanzaEnd == ASSUME WalkInv, StanzaEnd PROVE WalkInv'
<1>1. pc' = "events" /\ ~Walking' /\ min' \in 0 .. Infinite
  BY DEF StanzaEnd, Walking, WalkInv, TypeInv, TypeOK
<1> QED BY <1>1, WalkEnds DEF StanzaEnd

LEMMA WalkTimedEnd == ASSUME WalkInv, TimedEnd PROVE WalkInv'
<1>1. pc' \in {"select", "user"} /\ ~Walking' /\ min' \in 0 .. Infinite
  BY ConstantsIs DEF TimedEnd, Walking, WalkInv, TypeInv, TypeOK
<1> QED BY <1>1, WalkEnds DEF TimedEnd

LEMMA WalkTimedStart == ASSUME WalkInv, TimedStart PROVE WalkInv'
<1> DEFINE wanted == {f \in TimedHandlers : age[f] >= Period[f]}
           list   == IF connected THEN lists["timed"] ELSE <<>>
<1>1. /\ pc' \in {"timed1", "timed2"} /\ StartWalk(list, wanted)
      /\ enabled' = enabled \cup Members(list) /\ min' = Infinite
      /\ UNCHANGED <<lists, age, registered, doubtful, connected, authenticated, stanza>>
  BY DEF TimedStart, conn
<1> HIDE DEF wanted
<1>2. Walked' = "timed" /\ "timed" \in Lists BY <1>1, ConstantsIs DEF Walked
<1>3. list = <<>> \/ list = lists["timed"] OBVIOUS
<1> HIDE DEF list
<1>4. Members(<<>>) = {} BY DEF Members
<1>5. enabled' \subseteq Functions
  BY <1>1, <1>2, <1>3, <1>4, ListIs DEF WalkInv, TypeInv, TypeOK
<1>6. min' \in 0 .. Infinite BY <1>1, ConstantsIs
<1>7. pc' \notin {"id", "stanza"} BY <1>1
<1> QED BY <1>1, <1>2, <1>3, <1>5, <1>6, <1>7, WalkStarts

LEMMA TimedOn ==
    ASSUME WalkInv, InTimed, item # NULL
    PROVE  Walking /\ On = lists["timed"] /\ Walked = "timed"
BY OnIs DEF InTimed, Walking, WalkInv

LEMMA TimedItem ==
    ASSUME WalkInv, InTimed, item # NULL, "item" \notin freed
    PROVE  item \in TimedHandlers /\ item \in Members(On)
<1>1. Walking /\ On = lists["timed"] BY TimedOn
<1>2. item \in Members(On) BY <1>1 DEF WalkInv, PointersInv
<1> QED BY <1>1, <1>2, ConstantsIs DEF WalkInv, TypeInv, TypeOK

LEMMA WalkTimedSkip == ASSUME WalkInv, TimedSkip PROVE WalkInv'
<1>1. /\ Walking /\ item # NULL /\ "item" \notin freed /\ On = lists["timed"]
  BY TimedOn DEF TimedSkip, WalkInv, PointersInv
<1>2. doubtful \subseteq Ids \X Functions /\ min \in 0 .. Infinite
  BY DEF WalkInv, TypeInv, TypeOK
<1> QED BY <1>1, <1>2, WalkAdvances DEF TimedSkip, Stay, MoveTo, store

LEMMA WalkTimedWait == ASSUME WalkInv, TimedWait PROVE WalkInv'
<1>1. /\ Walking /\ item # NULL /\ "item" \notin freed /\ On = lists["timed"]
  BY TimedOn DEF TimedWait, WalkInv, PointersInv
<1>2. doubtful \subseteq Ids \X Functions /\ min \in 0 .. Infinite
  BY DEF WalkInv, TypeInv, TypeOK
<1>3. item \in TimedHandlers BY <1>1, TimedItem DEF TimedWait
<1>4. min' \in 0 .. Infinite
  <2>1. Period[item] \in Nat /\ age[item] \in Nat /\ age[item] < Period[item]
    BY <1>3, ConstantsIs DEF TimedWait, WalkInv, TypeInv, TypeOK
  <2> QED BY <1>2, <2>1, ConstantsIs DEF TimedWait
<1> QED BY <1>1, <1>2, <1>4, WalkAdvances DEF TimedWait, Stay, MoveTo, store

LEMMA WalkTimedCall == ASSUME WalkInv, TimedCall PROVE WalkInv'
<1>1. Walking /\ item # NULL /\ ~called BY TimedOn DEF TimedCall
<1>2. age' \in [TimedHandlers -> 0 .. MaxAge]
  <2>1. age \in [TimedHandlers -> 0 .. MaxAge] BY DEF WalkInv, TypeInv, TypeOK
  <2>2. age' = [age EXCEPT ![item] = 0] BY DEF TimedCall
  <2>3. item \in TimedHandlers
    BY <1>1, TimedItem DEF TimedCall, WalkInv, PointersInv
  <2> QED BY <2>1, <2>2, <2>3, ConstantsIs
<1> QED BY <1>1, <1>2, WalkCalls DEF TimedCall

LEMMA WalkTimedReturn == ASSUME WalkInv, TimedReturn PROVE WalkInv'
<1>1. CASE Stop BY <1>1, WalkStop DEF TimedReturn, conn
<1>2. CASE "item" \notin freed /\ ~Stop
  <2>1. Walking /\ item # NULL BY DEF TimedReturn, WalkInv, PointersInv, InTimed, Walking
  <2>2. /\ On = lists["timed"] /\ Walked = "timed" /\ "timed" \in Lists
        /\ On \in Seq(Functions) /\ Unique(On) /\ NULL \notin Members(On)
        /\ Members(On) \subseteq Of("timed") /\ Members(On) \subseteq Functions
        /\ item \in Members(On)
    BY <1>2, <2>1, TimedOn, OnIs DEF TimedReturn, WalkInv, PointersInv
  <2>3. /\ item' = NextOf(On, item) /\ next' = NULL /\ called' = FALSE /\ due' \subseteq due
        /\ broken' = broken /\ prev' = prev /\ freed' = freed \cap {"prev"}
        /\ UNCHANGED <<pc, stanza, min, connected, authenticated>>
    BY <1>2, <2>2 DEF TimedReturn, Stay, MoveTo, conn
  <2>4. CASE UNCHANGED store
    <3>1. doubtful \subseteq Ids \X Functions /\ min \in 0 .. Infinite
      BY DEF WalkInv, TypeInv, TypeOK
    <3> QED BY <1>2, <2>1, <2>3, <2>4, <3>1, WalkAdvances DEF store, conn
  <2>5. CASE /\ lists' = [lists EXCEPT !["timed"] = Without(@, item)]
             /\ registered' = [registered EXCEPT !["timed"] = @ \ {item}]
             /\ enabled' = enabled \ {item}
             /\ UNCHANGED <<age, doubtful>>
    <3> DEFINE w == Without(On, item)
               n == NextOf(On, item)
    <3>1. w \in Seq(Functions) /\ Unique(w) /\ Members(w) = Members(On) \ {item}
      BY <2>2, WithoutIs
    <3>2. /\ n \in Members(On) \cup {NULL}
          /\ n # NULL => Behind(On, item, n)
      BY <2>2, NextIs
    <3>3. lists' = [lists EXCEPT !["timed"] = w] BY <2>2, <2>5
    <3>4. item' = n BY <2>3
    <3> HIDE DEF w, n
    <3>5. Members(w) \subseteq Of("timed") BY <2>2, <3>1
    <3>6. /\ lists' \in [Lists -> Seq(Functions)] /\ ListsInv' /\ lists'["timed"] = w
          /\ \A m \in Lists : Members(lists'[m]) \subseteq Of(m)
      BY <2>2, <3>1, <3>3, <3>5, ListBecomes DEF WalkInv
    <3>7. On' = w /\ Walking' = Walking BY <2>2, <2>3, <3>6, WalkStays DEF On
    <3>8. n # NULL => n \in Members(w) BY <2>2, <3>1, <3>2, OrderIs
    <3>9. TypeOK' BY <2>2, <2>3, <2>5, <3>2, <3>4, <3>6 DEF WalkInv, TypeInv, TypeOK
    <3>10. TypeInv'
      <4>1. pc \notin {"id", "stanza"} BY DEF TimedReturn, InTimed
      <4> QED BY <2>3, <2>5, <3>9, <4>1 DEF WalkInv, TypeInv
    <3>11. PointersInv'
      <4>1. pc \in {"timed1", "timed2"} /\ prev = NULL
        BY DEF TimedReturn, InTimed, WalkInv, PointersInv, Walking
      <4> QED BY <2>1, <2>3, <3>4, <3>7, <3>8, <4>1 DEF PointersInv
    <3> QED BY <3>6, <3>10, <3>11 DEF WalkInv
  <2> QED BY <1>2, <2>4, <2>5 DEF TimedReturn
<1> QED BY <1>1, <1>2 DEF TimedReturn

LEMMA WalkNext == ASSUME WalkInv, GapInv, [Next]_vars PROVE WalkInv'
<1>1. CASE UNCHANGED vars
  <2>1. TypeOK' BY <1>1 DEF WalkInv, TypeInv, TypeOK, vars, store, walk
  <2> QED BY <1>1, <2>1, WalkRest DEF vars, store
<1>2. CASE Next
  BY <1>2, WalkRegister, WalkDelete, WalkAuthenticate, WalkStreamOpen, WalkConnection,
     WalkTime, WalkFire, WalkIdSkip, WalkIdCall, WalkIdKeep, WalkIdDone, WalkStanzaStart,
     WalkStanzaSkip, WalkStanzaCall, WalkStanzaKeep, WalkStanzaDone, WalkStanzaEnd,
     WalkTimedStart, WalkTimedSkip, WalkTimedWait, WalkTimedCall, WalkTimedReturn,
     WalkTimedEnd, WalkSelect
     DEF Next
<1> QED BY <1>1, <1>2

-----------------------------------------------------------------------------
(* What a walk passes over, and the books about who is registered. *)

\* Nothing is between an item and its successor.
LEMMA NoneBetween ==
    ASSUME NEW s \in Seq(Functions), Unique(s), NEW f \in Members(s)
    PROVE  \A g : /\ NextOf(s, f) = NULL => ~Behind(s, f, g)
                  /\ ~(Behind(s, f, g) /\ Behind(s, g, NextOf(s, f)))
<1>1. NULL \notin Members(s) BY NullIs DEF Members
<1> QED BY <1>1, NextIs, OrderIs

LEMMA GapOutside == ASSUME pc' \notin {"id", "stanza"} PROVE GapInv'
BY DEF GapInv

LEMMA GapRest ==
    ASSUME GapInv, UNCHANGED <<lists, item, prev, next, called, freed, pc, stanza>>,
           doubtful \subseteq doubtful'
    PROVE  GapInv'
<1>1. Walked' = Walked /\ Walking' = Walking /\ On' = On BY WalkStays DEF On
<1> QED BY <1>1 DEF GapInv

LEMMA GapRegister == ASSUME WalkInv, GapInv, Register PROVE GapInv'
<1>1. PICK l \in Lists : \E f \in Of(l) : Added(l, f) BY AddIs DEF WalkInv
<1>2. PICK f \in Of(l) : Added(l, f) BY <1>1
<1>3. UNCHANGED <<item, prev, next, called, freed, pc, stanza>> BY DEF Register, walk
<1>4. Walked' = Walked /\ Walking' = Walking BY <1>3, WalkStays
<1>5. CASE Walking /\ item # NULL
  <2>1. Walked \in Lists /\ On \in Seq(Functions) /\ Unique(On)
        /\ (pc = "id" => Walked \in Ids)
    BY <1>5, OnIs DEF WalkInv
  <2>2. \A g : <<Walked, g>> \in doubtful => <<Walked, g>> \in doubtful'
    BY <1>2 DEF Added
  <2>3. CASE Walked # l
    <3>1. On' = On BY <1>2, <1>3, <1>5, <2>3, OnGrows DEF WalkInv, Added
    <3> QED BY <1>3, <1>4, <1>5, <2>2, <3>1 DEF GapInv
  <2>4. CASE Walked = l
    <3>1. /\ f \notin Members(On) /\ Members(On') = Members(On) \cup {f}
          /\ \A g, h : Behind(On', g, h) <=>
                 Behind(On, g, h) \/ (g \in Members(On) /\ h = f)
      BY <1>2, <1>3, <1>5, <2>4, OnGrows DEF WalkInv, Added
    <3>2. \A g : ~Behind(On, f, g) BY <2>1, <3>1, OrderIs
    <3>3. pc = "id" => <<Walked, f>> \in doubtful' BY <1>2, <2>1, <2>4 DEF Added
    <3>4. /\ "item" \notin freed => item \in Members(On)
          /\ next # NULL /\ "next" \notin freed => next \in Members(On)
      BY <1>5 DEF WalkInv, PointersInv
    <3>5. ASSUME pc' \in {"id", "stanza"}, freed' \cap {"prev", "item"} = {},
                 NEW g \in Members(On'),
                 Behind(On', g, item), prev = NULL \/ Behind(On', prev, g)
          PROVE  <<Walked, g>> \in doubtful'
      <4>1. item \in Members(On) /\ item # f BY <1>3, <3>1, <3>4, <3>5
      <4>2. Behind(On, g, item) /\ g # f BY <3>1, <3>2, <3>5, <4>1
      <4>3. prev = NULL \/ Behind(On, prev, g) BY <3>1, <3>5, <4>2
      <4>4. g \in Members(On) BY <3>1, <3>5, <4>2
      <4> QED BY <1>3, <1>5, <2>2, <3>5, <4>2, <4>3, <4>4 DEF GapInv
    <3>6. ASSUME pc' = "id", called', freed' \cap {"item", "next"} = {},
                 NEW g \in Members(On'),
                 Behind(On', item, g), next = NULL \/ Behind(On', g, next)
          PROVE  <<Walked, g>> \in doubtful'
      <4>1. CASE g = f BY <1>3, <3>3, <3>6, <4>1
      <4>2. CASE g # f
        <5>1. g \in Members(On) /\ Behind(On, item, g) BY <3>1, <3>6, <4>2
        <5>2. next = NULL \/ Behind(On, g, next) BY <1>3, <3>1, <3>4, <3>6
        <5> QED BY <1>3, <1>5, <2>2, <3>6, <5>1, <5>2 DEF GapInv
      <4> QED BY <4>1, <4>2
    <3> QED BY <1>3, <1>4, <3>5, <3>6 DEF GapInv
  <2> QED BY <2>3, <2>4
<1>6. CASE ~(Walking /\ item # NULL) BY <1>3, <1>4, <1>6 DEF GapInv
<1> QED BY <1>5, <1>6

LEMMA GapDelete == ASSUME WalkInv, GapInv, Delete PROVE GapInv'
<1>1. PICK l \in Lists : \E f \in Of(l) : Dropped(l, f) BY DropIs DEF WalkInv
<1>2. PICK f \in Of(l) : Dropped(l, f) BY <1>1
<1>3. UNCHANGED <<item, prev, next, called, pc, stanza>> BY DEF Delete
<1>4. Walked' = Walked /\ Walking' = Walking BY <1>3, WalkStays
<1>5. freed \subseteq freed' /\ doubtful' = doubtful \ {<<l, f>>}
  BY <1>2 DEF Dropped, Remove
<1>6. CASE Walking /\ item # NULL
  <2>1. On = lists[Walked] BY DEF On
  <2>2. /\ Members(On') \subseteq Members(On)
        /\ \A g, h : Behind(On', g, h) => Behind(On, g, h)
        /\ Walked = l => f \notin Members(On')
    <3>1. CASE Remove(l, f)
      <4>1. IF Walked = l
            THEN /\ Members(On') = Members(On) \ {f}
                 /\ \A g, h : Behind(On', g, h) <=> Behind(On, g, h) /\ g # f /\ h # f
            ELSE On' = On
        BY <1>3, <1>6, <3>1, OnShrinks DEF WalkInv, Remove
      <4> QED BY <4>1
    <3>2. CASE f \notin Members(lists[l]) /\ UNCHANGED lists
      <4>1. On' = On BY <1>4, <3>2 DEF On
      <4> QED BY <2>1, <3>2, <4>1
    <3> QED BY <1>2, <3>1, <3>2 DEF Dropped
  <2>3. \A g \in Members(On') : <<Walked, g>> \in doubtful => <<Walked, g>> \in doubtful'
    BY <1>5, <2>2
  <2> QED BY <1>3, <1>4, <1>5, <1>6, <2>2, <2>3 DEF GapInv
<1>7. CASE ~(Walking /\ item # NULL) BY <1>3, <1>4, <1>7 DEF GapInv
<1> QED BY <1>6, <1>7

\* Nothing is in front of the first.
LEMMA GapStarts ==
    ASSUME WalkInv, NEW s, NEW wanted, StartWalk(s, wanted), UNCHANGED lists,
           s = <<>> \/ (Walked' \in Lists /\ s = lists[Walked'])
    PROVE  GapInv'
<1>1. item' = First(s) /\ prev' = NULL /\ called' = FALSE BY DEF StartWalk
<1>2. s = <<>> => First(s) = NULL BY DEF First
<1>3. CASE item' = NULL BY <1>3 DEF GapInv
<1>4. CASE item' # NULL
  <2>1. s \in Seq(Functions) /\ Unique(s) BY <1>1, <1>2, <1>4, ListIs DEF WalkInv
  <2>2. On' = s BY <1>1, <1>2, <1>4 DEF On
  <2>3. \A f \in Members(s) : ~Behind(s, f, First(s))
    <3>1. \A f \in Members(s) : f = First(s) \/ Behind(s, First(s), f)
      BY <1>1, <1>4, <2>1, FirstIs
    <3> QED BY <2>1, <3>1, OrderIs
  <2> QED BY <1>1, <2>2, <2>3 DEF GapInv
<1> QED BY <1>3, <1>4

LEMMA GapFire ==
    ASSUME WalkInv, NEW s \in Stanzas, handler_fire_stanza(s)
    PROVE  GapInv'
<1>1. pc' = "id" /\ stanza' = s /\ UNCHANGED lists
      /\ StartWalk(IF s.id = NULL THEN <<>> ELSE lists[s.id], IdHandlers)
  BY DEF handler_fire_stanza, store
<1>2. Walked' = s.id BY <1>1 DEF Walked
<1> DEFINE list == IF s.id = NULL THEN <<>> ELSE lists[s.id]
<1>3. list = <<>> \/ (Walked' \in Lists /\ list = lists[Walked'])
  BY <1>2, HandlersAssumption, ConstantsIs
<1>4. StartWalk(list, IdHandlers) BY <1>1
<1> HIDE DEF list
<1> QED BY <1>1, <1>3, <1>4, GapStarts

LEMMA GapStanzaStart == ASSUME WalkInv, StanzaStart PROVE GapInv'
<1> DEFINE wanted == {f \in StanzaHandlers : Matches(f, stanza)}
<1>1. pc' = "stanza" /\ StartWalk(lists["stanza"], wanted) /\ UNCHANGED lists
  BY DEF StanzaStart
<1> HIDE DEF wanted
<1>2. Walked' = "stanza" /\ "stanza" \in Lists BY <1>1, ConstantsIs DEF Walked
<1> QED BY <1>1, <1>2, GapStarts

\* A walk that moves on passes nothing but its item, which is prev then or doubtful.
LEMMA GapAdvances ==
    ASSUME WalkInv, GapInv, pc \in {"id", "stanza"}, item # NULL, "item" \notin freed,
           item' = NextOf(On, item), called' = FALSE, UNCHANGED <<lists, pc, stanza>>,
           doubtful \subseteq doubtful',
           \/ /\ prev' = prev /\ freed' = freed \cap {"prev"}
              /\ <<Walked, item>> \in doubtful'
           \/ prev' = item
    PROVE  GapInv'
<1>1. Walking BY DEF Walking
<1>2. On \in Seq(Functions) /\ Unique(On) /\ item \in Members(On)
  BY <1>1, OnIs DEF WalkInv, PointersInv
<1>3. On' = On /\ Walked' = Walked BY WalkStays DEF On
<1>4. \A g : ~(Behind(On, item, g) /\ Behind(On, g, item')) BY <1>2, NoneBetween
<1>5. CASE prev' = item BY <1>3, <1>4, <1>5, <1>2, NullIs DEF GapInv, Members
<1>6. CASE /\ prev' = prev /\ freed' = freed \cap {"prev"}
           /\ <<Walked, item>> \in doubtful'
  <2>1. ASSUME freed' \cap {"prev", "item"} = {}, NEW g \in Members(On),
               Behind(On, g, item'), prev = NULL \/ Behind(On, prev, g)
        PROVE  <<Walked, g>> \in doubtful'
    <3>1. g = item \/ Behind(On, g, item) BY <1>2, <1>4, <2>1, OrderIs
    <3>2. Behind(On, g, item) => <<Walked, g>> \in doubtful
      BY <1>1, <1>6, <2>1 DEF GapInv
    <3> QED BY <1>6, <3>1, <3>2
  <2> QED BY <1>3, <1>6, <2>1 DEF GapInv
<1> QED BY <1>5, <1>6

LEMMA GapIdSkip == ASSUME WalkInv, GapInv, IdSkip PROVE GapInv'
<1>1. pc = "id" /\ item # NULL /\ Walking /\ "item" \notin freed
  BY DEF IdSkip, Walking, WalkInv, PointersInv
<1>2. On = lists[stanza.id] /\ Walked = stanza.id BY <1>1, OnIs DEF WalkInv
<1> QED BY <1>1, <1>2, GapAdvances DEF IdSkip, Stay, MoveTo

\* The successor of an item is read before its call.
LEMMA GapIdCall == ASSUME WalkInv, GapInv, IdCall PROVE GapInv'
<1>1. pc = "id" /\ item # NULL /\ Walking /\ "item" \notin freed
  BY DEF IdCall, Walking, WalkInv, PointersInv
<1>2. On = lists[stanza.id] /\ On \in Seq(Functions) /\ Unique(On) /\ item \in Members(On)
  BY <1>1, OnIs DEF WalkInv, PointersInv
<1>3. UNCHANGED <<lists, item, prev, freed, pc, stanza, doubtful>>
      /\ next' = NextOf(On, item)
  BY <1>2 DEF IdCall, Call, store
<1>4. On' = On /\ Walked' = Walked /\ Walking' = Walking BY <1>3, WalkStays DEF On
<1>5. \A g : /\ next' = NULL => ~Behind(On, item, g)
             /\ ~(Behind(On, item, g) /\ Behind(On, g, next'))
  BY <1>2, <1>3, NoneBetween
<1> QED BY <1>1, <1>3, <1>4, <1>5 DEF GapInv

LEMMA GapIdKeep == ASSUME WalkInv, GapInv, IdKeep PROVE GapInv'
<1>1. CASE Stop BY <1>1, GapOutside DEF Stop
<1>2. CASE "next" \notin freed /\ Forward(next) /\ UNCHANGED <<store, pc, stanza, min>>
  <2>1. pc = "id" /\ called /\ Walking /\ item # NULL
    BY DEF IdKeep, Walking, WalkInv, PointersInv
  <2>2. /\ item' = next /\ called' = FALSE /\ prev' = item
        /\ freed' = IF "item" \in freed THEN {"prev"} ELSE {}
    BY <1>2 DEF Forward, MoveTo
  <2>3. On' = On /\ Walked' = Walked /\ doubtful' = doubtful
    BY <1>2, WalkStays DEF On, store
  <2> QED BY <1>2, <2>1, <2>2, <2>3 DEF GapInv
<1> QED BY <1>1, <1>2 DEF IdKeep

LEMMA GapIdDone == ASSUME WalkInv, GapInv, IdDone PROVE GapInv'
<1>1. CASE Stop BY <1>1, GapOutside DEF Stop
<1>2. CASE freed = {} /\ ~Stop
  <2>1. pc = "id" /\ called /\ Walking /\ item # NULL
    BY DEF IdDone, Walking, WalkInv, PointersInv
  <2>2. /\ lists' = [lists EXCEPT ![stanza.id] = IdUnlinked(@)]
        /\ item' = next /\ prev' = prev /\ called' = FALSE
        /\ UNCHANGED <<pc, stanza>>
    BY <1>2 DEF IdDone, Stay, MoveTo
  <2>3. Walked = stanza.id /\ stanza.id \in Lists /\ On = lists[stanza.id]
        /\ On \in Seq(Functions) /\ Unique(On)
    BY <2>1, OnIs DEF WalkInv
  <2>4. On' = IdUnlinked(On)
    <3>1. Walked' = stanza.id BY <2>2, <2>3, WalkStays
    <3>2. lists \in [Lists -> Seq(Functions)] BY DEF WalkInv, TypeInv, TypeOK
    <3> QED BY <2>2, <2>3, <3>1, <3>2 DEF On
  <2>5. /\ \A g : g \in Members(On') <=>
               \/ prev # NULL /\ (g = prev \/ Behind(On, g, prev))
               \/ next # NULL /\ (g = next \/ Behind(On, next, g))
        /\ \A g, h : Behind(On', g, h) <=>
               g \in Members(On') /\ h \in Members(On') /\ Behind(On, g, h)
    BY <1>2, <2>1, <2>4, IdUnlinkedIs
  <2>6. \A g \in Members(On') :
            ~(Behind(On', g, next) /\ (prev = NULL \/ Behind(On', prev, g)))
    BY <2>3, <2>5, OrderIs
  <2> QED BY <2>2, <2>6 DEF GapInv
<1> QED BY <1>1, <1>2 DEF IdDone

LEMMA GapStanzaSkip == ASSUME WalkInv, GapInv, StanzaSkip PROVE GapInv'
<1>1. /\ pc = "stanza" /\ item # NULL /\ Walking /\ "item" \notin freed
  BY DEF StanzaSkip, Walking, WalkInv, PointersInv
<1>2. On = lists["stanza"] BY <1>1, OnIs DEF WalkInv
<1> QED BY <1>1, <1>2, GapAdvances DEF StanzaSkip, Forward, MoveTo, store

LEMMA GapStanzaCall == ASSUME WalkInv, GapInv, StanzaCall PROVE GapInv'
<1>1. UNCHANGED <<lists, item, prev, freed, pc, stanza, doubtful>> /\ pc = "stanza"
  BY DEF StanzaCall, store
<1>2. On' = On /\ Walked' = Walked /\ Walking' = Walking BY <1>1, WalkStays DEF On
<1> QED BY <1>1, <1>2 DEF GapInv

LEMMA GapStanzaKeep == ASSUME WalkInv, GapInv, StanzaKeep PROVE GapInv'
<1>1. CASE Stop BY <1>1, GapOutside DEF Stop
<1>2. CASE /\ "item" \notin freed /\ Forward(NextOf(lists["stanza"], item))
           /\ UNCHANGED <<store, pc, stanza, min>>
  <2>1. pc = "stanza" /\ item # NULL /\ Walking
    BY DEF StanzaKeep, Walking, WalkInv, PointersInv
  <2>2. On = lists["stanza"] BY <2>1, OnIs DEF WalkInv
  <2> QED BY <1>2, <2>1, <2>2, GapAdvances DEF StanzaKeep, Forward, MoveTo, store
<1> QED BY <1>1, <1>2 DEF StanzaKeep

\* What StanzaDone does to list and walk.
LEMMA StanzaDoneIs ==
    ASSUME WalkInv, GapInv, StanzaDone, ~Stop
    PROVE  /\ Walking /\ item # NULL /\ item \in Members(On) /\ Walked = "stanza"
           /\ On \in Seq(Functions) /\ Unique(On) /\ On = lists["stanza"]
           /\ On' = lists'["stanza"] /\ Walked' = "stanza" /\ Walking' /\ freed = {}
           /\ lists' = [lists EXCEPT !["stanza"] = On']
           /\ Members(On') = Members(On) \ {item}
           /\ \A g, h : Behind(On', g, h) <=> Behind(On, g, h) /\ g # item /\ h # item
           /\ item' = NextOf(On, item) /\ prev' = prev /\ next' = NULL /\ called' = FALSE
           /\ freed' = {} /\ due' = due \ {item}
<1>1. /\ pc = "stanza" /\ called /\ Walking /\ item # NULL /\ freed = {}
  BY DEF StanzaDone, Walking, WalkInv, PointersInv
<1>2. /\ "stanza" \in Lists /\ On = lists["stanza"] /\ Walked = "stanza"
      /\ On \in Seq(Functions) /\ Unique(On)
  BY <1>1, OnIs DEF WalkInv
<1> DEFINE w == StanzaUnlinked(On)
<1>3. /\ item \in Members(On)
      /\ Members(w) = Members(On) \ {item}
      /\ \A g, h : Behind(w, g, h) <=> Behind(On, g, h) /\ g # item /\ h # item
      /\ Resume(w) = NextOf(On, item)
  BY <1>1, StanzaUnlinkedIs
<1>4. /\ lists' = [lists EXCEPT !["stanza"] = w] /\ Stay(Resume(w))
      /\ UNCHANGED <<pc, stanza>>
  BY <1>2 DEF StanzaDone
<1> HIDE DEF w
<1>5. lists \in [Lists -> Seq(Functions)] BY DEF WalkInv, TypeInv, TypeOK
<1>6. lists'["stanza"] = w BY <1>2, <1>4, <1>5
<1>7. Walked' = "stanza" /\ Walking' = Walking BY <1>2, <1>4, WalkStays
<1>8. On' = w BY <1>6, <1>7 DEF On
<1> QED BY <1>1, <1>2, <1>3, <1>4, <1>6, <1>7, <1>8 DEF Stay, MoveTo

LEMMA GapStanzaDone == ASSUME WalkInv, GapInv, StanzaDone PROVE GapInv'
<1>1. CASE Stop BY <1>1, GapOutside DEF Stop
<1>2. CASE ~Stop
  <2>1. /\ Walking /\ item # NULL /\ item \in Members(On) /\ Walked = "stanza"
        /\ On \in Seq(Functions) /\ Unique(On) /\ freed = {} /\ Walked' = "stanza"
        /\ Members(On') = Members(On) \ {item}
        /\ \A g, h : Behind(On', g, h) <=> Behind(On, g, h) /\ g # item /\ h # item
        /\ item' = NextOf(On, item) /\ prev' = prev /\ called' = FALSE
    BY <1>2, StanzaDoneIs
  <2>2. pc = "stanza" /\ doubtful' = doubtful BY <1>2 DEF StanzaDone
  <2>3. \A g : ~(Behind(On, item, g) /\ Behind(On, g, item')) BY <2>1, NoneBetween
  <2>4. ASSUME NEW g \in Members(On'), Behind(On', g, item'),
               prev = NULL \/ Behind(On', prev, g)
        PROVE  <<Walked, g>> \in doubtful'
    <3>1. g \in Members(On) /\ g # item /\ Behind(On, g, item')
          /\ (prev = NULL \/ Behind(On, prev, g))
      BY <2>1, <2>4
    <3>2. Behind(On, g, item) BY <2>1, <2>3, <3>1, OrderIs
    <3> QED BY <2>1, <2>2, <3>1, <3>2 DEF GapInv
  <2> QED BY <2>1, <2>4 DEF GapInv
<1> QED BY <1>1, <1>2

LEMMA GapNext == ASSUME WalkInv, GapInv, [Next]_vars PROVE GapInv'
<1>1. CASE UNCHANGED vars BY <1>1, GapRest DEF vars, store, walk
<1>2. ASSUME Authenticate PROVE GapInv' BY <1>2, GapRest DEF Authenticate, store, walk
<1>3. ASSUME StreamOpen PROVE GapInv' BY <1>3, GapRest DEF StreamOpen, walk
<1>4. ASSUME Connection PROVE GapInv' BY <1>4, GapRest DEF Connection, store, walk
<1>5. ASSUME Time PROVE GapInv' BY <1>5, GapRest DEF Time, walk
<1>6. ASSUME StanzaEnd \/ TimedStart \/ TimedEnd \/ Select PROVE GapInv'
  BY <1>6, GapOutside DEF StanzaEnd, TimedStart, TimedEnd, Select
<1>7. ASSUME TimedSkip \/ TimedWait \/ TimedCall \/ TimedReturn PROVE GapInv'
  <2>1. pc' \in {"timed1", "timed2", "undefined"}
    BY <1>7 DEF TimedSkip, TimedWait, TimedCall, TimedReturn, InTimed, Stop
  <2> QED BY <2>1, GapOutside
<1> QED
  BY <1>1, <1>2, <1>3, <1>4, <1>5, <1>6, <1>7, GapRegister, GapDelete, GapFire, GapIdSkip,
     GapIdCall, GapIdKeep, GapIdDone, GapStanzaStart, GapStanzaSkip, GapStanzaCall,
     GapStanzaKeep, GapStanzaDone
     DEF Next

\* All reachable states are of the types of the variables: what callbacks do to the lists
\* leaves items, lists, ages and delays in their ranges (handler.c).
THEOREM TypesHold == Spec => []TypeOK
<1>1. Init => WalkInv /\ GapInv
  <2>1. Init => WalkInv BY WalkInit
  <2>2. Init => GapInv BY DEF Init, GapInv
  <2> QED BY <2>1, <2>2
<1>2. WalkInv /\ GapInv /\ [Next]_vars => (WalkInv /\ GapInv)' BY WalkNext, GapNext
<1>3. WalkInv => TypeOK BY DEF WalkInv, TypeInv
<1> QED BY <1>1, <1>2, <1>3, PTL DEF Spec

-----------------------------------------------------------------------------
(* The books. *)

LEMMA IdDoneIs ==
    ASSUME WalkInv, GapInv, IdDone, ~Stop
    PROVE  /\ Walking /\ item # NULL /\ item \in Members(On) /\ Walked = stanza.id
           /\ stanza.id \in Lists /\ On \in Seq(Functions) /\ Unique(On)
           /\ On = lists[stanza.id] /\ On' = lists'[stanza.id] /\ Walked' = stanza.id
           /\ Walking' /\ freed = {} /\ lists' = [lists EXCEPT ![stanza.id] = On']
           /\ \A g : g \in Members(On') <=>
                  \/ prev # NULL /\ (g = prev \/ Behind(On, g, prev))
                  \/ next # NULL /\ (g = next \/ Behind(On, next, g))
           /\ \A g, h : Behind(On', g, h) <=>
                  g \in Members(On') /\ h \in Members(On') /\ Behind(On, g, h)
           /\ Members(On') \subseteq Members(On) \ {item}
           /\ item' = next /\ prev' = prev /\ next' = NULL /\ called' = FALSE
           /\ freed' = {} /\ due' = due \ {item}
<1>1. /\ pc = "id" /\ called /\ Walking /\ item # NULL /\ freed = {}
  BY DEF IdDone, Walking, WalkInv, PointersInv
<1>2. /\ Walked = stanza.id /\ stanza.id \in Lists /\ On = lists[stanza.id]
      /\ On \in Seq(Functions) /\ Unique(On)
  BY <1>1, OnIs DEF WalkInv
<1> DEFINE w == IdUnlinked(On)
<1>3. /\ item \in Members(On) /\ Members(w) \subseteq Members(On) \ {item}
      /\ \A g : g \in Members(w) <=>
             \/ prev # NULL /\ (g = prev \/ Behind(On, g, prev))
             \/ next # NULL /\ (g = next \/ Behind(On, next, g))
      /\ \A g, h : Behind(w, g, h) <=>
             g \in Members(w) /\ h \in Members(w) /\ Behind(On, g, h)
  BY <1>1, IdUnlinkedIs
<1>4. /\ lists' = [lists EXCEPT ![stanza.id] = w] /\ Stay(next)
      /\ UNCHANGED <<pc, stanza>>
  BY <1>2 DEF IdDone
<1> HIDE DEF w
<1>5. lists \in [Lists -> Seq(Functions)] BY DEF WalkInv, TypeInv, TypeOK
<1>6. lists'[stanza.id] = w BY <1>2, <1>4, <1>5
<1>7. Walked' = stanza.id /\ Walking' = Walking BY <1>2, <1>4, WalkStays
<1>8. On' = w BY <1>6, <1>7 DEF On
<1> QED BY <1>1, <1>2, <1>3, <1>4, <1>6, <1>7, <1>8 DEF Stay, MoveTo

LEMMA TimedReturnIs ==
    ASSUME WalkInv, TimedReturn, ~Stop
    PROVE  /\ Walking /\ item # NULL /\ item \in Members(On) /\ Walked = "timed"
           /\ On \in Seq(Functions) /\ Unique(On) /\ On = lists["timed"]
           /\ On' = lists'["timed"] /\ Walked' = "timed" /\ Walking' /\ "item" \notin freed
           /\ item' = NextOf(On, item) /\ called' = FALSE /\ due' = due \ {item}
           /\ freed' \subseteq {"prev"} /\ freed' \subseteq freed
           /\ \/ UNCHANGED store /\ On' = On
              \/ /\ lists' = [lists EXCEPT !["timed"] = On']
                 /\ registered' = [registered EXCEPT !["timed"] = @ \ {item}]
                 /\ enabled' = enabled \ {item} /\ UNCHANGED <<age, doubtful>>
                 /\ Members(On') = Members(On) \ {item}
                 /\ \A g, h : Behind(On', g, h) <=> Behind(On, g, h) /\ g # item /\ h # item
<1>1. Walking /\ item # NULL /\ "item" \notin freed
  BY DEF TimedReturn, WalkInv, PointersInv, InTimed, Walking
<1>2. /\ On = lists["timed"] /\ Walked = "timed" /\ "timed" \in Lists
      /\ On \in Seq(Functions) /\ Unique(On) /\ item \in Members(On)
  BY <1>1, TimedOn, OnIs DEF TimedReturn, WalkInv, PointersInv
<1>3. /\ item' = NextOf(On, item) /\ called' = FALSE /\ due' = due \ {item}
      /\ freed' = freed \cap {"prev"} /\ UNCHANGED <<pc, stanza>>
  BY <1>2 DEF TimedReturn, Stay, MoveTo
<1>4. Walked' = "timed" /\ Walking' = Walking BY <1>2, <1>3, WalkStays
<1>5. On' = lists'["timed"] BY <1>4 DEF On
<1>6. CASE UNCHANGED store
  <2>1. lists' = lists /\ On' = On BY <1>2, <1>5, <1>6 DEF store
  <2> QED BY <1>1, <1>2, <1>3, <1>4, <1>5, <1>6, <2>1
<1>7. CASE /\ lists' = [lists EXCEPT !["timed"] = Without(@, item)]
           /\ registered' = [registered EXCEPT !["timed"] = @ \ {item}]
           /\ enabled' = enabled \ {item}
           /\ UNCHANGED <<age, doubtful>>
  <2> DEFINE w == Without(On, item)
  <2>1. /\ Members(w) = Members(On) \ {item}
        /\ \A g, h : Behind(w, g, h) <=> Behind(On, g, h) /\ g # item /\ h # item
    BY <1>2, WithoutIs
  <2>2. lists' = [lists EXCEPT !["timed"] = w] BY <1>2, <1>7
  <2> HIDE DEF w
  <2>3. lists \in [Lists -> Seq(Functions)] BY DEF WalkInv, TypeInv, TypeOK
  <2>4. On' = w BY <1>2, <1>5, <2>2, <2>3
  <2>5. /\ lists' = [lists EXCEPT !["timed"] = On']
        /\ registered' = [registered EXCEPT !["timed"] = @ \ {item}]
        /\ enabled' = enabled \ {item} /\ UNCHANGED <<age, doubtful>>
        /\ Members(On') = Members(On) \ {item}
        /\ \A g, h : Behind(On', g, h) <=> Behind(On, g, h) /\ g # item /\ h # item
    BY <1>7, <2>1, <2>2, <2>4
  <2>6. freed' \subseteq {"prev"} /\ freed' \subseteq freed /\ Walking' BY <1>1, <1>3, <1>4
  <2> QED BY <1>1, <1>2, <1>3, <1>4, <1>5, <2>5, <2>6
<1> QED BY <1>6, <1>7 DEF TimedReturn

LEMMA AccountsRest ==
    ASSUME Accounts, UNCHANGED <<lists, registered>>, doubtful \subseteq doubtful',
           pc' = pc \/ pc # "undefined"
    PROVE  Accounts'
BY DEF Accounts

\* One list has lost an item, and what it has lost besides is doubtful.
LEMMA AccountsDone ==
    ASSUME WalkInv, Accounts, pc # "undefined", NEW l \in Lists, NEW f, NEW w,
           lists' = [lists EXCEPT ![l] = w], Members(w) \subseteq Members(lists[l]) \ {f},
           registered' = [registered EXCEPT ![l] = @ \ {f}],
           \A m \in Lists, g \in Functions :
               <<m, g>> \in doubtful /\ <<m, g>> # <<l, f>> => <<m, g>> \in doubtful',
           \A g \in Members(lists[l]) \ Members(w) : g = f \/ <<l, g>> \in doubtful'
    PROVE  Accounts'
<1>1. lists \in [Lists -> Seq(Functions)] /\ registered \in [Lists -> SUBSET Functions]
  BY DEF WalkInv, TypeInv, TypeOK
<1>2. /\ lists'[l] = w /\ registered'[l] = registered[l] \ {f}
      /\ \A m \in Lists \ {l} : lists'[m] = lists[m] /\ registered'[m] = registered[m]
  BY <1>1
<1>3. \A m \in Lists : /\ Members(lists[m]) \subseteq registered[m]
                       /\ \A g \in registered[m] \ Members(lists[m]) : <<m, g>> \in doubtful
  BY DEF Accounts
<1>4. Members(lists'[l]) \subseteq registered'[l] BY <1>2, <1>3
<1>5. ASSUME NEW g \in registered'[l] \ Members(w) PROVE <<l, g>> \in doubtful'
  <2>1. g \in registered[l] /\ g # f /\ g \in Functions BY <1>1, <1>2, <1>5
  <2>2. <<l, g>> # <<l, f>> BY <2>1
  <2>3. CASE g \in Members(lists[l]) BY <1>5, <2>1, <2>3
  <2>4. CASE g \notin Members(lists[l]) BY <1>3, <2>1, <2>2, <2>4
  <2> QED BY <2>3, <2>4
<1>6. ASSUME NEW m \in Lists \ {l}
      PROVE  /\ Members(lists'[m]) \subseteq registered'[m]
             /\ \A g \in registered'[m] \ Members(lists'[m]) : <<m, g>> \in doubtful'
  <2>1. Members(lists'[m]) \subseteq registered'[m] BY <1>2, <1>3, <1>6
  <2>2. ASSUME NEW g \in registered'[m] \ Members(lists'[m]) PROVE <<m, g>> \in doubtful'
    <3>1. <<m, g>> \in doubtful /\ g \in Functions BY <1>1, <1>2, <1>3, <2>2
    <3> QED BY <3>1
  <2> QED BY <2>1, <2>2
<1> QED BY <1>2, <1>4, <1>5, <1>6 DEF Accounts

LEMMA AccountsRegister == ASSUME WalkInv, Accounts, Register PROVE Accounts'
<1>1. PICK l \in Lists : \E f \in Of(l) : Added(l, f) BY AddIs DEF WalkInv
<1>2. PICK f \in Of(l) : Added(l, f) BY <1>1
<1>3. pc' = pc BY DEF Register
<1> DEFINE w == Append(lists[l], f)
<1>4. /\ Members(w) = Members(lists[l]) \cup {f}
      /\ lists' = [lists EXCEPT ![l] = w]
      /\ registered' = [registered EXCEPT ![l] = registered[l] \cup {f}]
  BY <1>2, ListIs, AppendIs DEF WalkInv, Added
<1> HIDE DEF w
<1>5. /\ lists'[l] = w /\ registered'[l] = registered[l] \cup {f}
      /\ \A m \in Lists \ {l} : lists'[m] = lists[m] /\ registered'[m] = registered[m]
  BY <1>4 DEF WalkInv, TypeInv, TypeOK
<1>6. \A d : d \in doubtful /\ d # <<l, f>> => d \in doubtful' BY <1>2 DEF Added
<1>7. \A m \in Lists : \A g : <<m, g>> \in doubtful /\ (m # l \/ g # f) => <<m, g>> \in doubtful'
  BY <1>6
<1> QED BY <1>3, <1>4, <1>5, <1>7 DEF Accounts

LEMMA AccountsDelete == ASSUME WalkInv, Accounts, Delete PROVE Accounts'
<1>1. PICK l \in Lists : \E f \in Of(l) : Dropped(l, f) BY DropIs DEF WalkInv
<1>2. PICK f \in Of(l) : Dropped(l, f) BY <1>1
<1>3. pc' = pc BY DEF Delete
<1>4. CASE pc = "undefined" BY <1>3, <1>4 DEF Accounts
<1>5. CASE pc # "undefined"
  <2> DEFINE w == lists'[l]
  <2>1. /\ registered' = [registered EXCEPT ![l] = registered[l] \ {f}]
        /\ doubtful' = doubtful \ {<<l, f>>}
    BY <1>2 DEF Dropped
  <2>2. lists \in [Lists -> Seq(Functions)] BY DEF WalkInv, TypeInv, TypeOK
  <2>3. lists' = [lists EXCEPT ![l] = w] /\ Members(w) = Members(lists[l]) \ {f}
    <3>1. CASE Remove(l, f)
      <4>1. lists' = [lists EXCEPT ![l] = Without(lists[l], f)] /\ f \in Members(lists[l])
        BY <3>1 DEF Remove
      <4>2. w = Without(lists[l], f) BY <2>2, <4>1
      <4> QED BY <4>1, <4>2, ListIs, WithoutIs DEF WalkInv
    <3>2. CASE f \notin Members(lists[l]) /\ UNCHANGED lists
      <4>1. w = lists[l] /\ [lists EXCEPT ![l] = lists[l]] = lists BY <2>2, <3>2
      <4> QED BY <3>2, <4>1
    <3> QED BY <1>2, <3>1, <3>2 DEF Dropped
  <2>4. \A m \in Lists, g \in Functions :
            <<m, g>> \in doubtful /\ <<m, g>> # <<l, f>> => <<m, g>> \in doubtful'
    BY <2>1
  <2>5. \A g \in Members(lists[l]) \ Members(w) : g = f \/ <<l, g>> \in doubtful' BY <2>3
  <2>6. Members(w) \subseteq Members(lists[l]) \ {f} BY <2>3
  <2> HIDE DEF w
  <2> QED BY <1>5, <2>1, <2>3, <2>4, <2>5, <2>6, AccountsDone
<1> QED BY <1>4, <1>5

LEMMA AccountsIdDone == ASSUME WalkInv, GapInv, Accounts, IdDone PROVE Accounts'
<1>1. CASE Stop BY <1>1 DEF Accounts, Stop
<1>2. CASE ~Stop
  <2>1. /\ Walking /\ item # NULL /\ item \in Members(On) /\ Walked = stanza.id
        /\ stanza.id \in Lists /\ On \in Seq(Functions) /\ Unique(On)
        /\ On = lists[stanza.id] /\ freed = {} /\ lists' = [lists EXCEPT ![stanza.id] = On']
        /\ \A g : g \in Members(On') <=>
               \/ prev # NULL /\ (g = prev \/ Behind(On, g, prev))
               \/ next # NULL /\ (g = next \/ Behind(On, next, g))
        /\ Members(On') \subseteq Members(On) \ {item}
    BY <1>2, IdDoneIs
  <2>2. /\ pc = "id" /\ called
        /\ registered' = [registered EXCEPT ![stanza.id] = @ \ {item}]
        /\ doubtful' = doubtful \ {<<stanza.id, item>>}
    BY <1>2 DEF IdDone
  <2>3. \A m \in Lists, g \in Functions :
            <<m, g>> \in doubtful /\ <<m, g>> # <<stanza.id, item>> => <<m, g>> \in doubtful'
    BY <2>2
  <2>4. ASSUME NEW g \in Members(On) \ Members(On'), g # item
        PROVE  <<stanza.id, g>> \in doubtful'
    <3>1. Behind(On, g, item) \/ Behind(On, item, g) BY <2>1, <2>4, OrderIs
    <3>2. prev # NULL => prev \in Members(On) /\ Behind(On, prev, item)
      BY <2>1 DEF WalkInv, PointersInv
    <3>3. next # NULL => next \in Members(On) /\ Behind(On, item, next)
      BY <2>1 DEF WalkInv, PointersInv
    <3>4. prev = NULL \/ Behind(On, prev, g) BY <2>1, <2>4, <3>2, OrderIs
    <3>5. next = NULL \/ Behind(On, g, next) BY <2>1, <2>4, <3>3, OrderIs
    <3>6. <<stanza.id, g>> \in doubtful
      BY <2>1, <2>2, <3>1, <3>4, <3>5 DEF GapInv
    <3>7. <<stanza.id, g>> # <<stanza.id, item>> BY <2>4
    <3> QED BY <2>2, <3>6, <3>7
  <2> DEFINE w == On'
             f == item
             l == stanza.id
  <2>5. /\ lists' = [lists EXCEPT ![l] = w] /\ Members(w) \subseteq Members(lists[l]) \ {f}
        /\ registered' = [registered EXCEPT ![l] = @ \ {f}]
        /\ \A m \in Lists, g \in Functions :
               <<m, g>> \in doubtful /\ <<m, g>> # <<l, f>> => <<m, g>> \in doubtful'
        /\ \A g \in Members(lists[l]) \ Members(w) : g = f \/ <<l, g>> \in doubtful'
        /\ l \in Lists /\ pc # "undefined"
    BY <2>1, <2>2, <2>3, <2>4
  <2> HIDE DEF w, f, l
  <2> QED BY <2>5, AccountsDone
<1> QED BY <1>1, <1>2

LEMMA AccountsStanzaStart == ASSUME WalkInv, Accounts, StanzaStart PROVE Accounts'
<1>1. /\ UNCHANGED <<lists, registered>> /\ pc # "undefined"
      /\ doubtful' = {d \in doubtful : d[2] \notin Members(lists[d[1]])}
  BY DEF StanzaStart
<1>2. \A l, f : <<l, f>>[1] = l /\ <<l, f>>[2] = f OBVIOUS
<1>3. \A l, f : <<l, f>> \in doubtful /\ f \notin Members(lists[l]) => <<l, f>> \in doubtful'
  BY <1>1, <1>2
<1> QED BY <1>1, <1>3 DEF Accounts

LEMMA AccountsStanzaDone == ASSUME WalkInv, GapInv, Accounts, StanzaDone PROVE Accounts'
<1>1. CASE Stop BY <1>1 DEF Accounts, Stop
<1>2. CASE ~Stop
  <2> DEFINE w == On'
             f == item
             l == "stanza"
  <2>1. /\ lists' = [lists EXCEPT ![l] = w] /\ Members(w) = Members(lists[l]) \ {f}
    BY <1>2, StanzaDoneIs
  <2>2. /\ registered' = [registered EXCEPT ![l] = @ \ {f}]
        /\ doubtful' = doubtful /\ pc # "undefined" /\ l \in Lists
    BY <1>2, ConstantsIs DEF StanzaDone
  <2> HIDE DEF w, f, l
  <2> QED BY <2>1, <2>2, AccountsDone
<1> QED BY <1>1, <1>2

LEMMA AccountsTimedReturn == ASSUME WalkInv, Accounts, TimedReturn PROVE Accounts'
<1>1. CASE Stop BY <1>1 DEF Accounts, Stop
<1>2. CASE ~Stop
  <2>1. pc # "undefined" BY DEF TimedReturn, InTimed
  <2>2. CASE UNCHANGED store BY <2>1, <2>2, AccountsRest DEF store
  <2>3. CASE ~UNCHANGED store
    <3> DEFINE w == On'
               f == item
               l == "timed"
    <3>1. /\ lists' = [lists EXCEPT ![l] = w] /\ Members(w) = Members(lists[l]) \ {f}
          /\ registered' = [registered EXCEPT ![l] = @ \ {f}]
          /\ doubtful' = doubtful /\ l \in Lists
      BY <1>2, <2>3, TimedReturnIs, ConstantsIs
    <3> HIDE DEF w, f, l
    <3> QED BY <2>1, <3>1, AccountsDone
  <2> QED BY <2>2, <2>3
<1> QED BY <1>1, <1>2

LEMMA AccountsNext == ASSUME WalkInv, GapInv, Accounts, [Next]_vars PROVE Accounts'
<1>1. CASE UNCHANGED vars BY <1>1, AccountsRest DEF vars, store
<1>2. ASSUME Authenticate \/ StreamOpen \/ Connection \/ Time \/ Select PROVE Accounts'
  BY <1>2, AccountsRest DEF Authenticate, StreamOpen, Connection, Time, Select, store
<1>3. ASSUME \E s \in Stanzas : handler_fire_stanza(s) PROVE Accounts'
  BY <1>3, AccountsRest DEF handler_fire_stanza, store
<1>4. ASSUME IdSkip \/ IdCall PROVE Accounts'
  BY <1>4, AccountsRest DEF IdSkip, IdCall, store
<1>5. ASSUME IdKeep \/ StanzaKeep PROVE Accounts'
  <2>1. UNCHANGED store /\ pc # "undefined"
    BY <1>5 DEF IdKeep, StanzaKeep, Stop
  <2> QED BY <2>1, AccountsRest DEF store
<1>6. ASSUME StanzaSkip \/ StanzaCall \/ StanzaEnd PROVE Accounts'
  BY <1>6, AccountsRest DEF StanzaSkip, StanzaCall, StanzaEnd, store
<1>7. ASSUME TimedStart PROVE Accounts'
  BY <1>7, AccountsRest DEF TimedStart
<1>8. ASSUME TimedSkip \/ TimedWait \/ TimedCall \/ TimedEnd PROVE Accounts'
  BY <1>8, AccountsRest DEF TimedSkip, TimedWait, TimedCall, TimedEnd, InTimed, store
<1> QED
  BY <1>1, <1>2, <1>3, <1>4, <1>5, <1>6, <1>7, <1>8, AccountsRegister, AccountsDelete,
     AccountsIdDone, AccountsStanzaStart, AccountsStanzaDone, AccountsTimedReturn
     DEF Next

\* Whatever callbacks add and delete, and whichever way the walks unlink what is done, the
\* lists hold without doubles what was added and neither deleted nor done, but for
\* handlers of an id that were added or passed over during a walk of its chain
\* (handler.c:42-130, 139-196, 217-470).
THEOREM HandlersKept == Spec => []NothingLost
<1>1. Init => WalkInv /\ GapInv /\ Accounts
  <2>1. Init => WalkInv BY WalkInit
  <2>2. Init => GapInv BY DEF Init, GapInv
  <2>3. Members(<<>>) = {} BY DEF Members
  <2>4. Init => Accounts BY <2>3 DEF Init, Accounts
  <2> QED BY <2>1, <2>2, <2>4
<1>2. WalkInv /\ GapInv /\ Accounts /\ [Next]_vars => (WalkInv /\ GapInv /\ Accounts)'
  BY WalkNext, GapNext, AccountsNext
<1>3. WalkInv /\ Accounts => NothingLost
  BY DEF WalkInv, ListsInv, Unique, Accounts, NothingLost
<1> QED BY <1>1, <1>2, <1>3, PTL DEF Spec

-----------------------------------------------------------------------------
(* Nothing dangles. *)

\* What is in front of an item, and the item.
LEMMA UpToIs ==
    ASSUME NEW s \in Seq(Functions), Unique(s), NEW f \in Members(s)
    PROVE  Members(UpTo(s, f)) = {g \in Members(s) : g = f \/ Behind(s, g, f)}
<1>1. f # NULL /\ NULL \notin Members(s) BY NullIs DEF Members
<1>2. UpTo(s, f) \in Seq(Functions)
  <2>1. Place(s, f) \in 1 .. Len(s) BY PlaceIs
  <2>2. \A i \in 1 .. Place(s, f) : s[i] \in Functions BY <2>1
  <2>3. SubSeq(s, 1, Place(s, f)) \in Seq(Functions) BY <2>1, <2>2, SubSeqProperties
  <2> QED BY <1>1, <2>3 DEF UpTo
<1>3. UpTo(s, f) \o From(s, NULL) = UpTo(s, f) BY <1>2, ConcatEmptySeq DEF From
<1>4. \A g : g \in Members(UpTo(s, f) \o From(s, NULL)) <=> g = f \/ Behind(s, g, f)
  BY <1>1, LinkedIs
<1> QED BY <1>3, <1>4, OrderIs

LEMMA SafeRest ==
    ASSUME SafeInv, UNCHANGED <<lists, item, next, called, freed, broken, pc, stanza>>
    PROVE  SafeInv'
<1>1. Walking' = Walking /\ On' = On BY WalkStays DEF On
<1> QED BY <1>1 DEF SafeInv

LEMMA SafeOutside == ASSUME ~Walking', pc' # "undefined" PROVE SafeInv'
BY DEF SafeInv

\* No walk stops that has not been broken.
LEMMA SafeStop ==
    ASSUME SafeInv, Walking, freed # {}, Stop
    PROVE  SafeInv'
BY DEF SafeInv, Stop, walk, Walking

\* No item is in a callback.
LEMMA SafeBetween ==
    ASSUME SafeInv, Walking, freed' = {} \/ (freed' \subseteq freed /\ broken' = broken),
           ~called', pc' # "undefined"
    PROVE  SafeInv'
BY DEF SafeInv

LEMMA SafeRegister == ASSUME WalkInv, SafeInv, Register PROVE SafeInv'
<1>1. PICK l \in Lists : \E f \in Of(l) : Added(l, f) BY AddIs DEF WalkInv
<1>2. PICK f \in Of(l) : Added(l, f) BY <1>1
<1>3. UNCHANGED <<item, prev, next, called, freed, broken, pc, stanza>> BY DEF Register, walk
<1>4. Walked' = Walked /\ Walking' = Walking BY <1>3, WalkStays
<1>5. CASE Walking /\ item # NULL /\ ~broken /\ called /\ pc = "id" /\ next # NULL
  <2>1. On \in Seq(Functions) /\ Unique(On) BY <1>5, OnIs DEF WalkInv
  <2>2. freed = {} /\ next \in Members(On) BY <1>5 DEF SafeInv, WalkInv, PointersInv
  <2>3. \/ On' = On
        \/ /\ f \notin Members(On)
           /\ \A g, h : Behind(On', g, h) <=>
                  Behind(On, g, h) \/ (g \in Members(On) /\ h = f)
    BY <1>2, <1>3, <1>5, OnGrows DEF WalkInv, Added
  <2>4. \A g : ~(Behind(On, item, g) /\ Behind(On, g, next))
    BY <1>5, <2>1, OrderIs DEF SafeInv
  <2>5. \A g : Behind(On', g, next) => Behind(On, g, next) BY <2>2, <2>3
  <2>6. \A g : Behind(On, g, next) => g \in Members(On) BY <2>1, OrderIs
  <2>7. \A g : ~(Behind(On', item, g) /\ Behind(On', g, next)) BY <2>3, <2>4, <2>5, <2>6
  <2> QED BY <1>3, <1>4, <1>5, <2>2, <2>7 DEF SafeInv
<1>6. CASE ~(Walking /\ item # NULL /\ ~broken /\ called /\ pc = "id" /\ next # NULL)
  BY <1>3, <1>4, <1>6 DEF SafeInv, WalkInv, PointersInv
<1> QED BY <1>5, <1>6

LEMMA SafeDelete == ASSUME WalkInv, SafeInv, Delete PROVE SafeInv'
<1>1. PICK l \in Lists : \E f \in Of(l) : Dropped(l, f) BY DropIs DEF WalkInv
<1>2. PICK f \in Of(l) : Dropped(l, f) BY <1>1
<1>3. UNCHANGED <<item, prev, next, called, pc, stanza>> BY DEF Delete
<1>4. Walked' = Walked /\ Walking' = Walking BY <1>3, WalkStays
<1>5. CASE UNCHANGED <<lists, freed, broken>> BY <1>3, <1>5, SafeRest
<1>6. CASE Remove(l, f)
  <2>1. /\ f \in Members(lists[l])
        /\ freed' = freed \cup Dangling(l, f)
        /\ broken' = (broken \/ f \in Forbidden(l))
    BY <1>6 DEF Remove
  <2>2. CASE ~Walking BY <1>3, <1>4, <2>1, <2>2 DEF SafeInv, WalkInv, TypeInv, TypeOK
  <2>3. CASE Walking
    <3>1. called /\ item # NULL
      BY <2>3 DEF Delete, Running, Walking, WalkInv, PointersInv
    <3>2. /\ Walked \in Lists /\ On = lists[Walked] /\ On \in Seq(Functions) /\ Unique(On)
          /\ NULL \notin Members(On) /\ (pc = "id" => Walked \in Ids)
      BY <2>3, <3>1, OnIs DEF WalkInv
    <3>3. broken \in BOOLEAN BY DEF WalkInv, TypeInv, TypeOK
    <3>4. SUFFICES ASSUME ~broken, f \notin Forbidden(l)
                   PROVE  /\ freed' = {}
                          /\ pc = "id" /\ called /\ next # NULL =>
                                \A g \in Members(On') :
                                    ~(Behind(On', item, g) /\ Behind(On', g, next))
      BY <1>3, <1>4, <2>1, <2>3, <3>3 DEF SafeInv, Walking
    <3>5. /\ freed = {}
          /\ pc = "id" /\ next # NULL =>
                \A g \in Members(On) : ~(Behind(On, item, g) /\ Behind(On, g, next))
      BY <2>3, <3>1, <3>4 DEF SafeInv
    <3>6. /\ item \in Members(On)
          /\ prev # NULL => prev \in Members(On) /\ Behind(On, prev, item)
          /\ next # NULL => pc = "id" /\ next \in Members(On) /\ Behind(On, item, next)
      BY <2>3, <3>1, <3>5 DEF WalkInv, PointersInv
    <3>7. Dangling(l, f) = {}
      <4>1. CASE Walked # l BY <4>1 DEF Dangling
      <4>2. CASE Walked = l
        <5>1. f # NULL BY <2>1, <3>2, <4>2
        <5>2. f \notin Members(UpTo(On, item)) /\ (pc = "id" => f # NextOf(On, item))
          BY <3>2, <3>4, <3>6, <4>2 DEF Forbidden
        <5>3. f # item /\ f # prev BY <3>2, <3>6, <5>1, <5>2, UpToIs
        <5>4. f # next
          <6>1. CASE next = NULL BY <5>1, <6>1
          <6>2. CASE next # NULL
            <7>1. next = NextOf(On, item)
              <8>1. \A g : Behind(On, item, g) =>
                        /\ NextOf(On, item) \in Members(On) /\ Behind(On, item, NextOf(On, item))
                        /\ g = NextOf(On, item) \/ Behind(On, NextOf(On, item), g)
                BY <3>2, <3>6, NextIs
              <8> QED BY <3>5, <3>6, <6>2, <8>1
            <7> QED BY <3>6, <5>2, <6>2, <7>1
          <6> QED BY <6>1, <6>2
        <5> QED BY <5>3, <5>4 DEF Dangling
      <4> QED BY <4>1, <4>2
    <3>8. /\ Members(On') \subseteq Members(On)
          /\ \A g, h : Behind(On', g, h) => Behind(On, g, h)
      BY <1>3, <1>6, <2>3, <3>1, OnShrinks DEF WalkInv, Remove
    <3> QED BY <2>1, <3>5, <3>7, <3>8
  <2> QED BY <2>2, <2>3
<1> QED BY <1>2, <1>5, <1>6 DEF Dropped

LEMMA SafeIdCall == ASSUME WalkInv, SafeInv, IdCall PROVE SafeInv'
<1>1. pc = "id" /\ item # NULL /\ Walking /\ "item" \notin freed
  BY DEF IdCall, Walking, WalkInv, PointersInv
<1>2. On = lists[stanza.id] /\ On \in Seq(Functions) /\ Unique(On) /\ item \in Members(On)
  BY <1>1, OnIs DEF WalkInv, PointersInv
<1>3. UNCHANGED <<lists, item, freed, broken, pc, stanza>> /\ next' = NextOf(On, item)
  BY <1>2 DEF IdCall, Call, store
<1>4. On' = On /\ Walking' = Walking BY <1>3, WalkStays DEF On
<1>5. \A g : ~(Behind(On, item, g) /\ Behind(On, g, next')) BY <1>2, <1>3, NoneBetween
<1> QED BY <1>1, <1>3, <1>4, <1>5 DEF SafeInv

LEMMA SafeNext == ASSUME WalkInv, GapInv, SafeInv, [Next]_vars PROVE SafeInv'
<1>1. CASE UNCHANGED vars BY <1>1, SafeRest DEF vars, store, walk
<1>2. ASSUME Authenticate \/ StreamOpen \/ Connection \/ Time PROVE SafeInv'
  BY <1>2, SafeRest DEF Authenticate, StreamOpen, Connection, Time, store, walk
<1>3. ASSUME StanzaEnd \/ TimedEnd \/ Select PROVE SafeInv'
  <2>1. pc' \in {"events", "select", "user"} BY <1>3 DEF StanzaEnd, TimedEnd, Select
  <2> QED BY <2>1, SafeOutside DEF Walking
<1>4. ASSUME (\E s \in Stanzas : handler_fire_stanza(s)) \/ TimedStart \/ StanzaStart
      PROVE  SafeInv'
  <2>1. freed' = {} /\ ~called' /\ pc' # "undefined"
    BY <1>4 DEF handler_fire_stanza, TimedStart, StanzaStart, StartWalk
  <2> QED BY <2>1 DEF SafeInv
<1>5. ASSUME IdSkip \/ StanzaSkip \/ TimedSkip \/ TimedWait PROVE SafeInv'
  <2>1. /\ Walking /\ ~called' /\ pc' # "undefined" /\ broken' = broken
        /\ freed' = {} \/ freed' \subseteq freed
    BY <1>5 DEF IdSkip, StanzaSkip, TimedSkip, TimedWait, InTimed, Walking, Stay, Forward,
         MoveTo, WalkInv, PointersInv
  <2> QED BY <2>1, SafeBetween
<1>6. ASSUME StanzaCall \/ TimedCall PROVE SafeInv'
  <2>1. /\ pc \in {"stanza", "timed1", "timed2"} /\ UNCHANGED <<freed, broken, pc>>
    BY <1>6 DEF StanzaCall, TimedCall, InTimed
  <2> QED BY <2>1 DEF SafeInv, Walking
<1>7. ASSUME IdKeep \/ IdDone \/ StanzaKeep \/ StanzaDone \/ TimedReturn PROVE SafeInv'
  <2>1. Walking
    BY <1>7 DEF IdKeep, IdDone, StanzaKeep, StanzaDone, TimedReturn, InTimed, Walking
  <2>2. CASE Stop
    <3>1. freed # {}
      BY <1>7, <2>2 DEF IdKeep, IdDone, StanzaKeep, StanzaDone, TimedReturn, InTimed, Stop
    <3> QED BY <2>1, <2>2, <3>1, SafeStop
  <2>3. CASE ~Stop
    <3>1. /\ ~called' /\ pc' = pc /\ broken' = broken
          /\ freed = {} => freed' = {}
      BY <1>7, <2>3 DEF IdKeep, IdDone, StanzaKeep, StanzaDone, TimedReturn, Stay, Forward,
           MoveTo
    <3> QED BY <2>1, <3>1 DEF SafeInv, Walking
  <2> QED BY <2>2, <2>3
<1> QED
  BY <1>1, <1>2, <1>3, <1>4, <1>5, <1>6, <1>7, SafeRegister, SafeDelete, SafeIdCall DEF Next

\* A walk uses a freed item only if a callback has deleted, from the list it was called
\* from, itself or what is in front of it, or for an id the next one (handler.c:54, 61-72,
\* 107-127, 180-187).
THEOREM DeletionsSafe == Spec => []SafeDeletions
<1>1. Init => WalkInv /\ GapInv /\ SafeInv
  <2>1. Init => WalkInv BY WalkInit
  <2>2. Init => GapInv BY DEF Init, GapInv
  <2>3. Init => SafeInv BY DEF Init, SafeInv, Walking
  <2> QED BY <2>1, <2>2, <2>3
<1>2. WalkInv /\ GapInv /\ SafeInv /\ [Next]_vars => (WalkInv /\ GapInv /\ SafeInv)'
  BY WalkNext, GapNext, SafeNext
<1>3. SafeInv => SafeDeletions BY DEF SafeInv, SafeDeletions
<1> QED BY <1>1, <1>2, <1>3, PTL DEF Spec

-----------------------------------------------------------------------------
(* What is due. *)

LEMMA DueRest ==
    ASSUME DueInv, UNCHANGED <<lists, item, next, called, freed, due, pc, stanza>>
    PROVE  DueInv'
<1>1. Walking' = Walking /\ On' = On BY WalkStays DEF On
<1> QED BY <1>1 DEF DueInv, AtOr

LEMMA DueOutside == ASSUME ~Walking' PROVE DueInv'
BY DEF DueInv

LEMMA DueBetween ==
    ASSUME ~called', \A f \in due' : item' # NULL /\ (f = item' \/ Behind(On', item', f))
    PROVE  DueInv'
BY DEF DueInv, AtOr

LEMMA DueRegister == ASSUME WalkInv, DueInv, Register PROVE DueInv'
<1>1. PICK l \in Lists : \E f \in Of(l) : Added(l, f) BY AddIs DEF WalkInv
<1>2. PICK f \in Of(l) : Added(l, f) BY <1>1
<1>3. UNCHANGED <<item, next, called, freed, due, pc, stanza>> BY DEF Register, walk
<1>4. Walking' = Walking BY <1>3, WalkStays
<1>5. CASE Walking /\ item # NULL
  <2>1. \A g, h : Behind(On, g, h) => Behind(On', g, h)
    BY <1>2, <1>3, <1>5, OnGrows DEF WalkInv, Added
  <2> QED BY <1>3, <1>4, <1>5, <2>1 DEF DueInv, AtOr
<1>6. CASE ~(Walking /\ item # NULL)
  BY <1>3, <1>4, <1>6 DEF DueInv, WalkInv, PointersInv
<1> QED BY <1>5, <1>6

LEMMA DueDelete == ASSUME WalkInv, DueInv, Delete PROVE DueInv'
<1>1. PICK l \in Lists : \E f \in Of(l) : Dropped(l, f) BY DropIs DEF WalkInv
<1>2. PICK f \in Of(l) : Dropped(l, f) BY <1>1
<1>3. UNCHANGED <<item, prev, next, called, pc, stanza>> BY DEF Delete
<1>4. Walked' = Walked /\ Walking' = Walking BY <1>3, WalkStays
<1>5. CASE UNCHANGED <<lists, freed, due>> BY <1>3, <1>5, DueRest
<1>6. CASE Remove(l, f)
  <2>1. CASE ~Walking BY <1>4, <2>1, DueOutside
  <2>2. CASE Walking
    <3>1. called /\ item # NULL
      BY <2>2 DEF Delete, Running, Walking, WalkInv, PointersInv
    <3>2. /\ freed \subseteq freed' /\ due' \subseteq due
          /\ Walked = l => f \notin due'
          /\ Walked = l /\ item = f => "item" \in freed'
          /\ Walked = l /\ next = f => "next" \in freed'
      BY <1>6 DEF Remove, Dangling
    <3>3. IF Walked = l
          THEN \A g, h : Behind(On', g, h) <=> Behind(On, g, h) /\ g # f /\ h # f
          ELSE On' = On
      BY <1>3, <1>6, <2>2, <3>1, OnShrinks DEF WalkInv, Remove
    <3> QED BY <1>3, <1>4, <2>2, <3>1, <3>2, <3>3 DEF DueInv, AtOr
  <2> QED BY <2>1, <2>2
<1> QED BY <1>2, <1>5, <1>6 DEF Dropped

\* In the beginning what is due is on the list.
LEMMA DueStarts ==
    ASSUME WalkInv, NEW s, NEW wanted, StartWalk(s, wanted), UNCHANGED lists,
           s = <<>> \/ (Walked' \in Lists /\ s = lists[Walked'])
    PROVE  DueInv'
<1>1. item' = First(s) /\ called' = FALSE /\ due' \subseteq Members(s) BY DEF StartWalk
<1>2. s = <<>> => First(s) = NULL /\ Members(s) = {} BY DEF First, Members
<1>3. CASE s = <<>> BY <1>1, <1>2, <1>3 DEF DueInv
<1>4. CASE s # <<>>
  <2>1. s \in Seq(Functions) /\ Unique(s) /\ NULL \notin Members(s)
    BY <1>4, ListIs DEF WalkInv
  <2>2. On' = s BY <1>4 DEF On
  <2>3. \/ First(s) = NULL /\ Members(s) = {}
        \/ /\ First(s) \in Members(s)
           /\ \A f \in Members(s) : f = First(s) \/ Behind(s, First(s), f)
    BY <2>1, FirstIs
  <2>4. \A f \in due' : item' # NULL /\ (f = item' \/ Behind(On', item', f))
    BY <1>1, <2>1, <2>2, <2>3
  <2> QED BY <1>1, <2>4, DueBetween
<1> QED BY <1>3, <1>4

LEMMA DueFire ==
    ASSUME WalkInv, NEW s \in Stanzas, handler_fire_stanza(s)
    PROVE  DueInv'
<1>1. pc' = "id" /\ stanza' = s /\ UNCHANGED lists
      /\ StartWalk(IF s.id = NULL THEN <<>> ELSE lists[s.id], IdHandlers)
  BY DEF handler_fire_stanza, store
<1>2. Walked' = s.id BY <1>1 DEF Walked
<1> DEFINE list == IF s.id = NULL THEN <<>> ELSE lists[s.id]
<1>3. list = <<>> \/ (Walked' \in Lists /\ list = lists[Walked'])
  BY <1>2, HandlersAssumption, ConstantsIs
<1>4. StartWalk(list, IdHandlers) BY <1>1
<1> HIDE DEF list
<1> QED BY <1>1, <1>3, <1>4, DueStarts

LEMMA DueStanzaStart == ASSUME WalkInv, StanzaStart PROVE DueInv'
<1> DEFINE wanted == {f \in StanzaHandlers : Matches(f, stanza)}
<1>1. pc' = "stanza" /\ StartWalk(lists["stanza"], wanted) /\ UNCHANGED lists
  BY DEF StanzaStart
<1> HIDE DEF wanted
<1>2. Walked' = "stanza" /\ "stanza" \in Lists BY <1>1, ConstantsIs DEF Walked
<1> QED BY <1>1, <1>2, DueStarts

LEMMA DueTimedStart == ASSUME WalkInv, TimedStart PROVE DueInv'
<1> DEFINE wanted == {f \in TimedHandlers : age[f] >= Period[f]}
           list   == IF connected THEN lists["timed"] ELSE <<>>
<1>1. pc' \in {"timed1", "timed2"} /\ StartWalk(list, wanted) /\ UNCHANGED lists
  BY DEF TimedStart
<1> HIDE DEF wanted
<1>2. Walked' = "timed" /\ "timed" \in Lists BY <1>1, ConstantsIs DEF Walked
<1>3. list = <<>> \/ list = lists["timed"] OBVIOUS
<1> HIDE DEF list
<1> QED BY <1>1, <1>2, <1>3, DueStarts

\* What is due behind an item is not in front of its successor.
LEMMA DueBehind ==
    ASSUME WalkInv, DueInv, Walking, item # NULL, "item" \notin freed,
           ~called \/ pc # "id"
    PROVE  /\ \A f \in due \ {item} : Behind(On, item, f)
           /\ \A f \in due \ {item} :
                  /\ NextOf(On, item) # NULL
                  /\ f = NextOf(On, item) \/ Behind(On, NextOf(On, item), f)
<1>1. On \in Seq(Functions) /\ Unique(On) /\ item \in Members(On) /\ NULL \notin Members(On)
  BY OnIs DEF WalkInv, PointersInv
<1>2. \A f \in due \ {item} : Behind(On, item, f)
  <2>1. called \in BOOLEAN BY DEF WalkInv, TypeInv, TypeOK
  <2> QED BY <2>1 DEF DueInv, AtOr
<1> QED BY <1>1, <1>2, NextIs

LEMMA DueAdvances ==
    ASSUME WalkInv, DueInv, Walking, item # NULL, "item" \notin freed,
           ~called \/ pc # "id",
           item' = NextOf(On, item), called' = FALSE, due' = due \ {item},
           UNCHANGED <<lists, pc, stanza>>
    PROVE  DueInv'
<1>1. On' = On BY WalkStays DEF On
<1>2. \A f \in due' : item' # NULL /\ (f = item' \/ Behind(On', item', f))
  BY <1>1, DueBehind
<1> QED BY <1>2, DueBetween

LEMMA DueCalls ==
    ASSUME WalkInv, DueInv, Walking, item # NULL, ~called, NEW n, Call(n),
           pc = "id" => n = NextOf(On, item),
           UNCHANGED <<lists, item, pc, stanza>>
    PROVE  DueInv'
<1>1. On' = On BY WalkStays DEF On
<1>2. "item" \notin freed BY DEF WalkInv, PointersInv
<1>3. next' = n /\ due' = due \ {item} /\ called' BY DEF Call
<1>4. /\ \A f \in due' : Behind(On, item, f)
      /\ \A f \in due' : /\ NextOf(On, item) # NULL
                         /\ f = NextOf(On, item) \/ Behind(On, NextOf(On, item), f)
  BY <1>2, <1>3, DueBehind
<1> QED BY <1>1, <1>3, <1>4 DEF DueInv, AtOr

LEMMA DueIdKeep == ASSUME WalkInv, DueInv, IdKeep PROVE DueInv'
<1>1. CASE Stop BY <1>1, DueOutside DEF Stop, Walking
<1>2. CASE "next" \notin freed /\ Forward(next) /\ UNCHANGED <<store, pc, stanza, min>>
  <2>1. pc = "id" /\ called /\ Walking BY DEF IdKeep, Walking
  <2>2. item' = next /\ called' = FALSE /\ due' = due \ {item}
    BY <1>2 DEF Forward, MoveTo
  <2>3. On' = On BY <1>2, WalkStays DEF On, store
  <2>4. \A f \in due : next # NULL /\ AtOr(next, f) BY <1>2, <2>1 DEF DueInv
  <2> QED BY <2>2, <2>3, <2>4 DEF DueInv, AtOr
<1> QED BY <1>1, <1>2 DEF IdKeep

LEMMA DueIdDone == ASSUME WalkInv, GapInv, DueInv, IdDone PROVE DueInv'
<1>1. CASE Stop BY <1>1, DueOutside DEF Stop, Walking
<1>2. CASE ~Stop
  <2>1. /\ Walking /\ freed = {} /\ On \in Seq(Functions) /\ Unique(On)
        /\ \A g : g \in Members(On') <=>
               \/ prev # NULL /\ (g = prev \/ Behind(On, g, prev))
               \/ next # NULL /\ (g = next \/ Behind(On, next, g))
        /\ \A g, h : Behind(On', g, h) <=>
               g \in Members(On') /\ h \in Members(On') /\ Behind(On, g, h)
        /\ item' = next /\ called' = FALSE /\ due' = due \ {item}
    BY <1>2, IdDoneIs
  <2>2. pc = "id" /\ called BY DEF IdDone
  <2>3. \A f \in due : next # NULL /\ (f = next \/ Behind(On, next, f))
    BY <2>1, <2>2 DEF DueInv, AtOr
  <2>4. \A f \in due' : item' # NULL /\ (f = item' \/ Behind(On', item', f))
    BY <2>1, <2>3
  <2> QED BY <2>1, <2>4 DEF DueInv, AtOr
<1> QED BY <1>1, <1>2

LEMMA DueStanzaDone == ASSUME WalkInv, GapInv, DueInv, StanzaDone PROVE DueInv'
<1>1. CASE Stop BY <1>1, DueOutside DEF Stop, Walking
<1>2. CASE ~Stop
  <2>1. /\ Walking /\ item # NULL /\ item \in Members(On) /\ freed = {}
        /\ On \in Seq(Functions) /\ Unique(On)
        /\ \A g, h : Behind(On', g, h) <=> Behind(On, g, h) /\ g # item /\ h # item
        /\ item' = NextOf(On, item) /\ called' = FALSE /\ due' = due \ {item}
    BY <1>2, StanzaDoneIs
  <2>2. pc = "stanza" BY DEF StanzaDone
  <2>3. \A f \in due' : /\ Behind(On, item, f) /\ item' # NULL
                        /\ f = item' \/ Behind(On, item', f)
    BY <2>1, <2>2, DueBehind
  <2>4. item' # NULL => item' # item BY <2>1, NextIs, OrderIs
  <2> QED BY <2>1, <2>3, <2>4 DEF DueInv, AtOr
<1> QED BY <1>1, <1>2

LEMMA DueTimedReturn == ASSUME WalkInv, DueInv, TimedReturn PROVE DueInv'
<1>1. CASE Stop BY <1>1, DueOutside DEF Stop, Walking
<1>2. CASE ~Stop
  <2>1. /\ Walking /\ item # NULL /\ item \in Members(On) /\ "item" \notin freed
        /\ On \in Seq(Functions) /\ Unique(On)
        /\ item' = NextOf(On, item) /\ called' = FALSE /\ due' = due \ {item}
        /\ \/ On' = On
           \/ \A g, h : Behind(On', g, h) <=> Behind(On, g, h) /\ g # item /\ h # item
    BY <1>2, TimedReturnIs
  <2>2. pc # "id" BY DEF TimedReturn, InTimed
  <2>3. \A f \in due' : /\ Behind(On, item, f) /\ item' # NULL
                        /\ f = item' \/ Behind(On, item', f)
    BY <2>1, <2>2, DueBehind
  <2>4. item' # NULL => item' # item BY <2>1, NextIs, OrderIs
  <2> QED BY <2>1, <2>3, <2>4 DEF DueInv, AtOr
<1> QED BY <1>1, <1>2

LEMMA DueNext == ASSUME WalkInv, GapInv, DueInv, [Next]_vars PROVE DueInv'
<1>1. CASE UNCHANGED vars BY <1>1, DueRest DEF vars, store, walk
<1>2. ASSUME Authenticate \/ StreamOpen \/ Connection \/ Time PROVE DueInv'
  BY <1>2, DueRest DEF Authenticate, StreamOpen, Connection, Time, store, walk
<1>3. ASSUME StanzaEnd \/ TimedEnd \/ Select PROVE DueInv'
  <2>1. pc' \in {"events", "select", "user"} BY <1>3 DEF StanzaEnd, TimedEnd, Select
  <2> QED BY <2>1, DueOutside DEF Walking
<1>4. ASSUME IdSkip \/ IdCall PROVE DueInv'
  <2>1. pc = "id" /\ item # NULL /\ ~called /\ Walking /\ "item" \notin freed
    BY <1>4 DEF IdSkip, IdCall, Walking, WalkInv, PointersInv
  <2>2. On = lists[stanza.id] BY <2>1, OnIs DEF WalkInv
  <2>3. CASE IdSkip BY <2>1, <2>2, <2>3, DueAdvances DEF IdSkip, Stay, MoveTo
  <2>4. CASE IdCall BY <2>1, <2>2, <2>4, DueCalls DEF IdCall, store
  <2> QED BY <1>4, <2>3, <2>4
<1>5. ASSUME StanzaSkip \/ StanzaCall PROVE DueInv'
  <2>1. pc = "stanza" /\ item # NULL /\ ~called /\ Walking /\ "item" \notin freed
    BY <1>5 DEF StanzaSkip, StanzaCall, Walking, WalkInv, PointersInv
  <2>2. On = lists["stanza"] BY <2>1, OnIs DEF WalkInv
  <2>3. CASE StanzaSkip
    BY <2>1, <2>2, <2>3, DueAdvances DEF StanzaSkip, Forward, MoveTo, store
  <2>4. CASE StanzaCall BY <2>1, <2>2, <2>4, DueCalls DEF StanzaCall, store
  <2> QED BY <1>5, <2>3, <2>4
<1>6. ASSUME StanzaKeep PROVE DueInv'
  <2>1. CASE Stop BY <2>1, DueOutside DEF Stop, Walking
  <2>2. CASE /\ "item" \notin freed /\ Forward(NextOf(lists["stanza"], item))
             /\ UNCHANGED <<store, pc, stanza, min>>
    <3>1. pc = "stanza" /\ item # NULL /\ Walking
      BY <1>6 DEF StanzaKeep, Walking, WalkInv, PointersInv
    <3>2. On = lists["stanza"] BY <3>1, OnIs DEF WalkInv
    <3> QED BY <2>2, <3>1, <3>2, DueAdvances DEF Forward, MoveTo, store
  <2> QED BY <1>6, <2>1, <2>2 DEF StanzaKeep
<1>7. ASSUME TimedSkip \/ TimedWait \/ TimedCall PROVE DueInv'
  <2>1. /\ item # NULL /\ ~called /\ InTimed BY <1>7 DEF TimedSkip, TimedWait, TimedCall
  <2>2. On = lists["timed"] /\ Walking BY <2>1, TimedOn
  <2>3. "item" \notin freed BY <2>1, <2>2 DEF WalkInv, PointersInv
  <2>4. CASE TimedSkip \/ TimedWait
    BY <2>1, <2>2, <2>3, <2>4, DueAdvances DEF TimedSkip, TimedWait, Stay, MoveTo, store
  <2>5. CASE TimedCall
    <3>1. pc # "id" BY <2>1 DEF InTimed
    <3> QED BY <2>1, <2>2, <2>5, <3>1, DueCalls DEF TimedCall
  <2> QED BY <1>7, <2>4, <2>5
<1> QED
  BY <1>1, <1>2, <1>3, <1>4, <1>5, <1>6, <1>7, DueRegister, DueDelete, DueFire, DueIdKeep,
     DueIdDone, DueStanzaStart, DueStanzaDone, DueTimedStart, DueTimedReturn
     DEF Next

\* When a walk comes to its end, every handler that was on the list at the beginning, that
\* the stanza or the time called for and that no callback deleted has been visited
\* (handler.c:52-76, 90-129, 160-190).
THEOREM WalksComplete == Spec => []WalkComplete
<1>1. Init => WalkInv /\ GapInv /\ DueInv
  <2>1. Init => WalkInv BY WalkInit
  <2>2. Init => GapInv BY DEF Init, GapInv
  <2>3. Init => DueInv BY DEF Init, DueInv, Walking
  <2> QED BY <2>1, <2>2, <2>3
<1>2. WalkInv /\ GapInv /\ DueInv /\ [Next]_vars => (WalkInv /\ GapInv /\ DueInv)'
  BY WalkNext, GapNext, DueNext
<1>3. WalkInv /\ DueInv => WalkComplete
  BY DEF WalkInv, PointersInv, Idle, DueInv, WalkComplete
<1> QED BY <1>1, <1>2, <1>3, PTL DEF Spec

-----------------------------------------------------------------------------
(* What is called. *)

LEMMA CallOutside == ASSUME ~Walking' PROVE CallInv'
BY DEF CallInv

LEMMA CallRest ==
    ASSUME CallInv, UNCHANGED <<lists, item, next, called, freed, due, pc, stanza>>,
           UNCHANGED <<doubtful, enabled, age>>
    PROVE  CallInv'
<1>1. Walking' = Walking /\ On' = On BY WalkStays DEF On
<1>2. \A f : Eligible(f)' <=> Eligible(f) BY DEF Eligible
<1> QED BY <1>1, <1>2 DEF CallInv, AtOr

\* A callback that leaves the list alone, or adds or takes away what need not be called.
LEMMA CallChanges ==
    ASSUME CallInv, UNCHANGED <<item, next, called, pc, stanza>>, called,
           freed \subseteq freed', due' \subseteq due,
           Walking /\ item # NULL =>
               \A f \in Members(On') :
                   Eligible(f)' => /\ f \in Members(On) /\ Eligible(f)
                                   /\ f \in due => f \in due'
                                   /\ "item" \notin freed' /\ Behind(On', item, f)
                                           => Behind(On, item, f)
                                   /\ "next" \notin freed' /\ Behind(On', next, f)
                                           => Behind(On, next, f)
    PROVE  CallInv'
<1>1. Walking' = Walking BY WalkStays
<1>2. CASE ~(Walking /\ item # NULL) BY <1>1, <1>2 DEF CallInv
<1>3. CASE Walking /\ item # NULL
  <2>1. called' /\ item' \notin due' BY <1>3 DEF CallInv
  <2>2. ASSUME pc' = "id", next' # NULL, "next" \notin freed', NEW f \in Members(On'),
               f = next' \/ Behind(On', next', f), Eligible(f)'
        PROVE  f \in due'
    BY <1>3, <2>2 DEF CallInv, AtOr
  <2>3. ASSUME pc' # "id", "item" \notin freed', NEW f \in Members(On'),
               Behind(On', item', f), Eligible(f)'
        PROVE  f \in due'
    BY <1>3, <2>3 DEF CallInv
  <2> QED BY <2>1, <2>2, <2>3 DEF CallInv, AtOr
<1> QED BY <1>2, <1>3

LEMMA CallRegister == ASSUME WalkInv, CallInv, Register PROVE CallInv'
<1>1. PICK l \in Lists : \E f \in Of(l) : Added(l, f) BY AddIs DEF WalkInv
<1>2. PICK f \in Of(l) : Added(l, f) BY <1>1
<1>3. UNCHANGED <<item, next, called, freed, due, pc, stanza>> BY DEF Register, walk
<1>4. CASE ~(Walking /\ item # NULL) BY <1>3, <1>4, WalkStays DEF CallInv
<1>5. CASE Walking /\ item # NULL
  <2>1. called BY <1>5 DEF Register, Running, Walking
  <2>2. /\ On \in Seq(Functions) /\ Unique(On) /\ Members(On) \subseteq Of(Walked)
        /\ pc = "id" => Walked = stanza.id /\ Walked \in Ids
        /\ pc = "stanza" => Walked = "stanza"
        /\ pc \in {"timed1", "timed2"} => Walked = "timed"
    BY <1>5, OnIs DEF WalkInv
  <2>3. IF Walked = l
        THEN /\ f \notin Members(On) /\ Members(On') = Members(On) \cup {f}
             /\ \A g, h : Behind(On', g, h) <=>
                    Behind(On, g, h) \/ (g \in Members(On) /\ h = f)
        ELSE On' = On
    BY <1>2, <1>3, <1>5, OnGrows DEF WalkInv, Added
  <2>4. /\ enabled' = enabled \ {f}
        /\ pc = "id" => \A g : <<Walked, g>> \in doubtful => <<Walked, g>> \in doubtful'
        /\ pc = "id" /\ Walked = l => <<Walked, f>> \in doubtful'
    BY <1>2, <2>2 DEF Added
  <2>5. ASSUME NEW g \in Members(On'), Eligible(g)'
        PROVE  g \in Members(On) /\ Eligible(g) /\ (Walked = l => g # f)
    <3>1. Walked = l => g # f
      BY <1>3, <1>5, <2>2, <2>4, <2>5 DEF Eligible, Walking
    <3>2. g \in Members(On) BY <2>3, <2>5, <3>1
    <3>3. CASE pc = "id" BY <1>3, <2>2, <2>4, <2>5, <3>1, <3>2, <3>3 DEF Eligible
    <3>4. CASE pc = "stanza" BY <1>3, <2>4, <2>5, <3>1, <3>2, <3>4 DEF Eligible
    <3>5. CASE pc \in {"timed1", "timed2"}
      <4>1. g \in TimedHandlers BY <2>2, <3>2, <3>5, ConstantsIs
      <4>2. age \in [TimedHandlers -> 0 .. MaxAge] BY DEF WalkInv, TypeInv, TypeOK
      <4>3. age'[g] = age[g]
        BY <1>2, <2>2, <3>1, <3>5, <4>1, <4>2 DEF Added
      <4> QED BY <1>3, <2>4, <2>5, <3>1, <3>2, <3>5, <4>3 DEF Eligible
    <3> QED BY <1>5, <3>1, <3>2, <3>3, <3>4, <3>5 DEF Walking
  <2> QED BY <1>3, <2>1, <2>3, <2>5, CallChanges
<1> QED BY <1>4, <1>5

LEMMA CallDelete == ASSUME WalkInv, CallInv, Delete PROVE CallInv'
<1>1. PICK l \in Lists : \E f \in Of(l) : Dropped(l, f) BY DropIs DEF WalkInv
<1>2. PICK f \in Of(l) : Dropped(l, f) BY <1>1
<1>3. UNCHANGED <<item, prev, next, called, pc, stanza>> BY DEF Delete
<1>4. CASE ~(Walking /\ item # NULL) BY <1>3, <1>4, WalkStays DEF CallInv
<1>5. CASE Walking /\ item # NULL
  <2>1. called BY <1>5 DEF Delete, Running, Walking
  <2>2. /\ On = lists[Walked] /\ Members(On) \subseteq Of(Walked)
        /\ pc = "id" => Walked = stanza.id
        /\ pc = "stanza" => Walked = "stanza"
        /\ pc \in {"timed1", "timed2"} => Walked = "timed"
    BY <1>5, OnIs DEF WalkInv
  <2>3. /\ Walked = l => f \notin Members(On')
        /\ Members(On') \subseteq Members(On)
        /\ \A g, h : Behind(On', g, h) => Behind(On, g, h)
    <3>1. CASE Remove(l, f)
      <4>1. IF Walked = l
            THEN /\ Members(On') = Members(On) \ {f}
                 /\ \A g, h : Behind(On', g, h) <=> Behind(On, g, h) /\ g # f /\ h # f
            ELSE On' = On
        BY <1>3, <1>5, <3>1, OnShrinks DEF WalkInv, Remove
      <4> QED BY <4>1
    <3>2. CASE f \notin Members(lists[l]) /\ UNCHANGED lists
      <4>1. On' = On BY <1>3, <3>2, WalkStays DEF On
      <4> QED BY <2>2, <3>2, <4>1
    <3> QED BY <1>2, <3>1, <3>2 DEF Dropped
  <2>4. /\ freed \subseteq freed' /\ due' \subseteq due /\ enabled' \subseteq enabled
        /\ \A g \in due : (Walked = l => g # f) => g \in due'
        /\ doubtful' = doubtful \ {<<l, f>>}
    BY <1>2 DEF Dropped, Remove
  <2>5. ASSUME NEW g \in Members(On'), Eligible(g)'
        PROVE  Eligible(g)
    <3>1. CASE pc = "id"
      <4>1. <<stanza.id, g>> # <<l, f>> BY <2>2, <2>3, <2>5, <3>1
      <4> QED BY <1>3, <2>4, <2>5, <3>1, <4>1 DEF Eligible
    <3>2. CASE pc = "stanza" BY <1>3, <2>4, <2>5, <3>2 DEF Eligible
    <3>3. CASE pc \in {"timed1", "timed2"}
      <4>1. g \in TimedHandlers /\ (Walked = l => g # f) BY <2>2, <2>3, <3>3, ConstantsIs
      <4>2. age \in [TimedHandlers -> 0 .. MaxAge] BY DEF WalkInv, TypeInv, TypeOK
      <4>3. age'[g] = age[g] BY <1>2, <2>2, <3>3, <4>1, <4>2 DEF Dropped
      <4> QED BY <1>3, <2>4, <2>5, <3>3, <4>3 DEF Eligible
    <3> QED BY <1>5, <3>1, <3>2, <3>3 DEF Walking
  <2> QED BY <1>3, <2>1, <2>3, <2>4, <2>5, CallChanges
<1> QED BY <1>4, <1>5

\* In the beginning everything eligible is due.
LEMMA CallStarts ==
    ASSUME WalkInv, NEW s, NEW wanted, StartWalk(s, wanted), UNCHANGED lists,
           s = <<>> \/ (Walked' \in Lists /\ s = lists[Walked']),
           \A f \in Members(s) : Eligible(f)' => f \in wanted
    PROVE  CallInv'
<1>1. item' = First(s) /\ called' = FALSE /\ due' = Members(s) \cap wanted BY DEF StartWalk
<1>2. s = <<>> => First(s) = NULL BY DEF First
<1>3. s # <<>> => On' = s BY DEF On
<1> QED BY <1>1, <1>2, <1>3 DEF CallInv

LEMMA CallFire ==
    ASSUME WalkInv, NEW s \in Stanzas, handler_fire_stanza(s)
    PROVE  CallInv'
<1>1. pc' = "id" /\ stanza' = s /\ UNCHANGED lists
      /\ StartWalk(IF s.id = NULL THEN <<>> ELSE lists[s.id], IdHandlers)
  BY DEF handler_fire_stanza, store
<1>2. Walked' = s.id BY <1>1 DEF Walked
<1> DEFINE list == IF s.id = NULL THEN <<>> ELSE lists[s.id]
<1>3. list = <<>> \/ (Walked' \in Lists /\ list = lists[Walked'])
  BY <1>2, HandlersAssumption, ConstantsIs
<1>4. StartWalk(list, IdHandlers) BY <1>1
<1>5. Members(list) \subseteq IdHandlers
  <2>1. CASE s.id = NULL BY <2>1 DEF Members
  <2>2. CASE s.id # NULL
    <3>1. s.id \in Ids BY <2>2, HandlersAssumption
    <3> QED BY <2>2, <3>1, ListIs, ConstantsIs DEF WalkInv
  <2> QED BY <2>1, <2>2
<1> HIDE DEF list
<1> QED BY <1>1, <1>3, <1>4, <1>5, CallStarts

LEMMA CallStanzaStart == ASSUME WalkInv, StanzaStart PROVE CallInv'
<1> DEFINE wanted == {f \in StanzaHandlers : Matches(f, stanza)}
<1>1. pc' = "stanza" /\ StartWalk(lists["stanza"], wanted) /\ UNCHANGED <<lists, stanza>>
  BY DEF StanzaStart
<1>2. Walked' = "stanza" /\ "stanza" \in Lists BY <1>1, ConstantsIs DEF Walked
<1>3. Members(lists["stanza"]) \subseteq StanzaHandlers
  BY <1>2, ListIs, ConstantsIs DEF WalkInv
<1>4. \A f : Eligible(f)' => Matches(f, stanza) BY <1>1 DEF Eligible
<1>5. \A f \in Members(lists["stanza"]) : Eligible(f)' => f \in wanted BY <1>3, <1>4
<1> HIDE DEF wanted
<1> QED BY <1>1, <1>2, <1>5, CallStarts

LEMMA CallTimedStart == ASSUME WalkInv, TimedStart PROVE CallInv'
<1> DEFINE wanted == {f \in TimedHandlers : age[f] >= Period[f]}
           list   == IF connected THEN lists["timed"] ELSE <<>>
<1>1. pc' \in {"timed1", "timed2"} /\ StartWalk(list, wanted) /\ UNCHANGED <<lists, age>>
  BY DEF TimedStart
<1>2. Walked' = "timed" /\ "timed" \in Lists BY <1>1, ConstantsIs DEF Walked
<1>3. list = <<>> \/ list = lists["timed"] OBVIOUS
<1> HIDE DEF list
<1>4. Members(list) \subseteq TimedHandlers
  <2>1. Members(<<>>) = {} BY DEF Members
  <2> QED BY <1>2, <1>3, <2>1, ListIs, ConstantsIs DEF WalkInv
<1>5. \A f : Eligible(f)' => age[f] >= Period[f] BY <1>1 DEF Eligible
<1>6. \A f \in Members(list) : Eligible(f)' => f \in wanted BY <1>4, <1>5
<1> HIDE DEF wanted
<1> QED BY <1>1, <1>2, <1>3, <1>6, CallStarts

\* A walk moves on to the successor of an item that is not called, or no longer.
LEMMA CallAdvances ==
    ASSUME WalkInv, CallInv, Walking, item # NULL, "item" \notin freed,
           ~called \/ pc # "id",
           item' = NextOf(On, item), called' = FALSE, due' = due \ {item},
           Members(On') \subseteq Members(On),
           \A g, h : Behind(On', g, h) => Behind(On, g, h),
           \A f \in Members(On') \ {item} : Eligible(f)' => Eligible(f)
    PROVE  CallInv'
<1>1. On \in Seq(Functions) /\ Unique(On) /\ item \in Members(On) /\ NULL \notin Members(On)
  BY OnIs DEF WalkInv, PointersInv
<1>2. called \in BOOLEAN BY DEF WalkInv, TypeInv, TypeOK
<1>3. \A f \in Members(On) : Behind(On, item, f) /\ Eligible(f) => f \in due
  BY <1>2 DEF CallInv, AtOr
<1>4. ASSUME item' # NULL, NEW f \in Members(On'), f = item' \/ Behind(On', item', f),
             Eligible(f)'
      PROVE  f \in due'
  <2>1. Behind(On, item, item') BY <1>1, <1>4, NextIs
  <2>2. Behind(On, item, f) BY <1>1, <1>4, <2>1, OrderIs
  <2>3. f # item BY <1>1, <2>2, OrderIs
  <2> QED BY <1>3, <1>4, <2>2, <2>3
<1> QED BY <1>4 DEF CallInv, AtOr

LEMMA CallCalls ==
    ASSUME WalkInv, CallInv, Walking, item # NULL, ~called, NEW n, Call(n),
           pc = "id" => n = NextOf(On, item),
           UNCHANGED <<lists, item, pc, stanza>>,
           \A f \in Members(On) \ {item} : Eligible(f)' => Eligible(f)
    PROVE  CallInv'
<1>1. On' = On /\ Walking' = Walking BY WalkStays DEF On
<1>2. On \in Seq(Functions) /\ Unique(On) /\ item \in Members(On) /\ NULL \notin Members(On)
  BY OnIs DEF WalkInv, PointersInv
<1>3. next' = n /\ due' = due \ {item} /\ called' BY DEF Call
<1>4. \A f \in Members(On) : Behind(On, item, f) /\ Eligible(f)' => f \in due'
  <2>1. \A f \in Members(On) : Behind(On, item, f) /\ Eligible(f) => f \in due
    BY DEF CallInv, AtOr
  <2>2. \A f : Behind(On, item, f) => f # item BY <1>2, OrderIs
  <2> QED BY <1>3, <2>1, <2>2
<1>5. pc = "id" /\ n # NULL =>
          \A f \in Members(On) : f = n \/ Behind(On, n, f) => Behind(On, item, f)
  BY <1>2, NextIs, OrderIs
<1> QED BY <1>1, <1>3, <1>4, <1>5 DEF CallInv, AtOr

LEMMA CallIdKeep == ASSUME WalkInv, CallInv, IdKeep PROVE CallInv'
<1>1. CASE Stop BY <1>1, CallOutside DEF Stop, Walking
<1>2. CASE "next" \notin freed /\ Forward(next) /\ UNCHANGED <<store, pc, stanza, min>>
  <2>1. pc = "id" /\ called /\ Walking /\ item # NULL
    BY DEF IdKeep, Walking, WalkInv, PointersInv
  <2>2. item' = next /\ called' = FALSE /\ due' = due \ {item}
    BY <1>2 DEF Forward, MoveTo
  <2>3. On' = On BY <1>2, WalkStays DEF On, store
  <2>4. \A f : Eligible(f)' <=> Eligible(f) BY <1>2 DEF Eligible, store
  <2>5. item \notin due
        /\ (next # NULL => \A f \in Members(On) : AtOr(next, f) /\ Eligible(f) => f \in due)
    BY <1>2, <2>1 DEF CallInv
  <2> QED BY <2>2, <2>3, <2>4, <2>5 DEF CallInv, AtOr
<1> QED BY <1>1, <1>2 DEF IdKeep

LEMMA CallIdDone == ASSUME WalkInv, GapInv, CallInv, IdDone PROVE CallInv'
<1>1. CASE Stop BY <1>1, CallOutside DEF Stop, Walking
<1>2. CASE ~Stop
  <2>1. /\ Walking /\ item # NULL /\ freed = {}
        /\ Members(On') \subseteq Members(On) \ {item}
        /\ \A g, h : Behind(On', g, h) <=>
               g \in Members(On') /\ h \in Members(On') /\ Behind(On, g, h)
        /\ item' = next /\ called' = FALSE /\ due' = due \ {item}
    BY <1>2, IdDoneIs
  <2>2. pc = "id" /\ called /\ pc' = pc /\ stanza' = stanza
        /\ doubtful' = doubtful \ {<<stanza.id, item>>}
    BY <1>2 DEF IdDone
  <2>3. ASSUME NEW f \in Members(On'), Eligible(f)' PROVE Eligible(f)
    <3>1. <<stanza.id, f>> # <<stanza.id, item>> BY <2>1
    <3> QED BY <2>2, <2>3, <3>1 DEF Eligible
  <2>4. item \notin due
        /\ (next # NULL => \A f \in Members(On) : AtOr(next, f) /\ Eligible(f) => f \in due)
    BY <2>1, <2>2 DEF CallInv
  <2> QED BY <2>1, <2>3, <2>4 DEF CallInv, AtOr
<1> QED BY <1>1, <1>2

LEMMA CallStanzaDone == ASSUME WalkInv, GapInv, CallInv, StanzaDone PROVE CallInv'
<1>1. CASE Stop BY <1>1, CallOutside DEF Stop, Walking
<1>2. CASE ~Stop
  <2>1. /\ Walking /\ item # NULL /\ freed = {}
        /\ Members(On') = Members(On) \ {item}
        /\ \A g, h : Behind(On', g, h) <=> Behind(On, g, h) /\ g # item /\ h # item
        /\ item' = NextOf(On, item) /\ called' = FALSE /\ due' = due \ {item}
    BY <1>2, StanzaDoneIs
  <2>2. pc = "stanza" /\ pc' = pc /\ stanza' = stanza /\ enabled' \subseteq enabled
    BY <1>2 DEF StanzaDone
  <2>3. \A f : Eligible(f)' => Eligible(f) BY <2>2 DEF Eligible
  <2> QED BY <2>1, <2>2, <2>3, CallAdvances
<1> QED BY <1>1, <1>2

LEMMA CallTimedReturn == ASSUME WalkInv, CallInv, TimedReturn PROVE CallInv'
<1>1. CASE Stop BY <1>1, CallOutside DEF Stop, Walking
<1>2. CASE ~Stop
  <2>1. /\ Walking /\ item # NULL /\ "item" \notin freed
        /\ item' = NextOf(On, item) /\ called' = FALSE /\ due' = due \ {item}
        /\ Members(On') \subseteq Members(On)
        /\ \A g, h : Behind(On', g, h) => Behind(On, g, h)
        /\ enabled' \subseteq enabled /\ age' = age
    BY <1>2, TimedReturnIs DEF store
  <2>2. pc \in {"timed1", "timed2"} /\ pc' = pc BY <1>2 DEF TimedReturn, InTimed
  <2>3. \A f : Eligible(f)' => Eligible(f) BY <2>1, <2>2 DEF Eligible
  <2> QED BY <2>1, <2>2, <2>3, CallAdvances
<1> QED BY <1>1, <1>2

LEMMA CallIdStep == ASSUME WalkInv, CallInv, IdSkip \/ IdCall PROVE CallInv'
<1>1. pc = "id" /\ item # NULL /\ ~called /\ Walking /\ "item" \notin freed
  BY DEF IdSkip, IdCall, Walking, WalkInv, PointersInv
<1>2. On = lists[stanza.id] BY <1>1, OnIs DEF WalkInv
<1>3. UNCHANGED <<lists, pc, stanza>> /\ doubtful \subseteq doubtful'
  BY DEF IdSkip, IdCall, store
<1>4. On' = On BY <1>3, WalkStays DEF On
<1>5. \A f : Eligible(f)' => Eligible(f) BY <1>1, <1>3 DEF Eligible
<1>6. CASE IdSkip BY <1>1, <1>2, <1>4, <1>5, <1>6, CallAdvances DEF IdSkip, Stay, MoveTo
<1>7. CASE IdCall BY <1>1, <1>2, <1>3, <1>5, <1>7, CallCalls DEF IdCall
<1> QED BY <1>6, <1>7

LEMMA CallStanzaStep ==
    ASSUME WalkInv, CallInv, StanzaSkip \/ StanzaCall \/ StanzaKeep
    PROVE  CallInv'
<1>1. CASE Stop BY <1>1, CallOutside DEF Stop, Walking
<1>2. CASE ~Stop
  <2>1. pc = "stanza" /\ item # NULL /\ Walking /\ "item" \notin freed
    BY <1>2 DEF StanzaSkip, StanzaCall, StanzaKeep, Walking, WalkInv, PointersInv
  <2>2. On = lists["stanza"] BY <2>1, OnIs DEF WalkInv
  <2>3. UNCHANGED <<lists, enabled, pc, stanza>>
    BY <1>2 DEF StanzaSkip, StanzaCall, StanzaKeep, store
  <2>4. On' = On BY <2>3, WalkStays DEF On
  <2>5. \A f : Eligible(f)' => Eligible(f) BY <2>1, <2>3 DEF Eligible
  <2>6. CASE StanzaSkip \/ StanzaKeep
    <3>1. item' = NextOf(On, item) /\ called' = FALSE /\ due' = due \ {item}
      BY <1>2, <2>2, <2>6 DEF StanzaSkip, StanzaKeep, Forward, MoveTo
    <3> QED BY <2>1, <2>4, <2>5, <3>1, CallAdvances
  <2>7. CASE StanzaCall
    BY <2>1, <2>2, <2>3, <2>5, <2>7, CallCalls DEF StanzaCall
  <2> QED BY <2>6, <2>7
<1> QED BY <1>1, <1>2

LEMMA CallTimedStep ==
    ASSUME WalkInv, CallInv, TimedSkip \/ TimedWait \/ TimedCall
    PROVE  CallInv'
<1>1. item # NULL /\ ~called /\ InTimed BY DEF TimedSkip, TimedWait, TimedCall
<1>2. On = lists["timed"] /\ Walking BY <1>1, TimedOn
<1>3. "item" \notin freed /\ pc # "id" BY <1>1, <1>2 DEF WalkInv, PointersInv, InTimed
<1>4. UNCHANGED <<lists, enabled, pc, stanza>>
  BY DEF TimedSkip, TimedWait, TimedCall, store
<1>5. On' = On BY <1>4, WalkStays DEF On
<1>6. CASE TimedSkip \/ TimedWait
  <2>1. item' = NextOf(On, item) /\ called' = FALSE /\ due' = due \ {item} /\ age' = age
    BY <1>2, <1>6 DEF TimedSkip, TimedWait, Stay, MoveTo, store
  <2>2. \A f : Eligible(f)' => Eligible(f) BY <1>1, <1>4, <2>1 DEF Eligible, InTimed
  <2> QED BY <1>1, <1>2, <1>3, <1>5, <2>1, <2>2, CallAdvances
<1>7. CASE TimedCall
  <2>1. /\ Call(NULL) /\ item' = item /\ age' = [age EXCEPT ![item] = 0]
    BY <1>7 DEF TimedCall
  <2>2. Members(On) \subseteq TimedHandlers
    BY <1>1, <1>2, ConstantsIs DEF WalkInv, TypeInv, TypeOK
  <2>3. age \in [TimedHandlers -> 0 .. MaxAge] BY DEF WalkInv, TypeInv, TypeOK
  <2>4. ASSUME NEW f \in Members(On) \ {item}, Eligible(f)' PROVE Eligible(f)
    <3>1. age'[f] = age[f] BY <2>1, <2>2, <2>3
    <3> QED BY <1>1, <1>4, <2>4, <3>1 DEF Eligible, InTimed
  <2> QED BY <1>1, <1>2, <1>3, <1>4, <2>1, <2>4, CallCalls
<1> QED BY <1>6, <1>7

LEMMA CallNext == ASSUME WalkInv, GapInv, CallInv, [Next]_vars PROVE CallInv'
<1>1. CASE UNCHANGED vars BY <1>1, CallRest DEF vars, store, walk
<1>2. ASSUME Authenticate PROVE CallInv' BY <1>2, CallRest DEF Authenticate, store, walk
<1>3. ASSUME StreamOpen \/ Connection \/ Time \/ StanzaEnd \/ TimedEnd \/ Select
      PROVE  CallInv'
  <2>1. pc' \in {"events", "select", "user"}
    BY <1>3 DEF StreamOpen, Connection, Time, StanzaEnd, TimedEnd, Select
  <2> QED BY <2>1, CallOutside DEF Walking
<1> QED
  BY <1>1, <1>2, <1>3, CallRegister, CallDelete, CallFire, CallIdStep, CallIdKeep,
     CallIdDone, CallStanzaStart, CallStanzaStep, CallStanzaDone, CallTimedStart,
     CallTimedStep, CallTimedReturn
     DEF Next

\* Only the three steps that call an item begin a callback.
LEMMA CallsAre ==
    ASSUME WalkInv, [Next]_vars, ~called, called'
    PROVE  IdCall \/ StanzaCall \/ TimedCall
<1>1. CASE UNCHANGED vars BY <1>1 DEF vars, walk
<1>2. ASSUME Register \/ Delete \/ Authenticate \/ StreamOpen \/ Connection \/ Time \/ Select
      PROVE  called' = called
  BY <1>2 DEF Register, Delete, Authenticate, StreamOpen, Connection, Time, Select, walk
<1>3. ASSUME (\E s \in Stanzas : handler_fire_stanza(s)) \/ StanzaStart \/ TimedStart
             \/ StanzaEnd \/ TimedEnd
      PROVE  ~called'
  BY <1>3 DEF handler_fire_stanza, StanzaStart, TimedStart, StartWalk, StanzaEnd, TimedEnd,
       NoWalk
<1>4. ASSUME IdSkip \/ StanzaSkip \/ TimedSkip \/ TimedWait PROVE ~called'
  BY <1>4 DEF IdSkip, StanzaSkip, TimedSkip, TimedWait, Stay, Forward, MoveTo
<1>5. ~(IdKeep \/ IdDone \/ StanzaKeep \/ StanzaDone \/ TimedReturn)
  BY DEF IdKeep, IdDone, StanzaKeep, StanzaDone, TimedReturn
<1> QED BY <1>1, <1>2, <1>3, <1>4, <1>5 DEF Next

\* A walk calls what was on its list at the beginning, once; for one id it also calls what
\* was appended in the meantime (handler.c:85-95, 156-164).
THEOREM CallsOnce == Spec => CalledOnce
<1>1. Init => WalkInv /\ GapInv /\ CallInv
  <2>1. Init => WalkInv BY WalkInit
  <2>2. Init => GapInv BY DEF Init, GapInv
  <2>3. Init => CallInv BY DEF Init, CallInv
  <2> QED BY <2>1, <2>2, <2>3
<1>2. WalkInv /\ GapInv /\ CallInv /\ [Next]_vars => (WalkInv /\ GapInv /\ CallInv)'
  BY WalkNext, GapNext, CallNext
<1>3. WalkInv /\ CallInv /\ [Next]_vars =>
          [(~called /\ called') =>
              \/ item \in due
              \/ pc = "id" /\ <<stanza.id, item>> \in doubtful]_vars
  <2> SUFFICES ASSUME WalkInv, CallInv, [Next]_vars, ~called, called'
               PROVE  item \in due \/ (pc = "id" /\ <<stanza.id, item>> \in doubtful)
    OBVIOUS
  <2>1. IdCall \/ StanzaCall \/ TimedCall BY CallsAre
  <2>2. Walking /\ item # NULL
    BY <2>1 DEF IdCall, StanzaCall, TimedCall, InTimed, Walking
  <2>3. item \in Members(On) BY <2>2 DEF WalkInv, PointersInv
  <2>4. Eligible(item) => item \in due BY <2>2, <2>3 DEF CallInv, AtOr
  <2>5. CASE IdCall BY <2>4, <2>5 DEF IdCall, Eligible
  <2>6. CASE StanzaCall BY <2>4, <2>6 DEF StanzaCall, Wanted, Eligible
  <2>7. CASE TimedCall BY <2>4, <2>7 DEF TimedCall, InTimed, Eligible
  <2> QED BY <2>1, <2>5, <2>6, <2>7
<1> QED BY <1>1, <1>2, <1>3, PTL DEF Spec, CalledOnce

-----------------------------------------------------------------------------
(* The delay. *)

TimeOutside == pc' # "timed1" /\ (pc' = "select" => ~connected')

LEMMA TimeAway == ASSUME TimeOutside PROVE TimeInv'
BY DEF TimeInv, TimeOutside

LEMMA TimeRest ==
    ASSUME TimeInv, UNCHANGED <<lists, item, called, freed, enabled, age, connected,
                                authenticated, pc, stanza, min>>
    PROVE  TimeInv'
<1>1. On' = On BY WalkStays DEF On
<1>2. \A f : Timely(f)' <=> Timely(f) BY DEF Timely, Barred
<1> QED BY <1>1, <1>2 DEF TimeInv, AtOr

\* In a first walk of the timed handlers, what TimeInv says of the list.
LEMMA TimeOn ==
    ASSUME pc = "timed1"
    PROVE  Walked = "timed" /\ On = lists["timed"] /\ Walking
BY DEF Walked, On, Walking

LEMMA TimeRegister == ASSUME WalkInv, TimeInv, Register PROVE TimeInv'
<1>1. PICK l \in Lists : \E f \in Of(l) : Added(l, f) BY AddIs DEF WalkInv
<1>2. PICK f \in Of(l) : Added(l, f) BY <1>1
<1>3. UNCHANGED <<item, called, freed, connected, authenticated, pc, stanza, min>>
  BY DEF Register, walk
<1>4. called \/ pc = "user" BY DEF Register, Running
<1>5. CASE pc # "timed1"
  <2>1. pc # "select"
    <3>1. pc = "select" => ~called BY DEF WalkInv, PointersInv, Walking, Idle
    <3> QED BY <1>4, <3>1
  <2> QED BY <1>3, <1>5, <2>1, TimeAway DEF TimeOutside
<1>6. CASE pc = "timed1"
  <2>1. called /\ Walking /\ item # NULL BY <1>4, <1>6 DEF Walking, WalkInv, PointersInv
  <2>2. Walked = "timed" /\ On = lists["timed"] /\ On' = lists'["timed"]
    BY <1>3, <1>6, TimeOn DEF On, Walked
  <2>3. IF Walked = l
        THEN /\ f \notin Members(On) /\ Members(On') = Members(On) \cup {f}
             /\ \A g, h : Behind(On', g, h) <=>
                    Behind(On, g, h) \/ (g \in Members(On) /\ h = f)
        ELSE On' = On
    BY <1>2, <1>3, <2>1, OnGrows DEF WalkInv, Added
  <2>4. enabled' = enabled \ {f}
        /\ age' = IF l = "timed" THEN [age EXCEPT ![f] = 0] ELSE age
    BY <1>2 DEF Added
  <2>5. age \in [TimedHandlers -> 0 .. MaxAge] /\ Members(On) \subseteq TimedHandlers
    BY <2>2, ConstantsIs DEF WalkInv, TypeInv, TypeOK
  <2>6. CASE l = "timed"
    <3>1. f \in TimedHandlers BY <2>6, ConstantsIs
    <3>2. age'[f] = 0 /\ \A g \in TimedHandlers \ {f} : age'[g] = age[g]
      BY <2>4, <2>5, <2>6, <3>1
    <3>3. Timely(f)' BY <3>2 DEF Timely
    <3>4. \A g \in TimedHandlers \ {f} : Timely(g)' <=> Timely(g)
      BY <1>3, <3>2 DEF Timely, Barred
    <3>5. ASSUME connected, "item" \notin freed, NEW g \in Members(On'), g # f
          PROVE  /\ g \notin enabled' => age'[g] = 0
                 /\ Timely(g)' \/ Behind(On', item, g)
      <4>1. g \in Members(On) /\ g \in TimedHandlers BY <2>2, <2>3, <2>5, <2>6, <3>5
      <4>2. /\ g \notin enabled => age[g] = 0
            /\ Timely(g) \/ Behind(On, item, g)
        BY <1>6, <2>1, <2>2, <3>5, <4>1 DEF TimeInv
      <4> QED BY <2>2, <2>3, <2>4, <2>6, <3>2, <3>4, <3>5, <4>1, <4>2
    <3> QED BY <1>3, <1>6, <2>1, <2>2, <3>2, <3>3, <3>5 DEF TimeInv
  <2>7. CASE l # "timed"
    <3>1. f \notin TimedHandlers
      BY <2>7, ConstantsIs DEF Lists
    <3>2. On' = On /\ age' = age BY <2>2, <2>3, <2>4, <2>7
    <3>3. \A g : Timely(g)' <=> Timely(g) BY <1>3, <3>2 DEF Timely, Barred
    <3>4. \A g \in Members(On) : g \in enabled' <=> g \in enabled BY <2>4, <2>5, <3>1
    <3> QED BY <1>3, <1>6, <2>1, <2>2, <3>2, <3>3, <3>4 DEF TimeInv, AtOr
  <2> QED BY <2>6, <2>7
<1> QED BY <1>5, <1>6

LEMMA TimeDelete == ASSUME WalkInv, TimeInv, Delete PROVE TimeInv'
<1>1. PICK l \in Lists : \E f \in Of(l) : Dropped(l, f) BY DropIs DEF WalkInv
<1>2. PICK f \in Of(l) : Dropped(l, f) BY <1>1
<1>3. UNCHANGED <<item, called, connected, authenticated, pc, stanza, min>>
  BY DEF Delete
<1>4. called \/ pc = "user" BY DEF Delete, Running
<1>5. CASE pc # "timed1"
  <2>1. pc # "select"
    <3>1. pc = "select" => ~called BY DEF WalkInv, PointersInv, Walking, Idle
    <3> QED BY <1>4, <3>1
  <2> QED BY <1>3, <1>5, <2>1, TimeAway DEF TimeOutside
<1>6. CASE pc = "timed1"
  <2>1. called /\ Walking /\ item # NULL BY <1>4, <1>6 DEF Walking, WalkInv, PointersInv
  <2>2. Walked = "timed" /\ On = lists["timed"] /\ On' = lists'["timed"]
    BY <1>3, <1>6, TimeOn DEF On, Walked
  <2>3. age \in [TimedHandlers -> 0 .. MaxAge] /\ Members(On) \subseteq TimedHandlers
    BY <2>2, ConstantsIs DEF WalkInv, TypeInv, TypeOK
  <2>4. /\ age' = IF l = "timed" THEN [age EXCEPT ![f] = 0] ELSE age
        /\ freed \subseteq freed' /\ enabled \ {f} \subseteq enabled'
    BY <1>2 DEF Dropped, Remove
  <2>5. /\ Members(On') \subseteq Members(On)
        /\ l = "timed" => f \notin Members(On')
        /\ l = "timed" /\ item = f /\ f \in Members(On) => "item" \in freed'
        /\ \A g, h : /\ Behind(On, g, h) /\ ~Behind(On', g, h)
                     => l = "timed" /\ f \in Members(On) /\ (g = f \/ h = f)
    <3>1. CASE Remove(l, f)
      <4>1. IF Walked = l
            THEN /\ Members(On') = Members(On) \ {f}
                 /\ \A g, h : Behind(On', g, h) <=> Behind(On, g, h) /\ g # f /\ h # f
            ELSE On' = On
        BY <1>3, <2>1, <3>1, OnShrinks DEF WalkInv, Remove
      <4>2. l = "timed" /\ item = f => "item" \in freed'
        BY <2>2, <3>1 DEF Remove, Dangling
      <4>3. f \in Members(lists[l]) BY <3>1 DEF Remove
      <4> QED BY <2>2, <4>1, <4>2, <4>3
    <3>2. CASE f \notin Members(lists[l]) /\ UNCHANGED lists
      <4>1. On' = On BY <2>2, <3>2
      <4> QED BY <2>2, <3>2, <4>1
    <3> QED BY <1>2, <3>1, <3>2 DEF Dropped
  <2>6. ASSUME connected, "item" \notin freed', NEW g \in Members(On')
        PROVE  /\ g \notin enabled' => age'[g] = 0
               /\ Timely(g)' \/ Behind(On', item, g)
    <3>1. g \in Members(On) /\ g \in TimedHandlers BY <2>3, <2>5
    <3>2. g # f
      <4>1. CASE l = "timed" BY <2>5, <2>6, <4>1
      <4>2. CASE l # "timed"
        <5>1. f \notin TimedHandlers BY <4>2, ConstantsIs DEF Lists
        <5> QED BY <3>1, <5>1
      <4> QED BY <4>1, <4>2
    <3>3. age'[g] = age[g] BY <2>3, <2>4, <3>1, <3>2
    <3>4. Timely(g)' <=> Timely(g) BY <1>3, <3>3 DEF Timely, Barred
    <3>5. /\ g \notin enabled => age[g] = 0
          /\ Timely(g) \/ Behind(On, item, g)
      BY <1>6, <2>1, <2>2, <2>4, <2>6, <3>1 DEF TimeInv
    <3>6. Behind(On, item, g) => Behind(On', item, g) BY <2>5, <2>6, <3>2
    <3> QED BY <2>4, <3>2, <3>3, <3>4, <3>5, <3>6
  <2> QED BY <1>3, <1>6, <2>1, <2>2, <2>6 DEF TimeInv
<1> QED BY <1>5, <1>6

\* In the beginning every item is enabled and still to come.
LEMMA TimeStart == ASSUME WalkInv, TimedStart PROVE TimeInv'
<1>1. CASE pc' # "timed1" \/ ~connected'
  BY <1>1, TimeAway DEF TimeOutside, TimedStart, TimeInv
<1>2. CASE pc' = "timed1" /\ connected'
  <2>1. /\ item' = First(lists["timed"]) /\ called' = FALSE /\ freed' = {}
        /\ lists' = lists /\ enabled' = enabled \cup Members(lists["timed"])
    BY <1>2 DEF TimedStart, StartWalk, conn
  <2>2. "timed" \in Lists /\ On' = lists["timed"]
    BY <1>2, <2>1, ConstantsIs DEF On, Walked
  <2>3. lists["timed"] \in Seq(Functions) /\ Unique(lists["timed"])
        /\ NULL \notin Members(lists["timed"])
    BY <2>2, ListIs DEF WalkInv
  <2>4. \A f \in Members(lists["timed"]) :
            /\ First(lists["timed"]) # NULL
            /\ f = First(lists["timed"]) \/ Behind(lists["timed"], First(lists["timed"]), f)
    BY <2>3, FirstIs
  <2> QED BY <1>2, <2>1, <2>2, <2>4 DEF TimeInv, AtOr
<1> QED BY <1>1, <1>2

\* An item is passed that need not fire in time, and the delay is not prolonged.
LEMMA TimeAdvances ==
    ASSUME WalkInv, TimeInv, pc = "timed1", item # NULL, "item" \notin freed,
           item' = NextOf(On, item), called' = FALSE,
           UNCHANGED <<age, connected, authenticated, pc>>,
           Members(On') \subseteq Members(On),
           \A g, h : Behind(On, g, h) /\ g # item /\ h # item => Behind(On', g, h),
           enabled \ {item} \subseteq enabled',
           item \in Members(On') => item \in enabled \/ item \notin enabled',
           min' \in Nat, min' <= min,
           connected /\ item \in Members(On') =>
               (\A g \in {item} : Timely(g)') /\ (item \notin enabled' => age[item] = 0)
    PROVE  TimeInv'
<1>1. Walked = "timed" /\ On = lists["timed"] /\ Walking /\ On' = lists'["timed"]
  BY TimeOn DEF On, Walked
<1>2. On \in Seq(Functions) /\ Unique(On) /\ item \in Members(On) /\ NULL \notin Members(On)
  BY <1>1, OnIs DEF WalkInv, PointersInv
<1>3. Members(On) \subseteq TimedHandlers /\ age \in [TimedHandlers -> 0 .. MaxAge]
      /\ min \in Nat
  BY <1>1, ConstantsIs DEF WalkInv, TypeInv, TypeOK
<1>4. ASSUME connected, NEW f \in Members(On'), f # item
      PROVE  /\ f \notin enabled' => age[f] = 0
             /\ Timely(f)' \/ (item' # NULL /\ (f = item' \/ Behind(On', item', f)))
  <2>1. f \in Members(On) /\ f \in TimedHandlers BY <1>3, <1>4
  <2>2. /\ f \notin enabled => age[f] = 0
        /\ Timely(f) \/ Behind(On, item, f)
    BY <1>1, <1>4, <2>1 DEF TimeInv, AtOr
  <2>3. age[f] \in Nat /\ Period[f] \in Nat BY <1>3, <2>1, ConstantsIs
  <2>4. Timely(f) => Timely(f)' BY <1>3, <2>3 DEF Timely, Barred
  <2>5. Behind(On, item, f) => item' # NULL /\ (f = item' \/ Behind(On, item', f))
    BY <1>2, NextIs
  <2>6. item' # NULL => item' # item BY <1>2, NextIs, OrderIs
  <2> QED BY <1>4, <2>2, <2>4, <2>5, <2>6
<1> QED BY <1>1, <1>4 DEF TimeInv, AtOr

LEMMA TimeTimedStep ==
    ASSUME WalkInv, TimeInv, TimedSkip \/ TimedWait
    PROVE  TimeInv'
<1>1. InTimed /\ item # NULL /\ ~called /\ UNCHANGED <<store, connected, authenticated, pc>>
  BY DEF TimedSkip, TimedWait, conn
<1>2. CASE pc # "timed1" BY <1>1, <1>2, TimeAway DEF InTimed, TimeOutside
<1>3. CASE pc = "timed1"
  <2>1. On = lists["timed"] /\ Walking /\ "item" \notin freed
    BY <1>1, <1>3, TimeOn DEF WalkInv, PointersInv
  <2>2. item \in TimedHandlers /\ item \in Members(On) BY <1>1, <2>1, TimedItem
  <2>3. On' = On BY <1>1, <1>3 DEF store, On, Walked
  <2>4. item' = NextOf(On, item) /\ called' = FALSE
    BY <2>1 DEF TimedSkip, TimedWait, Stay, MoveTo
  <2>5. min \in Nat /\ age[item] \in Nat /\ Period[item] \in Nat
    BY <2>2, ConstantsIs DEF WalkInv, TypeInv, TypeOK
  <2>6. connected => (item \notin enabled => age[item] = 0)
    BY <1>3, <2>1, <2>2 DEF TimeInv
  <2>7. /\ min' \in Nat /\ min' <= min
        /\ connected => \A g \in {item} : Timely(g)'
    <3>1. CASE TimedSkip
      <4>1. min' = min /\ (item \notin enabled \/ Barred(item)) BY <3>1 DEF TimedSkip
      <4> QED BY <1>1, <2>5, <2>6, <4>1 DEF Timely, Barred, store
    <3>2. CASE TimedWait
      <4>1. /\ min' = IF min > Period[item] - age[item] THEN Period[item] - age[item] ELSE min
            /\ age[item] < Period[item]
        BY <3>2 DEF TimedWait
      <4>2. min' <= Period[item] - age[item] /\ min' \in Nat /\ min' <= min BY <2>5, <4>1
      <4> QED BY <1>1, <4>2 DEF Timely, store
    <3> QED BY <3>1, <3>2
  <2> QED BY <1>1, <1>3, <2>1, <2>3, <2>4, <2>6, <2>7, TimeAdvances DEF store
<1> QED BY <1>2, <1>3

LEMMA TimeTimedCall == ASSUME WalkInv, TimeInv, TimedCall PROVE TimeInv'
<1>1. /\ InTimed /\ item # NULL /\ ~called /\ called' /\ item' = item
      /\ age' = [age EXCEPT ![item] = 0] /\ item \in enabled
      /\ UNCHANGED <<lists, enabled, freed, connected, authenticated, pc, min>>
  BY DEF TimedCall, Call, conn
<1>2. CASE pc # "timed1" BY <1>1, <1>2, TimeAway DEF InTimed, TimeOutside
<1>3. CASE pc = "timed1"
  <2>1. On = lists["timed"] /\ Walking /\ "item" \notin freed
    BY <1>1, <1>3, TimeOn DEF WalkInv, PointersInv
  <2>2. On' = On BY <1>1, <1>3 DEF On, Walked
  <2>3. item \in TimedHandlers BY <1>1, <2>1, TimedItem
  <2>4. Members(On) \subseteq TimedHandlers /\ age \in [TimedHandlers -> 0 .. MaxAge]
    BY <2>1, ConstantsIs DEF WalkInv, TypeInv, TypeOK
  <2>5. age'[item] = 0 /\ \A f \in TimedHandlers \ {item} : age'[f] = age[f]
    BY <1>1, <2>3, <2>4
  <2>6. \A g \in {item} : Timely(g)' BY <2>5 DEF Timely
  <2>7. \A f \in TimedHandlers \ {item} : Timely(f)' <=> Timely(f)
    BY <1>1, <2>5 DEF Timely, Barred
  <2>8. ASSUME connected, NEW f \in Members(On), f # item
        PROVE  /\ f \notin enabled => age'[f] = 0
               /\ Timely(f)' \/ Behind(On, item, f)
    <3>1. f \in TimedHandlers BY <2>4
    <3>2. /\ f \notin enabled => age[f] = 0
          /\ Timely(f) \/ Behind(On, item, f)
      BY <1>1, <1>3, <2>1, <2>8 DEF TimeInv, AtOr
    <3> QED BY <2>5, <2>7, <2>8, <3>1, <3>2
  <2>9. \A f \in Members(On) :
            connected => /\ \/ Timely(f)'
                            \/ item # NULL /\ Behind(On, item, f)
                         /\ f \notin enabled => age'[f] = 0
    BY <1>1, <2>5, <2>6, <2>8
  <2> QED BY <1>1, <1>3, <2>1, <2>2, <2>9 DEF TimeInv
<1> QED BY <1>2, <1>3

LEMMA TimeTimedReturn == ASSUME WalkInv, TimeInv, TimedReturn PROVE TimeInv'
<1>1. CASE Stop BY <1>1, TimeAway DEF Stop, TimeOutside
<1>2. CASE ~Stop
  <2>1. /\ Walking /\ item # NULL /\ item \in Members(On) /\ Walked = "timed"
        /\ On \in Seq(Functions) /\ Unique(On) /\ On = lists["timed"]
        /\ "item" \notin freed /\ item' = NextOf(On, item) /\ called' = FALSE
        /\ \/ UNCHANGED store /\ On' = On
           \/ /\ enabled' = enabled \ {item} /\ UNCHANGED <<age, doubtful>>
              /\ Members(On') = Members(On) \ {item}
              /\ \A g, h : Behind(On', g, h) <=> Behind(On, g, h) /\ g # item /\ h # item
    BY <1>2, TimedReturnIs
  <2>2. /\ called /\ UNCHANGED <<pc, min, connected, authenticated>> /\ age' = age
        /\ InTimed
    BY <1>2, <2>1 DEF TimedReturn, conn, store
  <2>3. CASE pc # "timed1" BY <2>2, <2>3, TimeAway DEF InTimed, TimeOutside
  <2>4. CASE pc = "timed1"
    <3>1. min \in Nat BY ConstantsIs DEF WalkInv, TypeInv, TypeOK
    <3>2. connected => Timely(item) /\ (item \notin enabled => age[item] = 0)
      BY <2>1, <2>2, <2>4, OrderIs DEF TimeInv
    <3>3. connected => \A g \in {item} : Timely(g)' BY <2>2, <3>2 DEF Timely, Barred
    <3>4. /\ Members(On') \subseteq Members(On)
          /\ \A g, h : Behind(On, g, h) /\ g # item /\ h # item => Behind(On', g, h)
          /\ enabled \ {item} \subseteq enabled'
          /\ item \in Members(On') => enabled' = enabled
      BY <2>1 DEF store
    <3>5. min' \in Nat /\ min' <= min BY <2>2, <3>1
    <3> QED BY <2>1, <2>2, <2>4, <3>2, <3>3, <3>4, <3>5, TimeAdvances
  <2> QED BY <2>3, <2>4
<1> QED BY <1>1, <1>2

LEMMA TimeTimedEnd == ASSUME WalkInv, TimeInv, TimedEnd PROVE TimeInv'
<1>1. CASE pc # "timed1"
  BY <1>1, TimeAway DEF TimedEnd, InTimed, TimeOutside
<1>2. CASE pc = "timed1"
  <2>1. /\ pc' = "select" /\ min' = min /\ item = NULL
        /\ UNCHANGED <<lists, age, connected, authenticated>>
    BY <1>2 DEF TimedEnd, store, conn
  <2>2. ~called /\ "item" \notin freed
    BY <1>2, <2>1 DEF WalkInv, PointersInv, Walking
  <2>3. connected => \A f \in Members(lists["timed"]) : Timely(f)
    BY <1>2, <2>1, <2>2 DEF TimeInv
  <2>4. \A f : Timely(f)' <=> Timely(f) BY <2>1 DEF Timely, Barred
  <2> QED BY <2>1, <2>3, <2>4 DEF TimeInv
<1> QED BY <1>1, <1>2

LEMMA TimeNext == ASSUME WalkInv, TimeInv, [Next]_vars PROVE TimeInv'
<1>1. CASE UNCHANGED vars BY <1>1, TimeRest DEF vars, store, walk
<1>2. ASSUME \/ Authenticate \/ StreamOpen \/ Connection \/ Time \/ Select
             \/ \E s \in Stanzas : handler_fire_stanza(s)
             \/ IdSkip \/ IdCall \/ IdKeep \/ IdDone
             \/ StanzaStart \/ StanzaSkip \/ StanzaCall \/ StanzaKeep \/ StanzaDone
             \/ StanzaEnd
      PROVE  TimeInv'
  <2>1. pc' \in {"user", "events", "id", "stanza", "undefined"}
    BY <1>2 DEF Authenticate, StreamOpen, Connection, Time, Select, handler_fire_stanza,
         IdSkip, IdCall, IdKeep, IdDone, StanzaStart, StanzaSkip, StanzaCall, StanzaKeep,
         StanzaDone, StanzaEnd, Stop
  <2> QED BY <2>1, TimeAway DEF TimeOutside
<1> QED
  BY <1>1, <1>2, TimeRegister, TimeDelete, TimeStart, TimeTimedStep, TimeTimedCall,
     TimeTimedReturn, TimeTimedEnd
     DEF Next

\* select never sleeps past the time of a handler that may fire by more than what the
\* timeout of xmpp_run_once allows, although the delay leaves out those that just fired and
\* those just added (handler.c:172-181, event.c:158-168).
THEOREM TimedInTime == Spec => []OnTime
<1>1. Init => WalkInv /\ GapInv /\ TimeInv
  <2>1. Init => WalkInv BY WalkInit
  <2>2. Init => GapInv BY DEF Init, GapInv
  <2>3. Init => TimeInv BY DEF Init, TimeInv
  <2> QED BY <2>1, <2>2, <2>3
<1>2. WalkInv /\ GapInv /\ TimeInv /\ [Next]_vars => (WalkInv /\ GapInv /\ TimeInv)'
  BY WalkNext, GapNext, TimeNext
<1>3. WalkInv /\ TimeInv => OnTime
  <2> SUFFICES ASSUME WalkInv, TimeInv, pc = "select", connected,
                      NEW f \in Members(lists["timed"]), ~Barred(f)
               PROVE  age[f] + Delay <= Period[f] \/ age[f] + Delay <= Timeout
    BY DEF OnTime
  <2>1. f \in TimedHandlers BY ConstantsIs DEF WalkInv, TypeInv, TypeOK
  <2>2. age[f] \in Nat /\ min \in Nat /\ Period[f] \in Nat /\ Timeout \in Nat
    BY <2>1, ConstantsIs DEF WalkInv, TypeInv, TypeOK
  <2>3. age[f] = 0 \/ min <= Period[f] - age[f] BY DEF TimeInv, Timely
  <2>4. Delay \in Nat /\ Delay <= min /\ Delay <= Timeout BY <2>2 DEF Delay
  <2> QED BY <2>2, <2>3, <2>4
<1> QED BY <1>1, <1>2, <1>3, PTL DEF Spec
=============================================================================
