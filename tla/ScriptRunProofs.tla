--------------------------- MODULE ScriptRunProofs ---------------------------
(***************************************************************************)
(* Proofs about ScriptRun for any scripts, devices, limits and clocks.     *)
(*                                                                         *)
(* The loop: no wake-up is lost, the barrier lets nothing in time slip by, *)
(* the answer is true, and what the expansion accepts stays in its limits. *)
(*                                                                         *)
(* The matching: the invariant Matched ties the window and the offsets of  *)
(* the code to all that was accepted.  The window is the end of it, and    *)
(* each rule has been served for the places of its word up to its offset   *)
(* (RuleFits).  It rests on lemmas about numbers, about where words stand  *)
(* in texts, and about the search for hits.                                *)
(***************************************************************************)
EXTENDS ScriptRun, SequenceTheorems, FiniteSetTheorems, TLAPS

-----------------------------------------------------------------------------
(* Numbers.  What is computed step by step is reasoned about with sets.     *)

\* A set of numbers has a least one.
LEMMA NatLeast ==
  ASSUME NEW T, T \subseteq Nat, T # {}
  PROVE  \E x \in T : \A y \in T : x <= y
<1> DEFINE U == {1 .. n : n \in T}
<1>1. U \subseteq FiniteSubsetsOf(Nat) /\ U # {}
  <2>1. ASSUME NEW n \in T PROVE 1 .. n \in SUBSET Nat /\ IsFiniteSet(1 .. n)
    BY FS_Interval
  <2> QED
    BY <2>1 DEF FiniteSubsetsOf
<1>2. PICK X \in U : \A Y \in U : ~(<<Y, X>> \in StrictSubsetOrdering(Nat))
  <2> HIDE DEF U
  <2> QED
    BY <1>1, FS_StrictSubsetOrderingWellFounded, WFMin
<1>3. PICK x \in T : X = 1 .. x
  BY <1>2
<1>4. ASSUME NEW y \in T, y < x PROVE FALSE
  <2>1. y \in Nat /\ x \in Nat /\ 1 .. y \in U
    BY <1>4
  <2>2. 1 .. y \subseteq 1 .. x /\ x \in 1 .. x /\ x \notin 1 .. y
    BY <1>4, <2>1
  <2>3. <<1 .. y, 1 .. x>> \in StrictSubsetOrdering(Nat)
    BY <2>1, <2>2 DEF StrictSubsetOrdering
  <2> QED
    BY <1>2, <1>3, <2>1, <2>3
<1>5. \A y \in T : x <= y
  BY <1>4
<1> QED
  BY <1>5

\* Induction, over a set of numbers.
LEMMA NatInduct ==
  ASSUME NEW S, 0 \in S, \A n \in Nat : n \in S => n + 1 \in S
  PROVE  Nat \subseteq S
<1> SUFFICES ASSUME Nat \ S # {} PROVE FALSE
  OBVIOUS
<1>1. PICK x \in Nat \ S : \A y \in Nat \ S : x <= y
  BY NatLeast
<1>2. x # 0 /\ x - 1 \in Nat
  BY <1>1
<1>3. x - 1 \in S
  BY <1>1, <1>2
<1> QED
  BY <1>1, <1>2, <1>3

\* A set of numbers up to n has a greatest one.
LEMMA NatGreatest ==
  ASSUME NEW n \in Nat, NEW T, T \subseteq 0 .. n, T # {}
  PROVE  \E x \in T : \A y \in T : y <= x
<1> DEFINE U == {n - y : y \in T}
<1>1. U \subseteq Nat /\ U # {}
  <2>1. \A y \in T : n - y \in Nat
    OBVIOUS
  <2> QED
    BY <2>1
<1>2. PICK u \in U : \A v \in U : u <= v
  <2> HIDE DEF U
  <2> QED
    BY <1>1, NatLeast
<1>3. PICK x \in T : u = n - x
  BY <1>2
<1>4. ASSUME NEW y \in T PROVE y <= x
  <2>1. n - y \in U
    OBVIOUS
  <2>2. n - x <= n - y
    BY <1>2, <1>3, <2>1
  <2> QED
    BY <2>2
<1> QED
  BY <1>4

Before(N, i) == {j \in N : j < i}

\* Of the members of N those are taken that fewer stand in front of than a
\* limit says: either all are, or the limit is reached and not exceeded.
LEMMA Taking ==
  ASSUME NEW n \in Nat, NEW N, N \subseteq 0 .. n, NEW Free,
         \A k, l \in Nat : k <= l /\ l \in Free => k \in Free,
         NEW took, took \subseteq N,
         \A i \in N : i \in took <=> Cardinality(Before(N, i)) \in Free
  PROVE  /\ IsFiniteSet(took) /\ Cardinality(took) \in Nat
         /\ Cardinality(took) = 0 \/ Cardinality(took) - 1 \in Free
         /\ took = N \/ Cardinality(took) \notin Free
<1> DEFINE Below(i) == Before(N, i)
<1>1. IsFiniteSet(0 .. n)
  BY FS_Interval
<1>a. /\ N \subseteq Nat /\ took \subseteq N
      /\ \A i \in N : i \in took <=> Cardinality(Below(i)) \in Free
  OBVIOUS
<1>b. \A i \in N : \A j : j \in Below(i) <=> j \in N /\ j < i
  BY DEF Before
<1>c. \A i \in N : Below(i) \in SUBSET N
  BY <1>b
<1> HIDE DEF Below
<1>2. \A S \in SUBSET N : IsFiniteSet(S) /\ Cardinality(S) \in Nat
  BY <1>1, FS_Subset, FS_CardinalityType
<1>3. IsFiniteSet(took) /\ Cardinality(took) \in Nat
  BY <1>2
<1>4. ASSUME NEW i \in N, NEW j \in N, j <= i, Cardinality(Below(i)) \in Free
      PROVE  Cardinality(Below(j)) \in Free
  <2>1. ASSUME NEW l \in Below(j) PROVE l \in Below(i)
    <3>1. l \in N /\ l < j
      BY <1>b
    <3>2. l \in Nat /\ j \in Nat /\ i \in Nat
      BY <1>a, <3>1
    <3> QED
      BY <1>4, <1>b, <3>1, <3>2
  <2>2. IsFiniteSet(Below(i)) /\ Cardinality(Below(i)) \in Nat
        /\ Cardinality(Below(j)) \in Nat
    BY <1>2, <1>c
  <2>3. Cardinality(Below(j)) <= Cardinality(Below(i))
    BY <2>1, <2>2, FS_Subset
  <2> QED
    BY <1>4, <2>2, <2>3
<1>5. ASSUME took # {} PROVE Cardinality(took) - 1 \in Free
  <2>1. PICK i \in took : \A j \in took : j <= i
    BY <1>5, <1>a, NatGreatest
  <2>2. took = Below(i) \cup {i} /\ i \notin Below(i)
    <3>1. \A j \in Below(i) : j \in took
      <4>1. i \in N /\ Cardinality(Below(i)) \in Free
        BY <2>1, <1>a
      <4>2. \A j \in Below(i) : j \in N /\ j <= i
        <5>1. ASSUME NEW j \in Below(i) PROVE j \in N /\ j < i
          BY <4>1, <1>b
        <5>2. ASSUME NEW j \in N, j < i PROVE j <= i
          BY <4>1, <5>2, <1>a
        <5> QED
          BY <5>1, <5>2
      <4> QED
        BY <1>4, <4>1, <4>2, <1>a
    <3>2. \A j \in took : j = i \/ j \in Below(i)
      BY <2>1, <1>a, <1>b
    <3>3. i \notin Below(i) /\ i \in took
      BY <2>1, <1>a, <1>b
    <3> QED
      BY <3>1, <3>2, <3>3
  <2>3. Cardinality(took) = Cardinality(Below(i)) + 1
    BY <1>2, <1>c, <1>a, <2>1, <2>2, FS_AddElement
  <2>4. Cardinality(Below(i)) \in Free /\ Cardinality(Below(i)) \in Nat
    BY <1>2, <1>a, <1>c, <2>1
  <2>5. Cardinality(took) - 1 = Cardinality(Below(i))
    BY <2>3, <2>4
  <2> QED
    BY <2>4, <2>5
<1>6. took = {} => Cardinality(took) = 0
  BY FS_EmptySet
<1>7. ASSUME took # N PROVE Cardinality(took) \notin Free
  <2>1. N \ took \subseteq Nat /\ N \ took # {}
    BY <1>7, <1>a
  <2>2. PICK i \in N \ took : \A j \in N \ took : i <= j
    BY <2>1, NatLeast
  <2>3. ASSUME NEW j \in took PROVE j < i
    <3>1. CASE i <= j
      <4>1. Cardinality(Below(j)) \in Free
        BY <1>a
      <4>2. Cardinality(Below(i)) \in Free
        BY <1>4, <1>a, <3>1, <4>1
      <4> QED
        BY <2>2, <4>2, <1>a
    <3> QED
      BY <2>2, <3>1, <1>a
  <2>4. took = Below(i)
    <3>1. \A j \in took : j \in Below(i)
      BY <2>2, <2>3, <1>a, <1>b
    <3>2. \A j \in Below(i) : j \in took
      <4>1. \A j \in Below(i) : j \in N /\ j < i
        BY <1>b, <2>2
      <4>2. ASSUME NEW j \in Below(i), j \notin took PROVE FALSE
        <5>1. i <= j /\ j < i
          BY <2>2, <4>1, <4>2
        <5>2. i \in Nat /\ j \in Nat
          BY <1>a, <4>1
        <5> QED
          BY <5>1, <5>2
      <4> QED
        BY <4>2
    <3> QED
      BY <3>1, <3>2
  <2> QED
    BY <2>2, <2>4, <1>a
<1> QED
  BY <1>3, <1>5, <1>6, <1>7

\* Sizes of finite sets.
LEMMA FiniteUpto ==
  ASSUME NEW n \in Nat, NEW S, S \subseteq 0 .. n
  PROVE  IsFiniteSet(S) /\ Cardinality(S) \in Nat
<1>1. IsFiniteSet(0 .. n)
  BY FS_Interval
<1> QED
  BY <1>1, FS_Subset, FS_CardinalityType

\* Two sets without a common member count as one.
LEMMA DisjointSum ==
  ASSUME NEW S, NEW T, IsFiniteSet(S), IsFiniteSet(T), S \cap T = {}
  PROVE  Cardinality(S \cup T) = Cardinality(S) + Cardinality(T)
<1>1. Cardinality(S \cap T) = 0
  BY FS_EmptySet
<1>2. Cardinality(S) \in Nat /\ Cardinality(T) \in Nat
  BY FS_CardinalityType
<1>3. Cardinality(S \cup T) =
        Cardinality(S) + Cardinality(T) - Cardinality(S \cap T)
  BY FS_Union
<1> QED
  BY <1>1, <1>2, <1>3

\* What is numbered through without gap or repetition is as many.
LEMMA SameSize ==
  ASSUME NEW S, NEW T, IsFiniteSet(S), NEW f \in [S -> T],
         \A x, y \in S : f[x] = f[y] => x = y,
         \A z \in T : \E x \in S : f[x] = z
  PROVE  IsFiniteSet(T) /\ Cardinality(T) = Cardinality(S)
<1>1. f \in Bijection(S, T)
  BY DEF Bijection, Injection, Surjection, IsInjective
<1>2. ExistsBijection(S, T)
  BY <1>1 DEF ExistsBijection
<1> QED
  BY <1>2, FS_Bijection

\* What a bound by division bounds.
LEMMA DivBound ==
  ASSUME NEW a \in Nat, NEW d \in Nat \ {0}, NEW k \in Nat, k <= a \div d
  PROVE  k * d \in 0 .. a
<1>1. PICK q \in Int : q = a \div d
  OBVIOUS
<1>2. d * (a \div d) <= a
  OBVIOUS
<1>3. d * q <= a /\ k <= q
  BY <1>1, <1>2
<1>4. d * k <= d * q
  BY <1>3
<1>5. d * k \in Nat /\ d * q \in Int /\ d * k = k * d
  OBVIOUS
<1> QED
  BY <1>3, <1>4, <1>5

-----------------------------------------------------------------------------
(* Words, and where they stand in a text.                                   *)

\* Where a word stands, letter by letter.
LEMMA StandsAt ==
  ASSUME NEW word \in Seq(Letters), NEW text \in Seq(Letters),
         NEW p \in Nat \ {0}
  PROVE  p \in Standing(word, text) <=>
           /\ p + Len(word) - 1 <= Len(text)
           /\ \A i \in 1 .. Len(word) : text[p + i - 1] = word[i]
<1> DEFINE here == SubSeq(text, p, p + Len(word) - 1)
<1>1. ASSUME p + Len(word) - 1 <= Len(text)
      PROVE  here = word
               <=> \A i \in 1 .. Len(word) : text[p + i - 1] = word[i]
  <2>1. \A i \in p .. p + Len(word) - 1 : text[i] \in Letters
    BY <1>1
  <2>2. /\ here \in Seq(Letters) /\ Len(here) = Len(word)
        /\ \A i \in 1 .. Len(word) : here[i] = text[p + i - 1]
    BY <1>1, <2>1, SubSeqProperties
  <2>3. here = word <=> \A i \in 1 .. Len(word) : here[i] = word[i]
    BY <2>2, SeqEqual
  <2> QED
    BY <2>2, <2>3
<1> HIDE DEF here
<1>2. p \in Standing(word, text) <=>
        p + Len(word) - 1 <= Len(text) /\ here = word
  <2>1. p \in 1 .. Len(text) - Len(word) + 1 <=> p + Len(word) - 1 <= Len(text)
    OBVIOUS
  <2> QED
    BY <2>1 DEF Standing, here
<1> QED
  BY <1>1, <1>2

\* A place is a position, and the word ends within the text.
LEMMA StandingTypes ==
  ASSUME NEW word \in Seq(Letters), NEW text \in Seq(Letters),
         NEW p \in Standing(word, text)
  PROVE  p \in Nat \ {0} /\ p + Len(word) - 1 <= Len(text)
<1> QED
  BY DEF Standing

\* Two places of a word that is no shifted copy of itself do not overlap.
LEMMA SimpleApart ==
  ASSUME NEW word \in Seq(Letters), NEW text \in Seq(Letters), Simple(word),
         NEW p \in Standing(word, text), NEW q \in Standing(word, text), p < q
  PROVE  p + Len(word) <= q
<1> SUFFICES ASSUME q < p + Len(word) PROVE FALSE
  BY StandingTypes
<1> DEFINE k == q - p
           left == SubSeq(word, 1, Len(word) - k)
           right == SubSeq(word, k + 1, Len(word))
<1>1. p \in Nat \ {0} /\ q \in Nat \ {0} /\ k \in 1 .. Len(word) - 1
  BY StandingTypes
<1>2. /\ left \in Seq(Letters) /\ Len(left) = Len(word) - k
      /\ \A i \in 1 .. Len(word) - k : left[i] = word[i]
  <2>1. \A i \in 1 .. Len(word) - k : word[i] \in Letters
    BY <1>1
  <2> QED
    BY <1>1, <2>1, SubSeqProperties
<1>3. /\ right \in Seq(Letters) /\ Len(right) = Len(word) - k
      /\ \A i \in 1 .. Len(word) - k : right[i] = word[k + i]
  <2>1. \A i \in k + 1 .. Len(word) : word[i] \in Letters
    BY <1>1
  <2> QED
    BY <1>1, <2>1, SubSeqProperties
<1>4. ASSUME NEW i \in 1 .. Len(word) - k PROVE left[i] = right[i]
  <2>1. \A n \in 1 .. Len(word) :
          text[p + n - 1] = word[n] /\ text[q + n - 1] = word[n]
    <3>1. \A n \in 1 .. Len(word) : text[p + n - 1] = word[n]
      BY <1>1, StandsAt
    <3>2. \A n \in 1 .. Len(word) : text[q + n - 1] = word[n]
      BY <1>1, StandsAt
    <3> QED
      BY <3>1, <3>2
  <2>2. /\ k + i \in 1 .. Len(word) /\ i \in 1 .. Len(word)
        /\ p + (k + i) - 1 = q + i - 1
    BY <1>1
  <2>3. text[q + i - 1] = word[i] /\ text[p + (k + i) - 1] = word[k + i]
    BY <2>1, <2>2
  <2> QED
    <3>1. left[i] = word[i] /\ right[i] = word[k + i]
      BY <1>2, <1>3
    <3>2. text[q + i - 1] = text[p + (k + i) - 1]
      BY <2>2
    <3> QED
      BY <2>3, <3>1, <3>2
<1>5. left = right
  BY <1>2, <1>3, <1>4, SeqEqual
<1> QED
  BY <1>1, <1>5 DEF Simple

\* More text takes no place away, and a new one reaches into what is new.
LEMMA StandingGrows ==
  ASSUME NEW word \in Seq(Letters), NEW text \in Seq(Letters),
         NEW more \in Seq(Letters)
  PROVE  /\ text \o more \in Seq(Letters)
         /\ Standing(word, text)
              = {p \in Standing(word, text \o more) :
                   p + Len(word) - 1 <= Len(text)}
<1>1. /\ text \o more \in Seq(Letters)
      /\ Len(text \o more) = Len(text) + Len(more)
      /\ \A i \in 1 .. Len(text) : (text \o more)[i] = text[i]
  OBVIOUS
<1>2. ASSUME NEW p \in Nat \ {0}, p + Len(word) - 1 <= Len(text),
             NEW i \in 1 .. Len(word)
      PROVE  (text \o more)[p + i - 1] = text[p + i - 1]
  <2>1. p + i - 1 \in 1 .. Len(text)
    BY <1>2
  <2> QED
    BY <1>1, <2>1
<1>3. ASSUME NEW p \in Nat \ {0}
      PROVE  p \in Standing(word, text) <=>
               /\ p \in Standing(word, text \o more)
               /\ p + Len(word) - 1 <= Len(text)
  <2> DEFINE all == text \o more
  <2>1. p \in Standing(word, text) <=>
          /\ p + Len(word) - 1 <= Len(text)
          /\ \A i \in 1 .. Len(word) : text[p + i - 1] = word[i]
    BY StandsAt
  <2> HIDE DEF all
  <2>2. p \in Standing(word, all) <=>
          /\ p + Len(word) - 1 <= Len(all)
          /\ \A i \in 1 .. Len(word) : all[p + i - 1] = word[i]
    BY <1>1, StandsAt DEF all
  <2>3. p + Len(word) - 1 <= Len(text) =>
          \A i \in 1 .. Len(word) : all[p + i - 1] = text[p + i - 1]
    BY <1>2 DEF all
  <2>4. Len(text) <= Len(all) /\ Len(text) \in Nat /\ Len(all) \in Nat
    BY <1>1 DEF all
  <2>5. p \in Standing(word, text) <=>
          p \in Standing(word, all) /\ p + Len(word) - 1 <= Len(text)
    BY <2>1, <2>2, <2>3, <2>4
  <2> QED
    BY <2>5 DEF all
<1> QED
  BY <1>1, <1>3, StandingTypes

\* The places in the end of a text are places of the text.
LEMMA StandingInTail ==
  ASSUME NEW word \in Seq(Letters), NEW text \in Seq(Letters),
         NEW b \in 0 .. Len(text), NEW i \in Nat \ {0}
  PROVE  i \in Standing(word, SubSeq(text, b + 1, Len(text)))
           <=> b + i \in Standing(word, text)
<1> DEFINE win == SubSeq(text, b + 1, Len(text))
<1>1. /\ win \in Seq(Letters) /\ Len(win) = Len(text) - b
      /\ \A k \in 1 .. Len(text) - b : win[k] = text[b + k]
  <2>1. \A k \in b + 1 .. Len(text) : text[k] \in Letters
    OBVIOUS
  <2> QED
    BY <2>1, SubSeqProperties
<1>2. ASSUME i + Len(word) - 1 <= Len(win), NEW k \in 1 .. Len(word)
      PROVE  win[i + k - 1] = text[(b + i) + k - 1]
  <2>1. i + k - 1 \in 1 .. Len(text) - b
    BY <1>1, <1>2
  <2> QED
    BY <1>1, <2>1
<1> HIDE DEF win
<1>3. i + Len(word) - 1 <= Len(win) <=> (b + i) + Len(word) - 1 <= Len(text)
  BY <1>1
<1>4. i \in Standing(word, win) <=> b + i \in Standing(word, text)
  <2>1. i \in Standing(word, win) <=>
          /\ i + Len(word) - 1 <= Len(win)
          /\ \A k \in 1 .. Len(word) : win[i + k - 1] = word[k]
    BY <1>1, StandsAt
  <2>2. b + i \in Standing(word, text) <=>
          /\ (b + i) + Len(word) - 1 <= Len(text)
          /\ \A k \in 1 .. Len(word) : text[(b + i) + k - 1] = word[k]
    <3>1. b + i \in Nat \ {0}
      OBVIOUS
    <3> QED
      BY <3>1, StandsAt
  <2> QED
    BY <1>2, <1>3, <2>1, <2>2
<1> QED
  BY <1>4 DEF win

\* The hits of a search are places of the word and do not overlap; where the
\* places do not, they are all of them.
LEMMA FindAllHits ==
  ASSUME NEW word \in Seq(Letters), NEW win \in Seq(Letters)
  PROVE  /\ FindAll(win, word) \subseteq Standing(word, win)
         /\ \A p, q \in FindAll(win, word) : p < q => p + Len(word) <= q
         /\ Simple(word) => FindAll(win, word) = Standing(word, win)
<1> DEFINE St == Standing(word, win)
           Free(H, p) == \A h \in H : h < p => h + Len(word) <= p
           Upto(H, m) == /\ \A p \in H : p <= m
                         /\ \A p \in St : p <= m => (p \in H <=> Free(H, p))
           S == {m \in Nat : \E H \in SUBSET St : Upto(H, m)}
<1>1. St \subseteq Nat /\ \A p \in St : p <= Len(win) + 1
  BY StandingTypes
<1> HIDE DEF St
<1>2. 0 \in S
  <2>1. \A p \in St : ~(p <= 0)
    BY StandingTypes DEF St
  <2>2. Upto({}, 0)
    BY <2>1
  <2> QED
    BY <2>2
<1>3. ASSUME NEW m \in Nat, m \in S PROVE m + 1 \in S
  <2>1. PICK H \in SUBSET St : Upto(H, m)
    BY <1>3
  <2>2. CASE m + 1 \in St /\ Free(H, m + 1)
    <3> DEFINE G == H \cup {m + 1}
    <3>1. \A p \in St : p <= m => (Free(G, p) <=> Free(H, p))
      BY <1>1
    <3>2. Free(G, m + 1)
      BY <2>2
    <3>3. \A p \in St : p <= m + 1 => p <= m \/ p = m + 1
      BY <1>1
    <3>4. \A p \in St : p <= m => p # m + 1
      BY <1>1
    <3>5. ASSUME NEW p \in St, p <= m + 1 PROVE p \in G <=> Free(G, p)
      <4>1. CASE p <= m
        <5>1. p \in G <=> p \in H
          BY <3>4, <4>1
        <5>2. p \in H <=> Free(H, p)
          BY <2>1, <4>1
        <5>3. Free(G, p) <=> Free(H, p)
          BY <3>1, <4>1
        <5> HIDE DEF Free, G
        <5> QED
          BY <5>1, <5>2, <5>3
      <4>2. CASE p = m + 1
        BY <3>2, <4>2
      <4> QED
        BY <3>3, <3>5, <4>1, <4>2
    <3>6. \A p \in G : p <= m + 1
      BY <1>1, <2>1
    <3>7. G \in SUBSET St
      BY <2>2
    <3> HIDE DEF G
    <3>8. Upto(G, m + 1)
      BY <3>5, <3>6
    <3> HIDE DEF Upto
    <3> QED
      BY <3>7, <3>8
  <2>3. CASE ~(m + 1 \in St /\ Free(H, m + 1))
    <3>1. m + 1 \notin H
      BY <2>1
    <3>2. \A p \in St : p <= m + 1 => p <= m \/ p = m + 1
      BY <1>1
    <3>3. ASSUME NEW p \in St, p <= m + 1 PROVE p \in H <=> Free(H, p)
      <4>1. CASE p <= m
        BY <2>1, <4>1
      <4>2. CASE p = m + 1
        BY <2>3, <3>1, <4>2
      <4> QED
        BY <3>2, <3>3, <4>1, <4>2
    <3>4. \A p \in H : p <= m + 1
      BY <1>1, <2>1
    <3>5. Upto(H, m + 1)
      BY <3>3, <3>4
    <3> QED
      BY <3>5
  <2> QED
    BY <2>2, <2>3
<1>4. Nat \subseteq S
  <2> HIDE DEF S
  <2> QED
    BY <1>2, <1>3, NatInduct
<1>5. \E H \in SUBSET St : \A p \in St : p \in H <=> Free(H, p)
  <2>1. Len(win) + 1 \in S
    BY <1>4
  <2>2. PICK H \in SUBSET St : Upto(H, Len(win) + 1)
    BY <2>1
  <2> QED
    BY <1>1, <2>2
<1> DEFINE F == FindAll(win, word)
<1>6. F \in SUBSET St /\ \A p \in St : p \in F <=> Free(F, p)
  BY <1>5 DEF FindAll, St
<1> HIDE DEF F
<1>7. \A p, q \in F : p < q => p + Len(word) <= q
  BY <1>6
<1>8. Simple(word) => F = St
  <2> SUFFICES ASSUME Simple(word), NEW p \in St PROVE p \in F
    BY <1>6
  <2>1. ASSUME NEW h \in F, h < p PROVE h + Len(word) <= p
    <3>1. h \in St
      BY <1>6
    <3> QED
      BY <2>1, <3>1, SimpleApart DEF St
  <2> QED
    BY <1>6, <2>1
<1> QED
  BY <1>6, <1>7, <1>8 DEF F, St

-----------------------------------------------------------------------------
(* The pieces of a text.                                                    *)

\* What FlattenSeq computes piece by piece.
LEMMA FlattenPieces ==
  ASSUME NEW s \in Seq(Seq(Letters)), Len(s) > 0
  PROVE  \E f \in [1 .. Len(s) -> Seq(Letters)] :
           /\ FlattenSeq(s) = f[Len(s)] /\ f[1] = s[1]
           /\ \A i \in 2 .. Len(s) : f[i] = f[i - 1] \o s[i]
<1> DEFINE Good(f, m) ==
             f[1] = s[1] /\ \A i \in 2 .. m : f[i] = f[i - 1] \o s[i]
           S == {m \in Nat : m + 1 <= Len(s) =>
                   \E f \in [1 .. m + 1 -> Seq(Letters)] : Good(f, m + 1)}
<1>1. 0 \in S
  <2> DEFINE f == [i \in 1 .. 1 |-> s[1]]
  <2>1. s[1] \in Seq(Letters)
    OBVIOUS
  <2>2. f \in [1 .. 1 -> Seq(Letters)] /\ Good(f, 1)
    BY <2>1
  <2> HIDE DEF f, Good
  <2> QED
    BY <2>2
<1>2. ASSUME NEW m \in Nat, m \in S PROVE m + 1 \in S
  <2> SUFFICES ASSUME m + 2 <= Len(s)
               PROVE  \E f \in [1 .. m + 2 -> Seq(Letters)] : Good(f, m + 2)
    <3> HIDE DEF Good
    <3>1. (m + 1) + 1 = m + 2 /\ m + 1 \in Nat
      OBVIOUS
    <3> QED
      BY <3>1
  <2>1. PICK f \in [1 .. m + 1 -> Seq(Letters)] : Good(f, m + 1)
    <3> HIDE DEF Good
    <3> QED
      BY <1>2
  <2>2. f[m + 1] \o s[m + 2] \in Seq(Letters)
    OBVIOUS
  <2>3. PICK v \in Seq(Letters) : v = f[m + 1] \o s[m + 2]
    BY <2>2
  <2> DEFINE g == [i \in 1 .. m + 2 |-> IF i = m + 2 THEN v ELSE f[i]]
  <2>4. g \in [1 .. m + 2 -> Seq(Letters)] /\ \A i \in 1 .. m + 1 : g[i] = f[i]
    OBVIOUS
  <2>5. g[m + 2] = v
    OBVIOUS
  <2> HIDE DEF g
  <2>6. ASSUME NEW i \in 2 .. m + 2 PROVE g[i] = g[i - 1] \o s[i]
    <3>1. CASE i = m + 2
      <4>1. i - 1 = m + 1 /\ m + 1 \in 1 .. m + 1
        BY <3>1
      <4>2. g[i - 1] = f[m + 1]
        BY <2>4, <4>1
      <4> QED
        BY <2>3, <2>5, <3>1, <4>2
    <3>2. CASE i \in 2 .. m + 1
      <4>1. i \in 1 .. m + 1 /\ i - 1 \in 1 .. m + 1
        BY <3>2
      <4>2. g[i] = f[i] /\ g[i - 1] = f[i - 1]
        BY <2>4, <4>1
      <4>3. f[i] = f[i - 1] \o s[i]
        BY <2>1, <3>2
      <4> QED
        BY <4>2, <4>3
    <3>3. i = m + 2 \/ i \in 2 .. m + 1
      OBVIOUS
    <3> QED
      BY <3>1, <3>2, <3>3
  <2>7. g[1] = s[1]
    BY <2>1, <2>4
  <2> QED
    BY <2>4, <2>6, <2>7
<1>3. Nat \subseteq S
  <2> HIDE DEF S
  <2> QED
    BY <1>1, <1>2, NatInduct
<1>4. PICK f \in [1 .. Len(s) -> Seq(Letters)] : Good(f, Len(s))
  <2>1. Len(s) - 1 \in Nat
    OBVIOUS
  <2>2. Len(s) - 1 \in S
    BY <1>3, <2>1
  <2>3. (Len(s) - 1) + 1 = Len(s)
    OBVIOUS
  <2> HIDE DEF Good
  <2> QED
    BY <2>2, <2>3
<1> DEFINE flatten == CHOOSE flatten : flatten =
             [i \in 1 .. Len(s) |->
                IF i = 1 THEN s[i] ELSE flatten[i - 1] \o s[i]]
<1>5. f = [i \in 1 .. Len(s) |-> IF i = 1 THEN s[i] ELSE f[i - 1] \o s[i]]
  <2>1. ASSUME NEW i \in 1 .. Len(s)
        PROVE  f[i] = IF i = 1 THEN s[i] ELSE f[i - 1] \o s[i]
    <3>1. CASE i = 1
      BY <1>4, <3>1
    <3>2. CASE i # 1
      <4>1. i \in 2 .. Len(s)
        BY <3>2
      <4> QED
        BY <1>4, <3>2, <4>1
    <3> QED
      BY <3>1, <3>2
  <2> QED
    BY <2>1
<1>6. flatten = [i \in 1 .. Len(s) |->
                   IF i = 1 THEN s[i] ELSE flatten[i - 1] \o s[i]]
  BY <1>5
<1>7. FlattenSeq(s) = flatten[Len(s)]
  BY DEF FlattenSeq, flatten
<1> HIDE DEF flatten
<1>8. /\ flatten[1] = s[1]
      /\ \A i \in 2 .. Len(s) : flatten[i] = flatten[i - 1] \o s[i]
  <2>1. \A i \in 1 .. Len(s) :
          flatten[i] = IF i = 1 THEN s[i] ELSE flatten[i - 1] \o s[i]
    BY <1>6
  <2>2. 1 \in 1 .. Len(s)
    OBVIOUS
  <2>3. \A i \in 2 .. Len(s) : i \in 1 .. Len(s) /\ i # 1
    OBVIOUS
  <2> QED
    BY <2>1, <2>2, <2>3
<1>9. \A i \in 1 .. Len(s) : flatten[i] = f[i]
  <2> DEFINE T == {m \in Nat : m + 1 <= Len(s) => flatten[m + 1] = f[m + 1]}
  <2>1. 0 \in T
    BY <1>4, <1>8
  <2>2. ASSUME NEW m \in Nat, m \in T PROVE m + 1 \in T
    <3> SUFFICES ASSUME m + 2 <= Len(s) PROVE flatten[m + 2] = f[m + 2]
      <4>1. (m + 1) + 1 = m + 2 /\ m + 1 \in Nat
        OBVIOUS
      <4> QED
        BY <4>1
    <3>a. m + 2 \in 2 .. Len(s) /\ (m + 2) - 1 = m + 1
      OBVIOUS
    <3>1. flatten[m + 1] = f[m + 1]
      BY <2>2
    <3>2. flatten[m + 2] = flatten[m + 1] \o s[m + 2]
      BY <1>8, <3>a
    <3>3. f[m + 2] = f[m + 1] \o s[m + 2]
      BY <1>4, <3>a
    <3> QED
      BY <3>1, <3>2, <3>3
  <2>3. Nat \subseteq T
    <3> HIDE DEF T
    <3> QED
      BY <2>1, <2>2, NatInduct
  <2>4. ASSUME NEW i \in 1 .. Len(s) PROVE flatten[i] = f[i]
    <3>1. i - 1 \in Nat /\ (i - 1) + 1 = i
      OBVIOUS
    <3>2. i - 1 \in T
      BY <2>3, <3>1
    <3> QED
      BY <3>1, <3>2
  <2> QED
    BY <2>4
<1>10. FlattenSeq(s) = f[Len(s)]
  BY <1>7, <1>9
<1> QED
  BY <1>4, <1>10

\* One more piece comes behind what there is.
LEMMA FlattenAppend ==
  ASSUME NEW s \in Seq(Seq(Letters)), NEW x \in Seq(Letters)
  PROVE  /\ FlattenSeq(s) \in Seq(Letters)
         /\ FlattenSeq(Append(s, x)) = FlattenSeq(s) \o x
<1> DEFINE n == Len(s)
           t == Append(s, x)
<1>1. t \in Seq(Seq(Letters)) /\ Len(t) = n + 1 /\ n \in Nat
      /\ t[n + 1] = x /\ \A i \in 1 .. n : t[i] = s[i]
  OBVIOUS
<1> HIDE DEF t
<1>2. PICK g \in [1 .. Len(t) -> Seq(Letters)] :
        /\ FlattenSeq(t) = g[Len(t)] /\ g[1] = t[1]
        /\ \A i \in 2 .. Len(t) : g[i] = g[i - 1] \o t[i]
  <2>1. Len(t) > 0
    BY <1>1
  <2> QED
    BY <1>1, <2>1, FlattenPieces
<1>3. CASE n = 0
  <2>1. s = <<>> /\ FlattenSeq(s) = s
    BY <1>3 DEF FlattenSeq
  <2>2. FlattenSeq(t) = x
    BY <1>1, <1>2, <1>3
  <2>3. <<>> \o x = x /\ <<>> \in Seq(Letters)
    OBVIOUS
  <2> QED
    BY <2>1, <2>2, <2>3 DEF t
<1>4. CASE n > 0
  <2>1. PICK f \in [1 .. n -> Seq(Letters)] :
          /\ FlattenSeq(s) = f[n] /\ f[1] = s[1]
          /\ \A i \in 2 .. n : f[i] = f[i - 1] \o s[i]
    BY <1>4, FlattenPieces
  <2> DEFINE T == {m \in Nat : m + 1 <= n => f[m + 1] = g[m + 1]}
  <2>2. 0 \in T
    BY <1>1, <1>2, <1>4, <2>1
  <2>3. ASSUME NEW m \in Nat, m \in T PROVE m + 1 \in T
    <3> SUFFICES ASSUME m + 2 <= n PROVE f[m + 2] = g[m + 2]
      <4>1. (m + 1) + 1 = m + 2 /\ m + 1 \in Nat
        OBVIOUS
      <4> QED
        BY <4>1
    <3>1. f[m + 1] = g[m + 1]
      BY <2>3
    <3>2. m + 2 \in 2 .. n /\ m + 2 \in 2 .. Len(t) /\ (m + 2) - 1 = m + 1
          /\ m + 2 \in 1 .. n
      BY <1>1
    <3>3. f[m + 2] = f[m + 1] \o s[m + 2]
      BY <2>1, <3>2
    <3>4. g[m + 2] = g[m + 1] \o t[m + 2]
      BY <1>2, <3>2
    <3>5. t[m + 2] = s[m + 2]
      BY <1>1, <3>2
    <3> QED
      BY <3>1, <3>3, <3>4, <3>5
  <2>4. Nat \subseteq T
    <3> HIDE DEF T
    <3> QED
      BY <2>2, <2>3, NatInduct
  <2>5. f[n] = g[n]
    <3>1. n - 1 \in Nat /\ (n - 1) + 1 = n
      BY <1>1, <1>4
    <3>2. n - 1 \in T
      BY <2>4, <3>1
    <3> QED
      BY <3>1, <3>2
  <2>6. g[n + 1] = g[n] \o x
    <3>1. n + 1 \in 2 .. Len(t) /\ (n + 1) - 1 = n
      BY <1>1, <1>4
    <3> QED
      BY <1>1, <1>2, <3>1
  <2>7. f[n] \in Seq(Letters)
    BY <1>1, <1>4
  <2> QED
    BY <1>1, <1>2, <2>1, <2>5, <2>6, <2>7 DEF t
<1> QED
  BY <1>1, <1>3, <1>4

-----------------------------------------------------------------------------
(* What is true of one rule between two hits.                               *)

Passed(word, text, from) ==
  {p \in Standing(word, text) : p + Len(word) - 1 <= from}

\* What is true of one rule: it has been served for as many places as end
\* before its offset, the hits in work are further places, and together they
\* are as many as it may serve or as there are.
RuleFits(word, text, count, from, hits, free) ==
  LET n   == count + Cardinality(hits)
      len == Len(word)
  IN  /\ IsFiniteSet(hits)
      /\ count <= Cardinality(Passed(word, text, from))
      /\ n = 0 \/ n - 1 \in free
      /\ Simple(word) => n \notin free \/ n = Cardinality(Standing(word, text))
      /\ from = 0 \/ from - len + 1 \in Standing(word, text)
      /\ \A h \in hits : /\ h.end \in Nat /\ h.end - len >= from
                         /\ h.end - len + 1 \in Standing(word, text)
      /\ \A g, h \in hits : g.end < h.end => g.end + len <= h.end

\* A text has finitely many places.
LEMMA StandingFinite ==
  ASSUME NEW word \in Seq(Letters), NEW text \in Seq(Letters)
  PROVE  \A S \in SUBSET Standing(word, text) :
           IsFiniteSet(S) /\ Cardinality(S) \in Nat
<1>1. Standing(word, text) \subseteq 1 .. Len(text) - Len(word) + 1
  BY DEF Standing
<1>2. IsFiniteSet(1 .. Len(text) - Len(word) + 1)
  <2>1. Len(text) - Len(word) + 1 \in Int
    OBVIOUS
  <2> QED
    BY <2>1, FS_Interval
<1>3. ASSUME NEW S \in SUBSET Standing(word, text) PROVE IsFiniteSet(S)
  <2>1. S \in SUBSET (1 .. Len(text) - Len(word) + 1)
    BY <1>1
  <2> QED
    BY <1>2, <2>1, FS_Subset
<1> QED
  BY <1>3, FS_CardinalityType

\* At the start nothing stands anywhere.
LEMMA FitsEmpty ==
  ASSUME NEW word \in Seq(Letters), Len(word) > 0, NEW free
  PROVE  RuleFits(word, <<>>, 0, 0, {}, free)
<1>1. Standing(word, <<>>) = {}
  BY DEF Standing
<1>2. IsFiniteSet({}) /\ Cardinality({}) = 0
  BY FS_EmptySet
<1>3. Passed(word, <<>>, 0) = {}
  BY <1>1 DEF Passed
<1>4. 0 + Cardinality({}) = 0
  BY <1>2
<1>5. Simple(word) => 0 = Cardinality(Standing(word, <<>>))
  BY <1>1, <1>2
<1> QED
  BY <1>2, <1>3, <1>4, <1>5 DEF RuleFits

\* The first of the hits is served.
LEMMA FitsServed ==
  ASSUME NEW word \in Seq(Letters), Len(word) > 0, NEW text \in Seq(Letters),
         NEW count \in Nat, NEW from \in Nat, NEW hits, NEW free,
         RuleFits(word, text, count, from, hits, free),
         NEW h \in hits,
         \A g \in hits : g # h => h.end < g.end
  PROVE  RuleFits(word, text, count + 1, h.end, hits \ {h}, free)
<1> DEFINE len == Len(word)
           St == Standing(word, text)
           P(m) == Passed(word, text, m)
           new == h.end - len + 1
<1>1. /\ IsFiniteSet(hits) /\ IsFiniteSet(hits \ {h})
      /\ Cardinality(hits) \in Nat
      /\ Cardinality(hits \ {h}) = Cardinality(hits) - 1
  <2>1. IsFiniteSet(hits)
    BY DEF RuleFits
  <2> QED
    BY <2>1, FS_RemoveElement, FS_CardinalityType
<1>2. (count + 1) + Cardinality(hits \ {h}) = count + Cardinality(hits)
  BY <1>1
<1>3. h.end \in Nat /\ new \in St /\ h.end - len >= from
  BY DEF RuleFits
<1>4. count <= Cardinality(P(from))
  BY DEF RuleFits
<1>5. P(from) \cup {new} \in SUBSET P(h.end) /\ new \notin P(from)
  <2>1. \A p \in St : p \in Nat \ {0}
    BY StandingTypes
  <2>2. from <= h.end
    BY <1>3
  <2>3. \A p \in St : p + len - 1 <= from => p + len - 1 <= h.end
    BY <1>3, <2>1, <2>2
  <2>4. new + len - 1 = h.end /\ ~(new + len - 1 <= from)
    BY <1>3
  <2> QED
    BY <1>3, <2>3, <2>4 DEF Passed
<1>6. /\ P(from) \in SUBSET St /\ P(h.end) \in SUBSET St
  BY DEF Passed
<1> HIDE DEF P, St
<1>7. IsFiniteSet(P(from)) /\ Cardinality(P(from)) \in Nat
      /\ IsFiniteSet(P(h.end)) /\ Cardinality(P(h.end)) \in Nat
  BY <1>6, StandingFinite DEF St
<1>8. Cardinality(P(from) \cup {new}) = Cardinality(P(from)) + 1
  BY <1>5, <1>7, FS_AddElement
<1>9. Cardinality(P(from) \cup {new}) <= Cardinality(P(h.end))
  BY <1>5, <1>7, FS_Subset
<1>10. count + 1 <= Cardinality(P(h.end))
  BY <1>4, <1>7, <1>8, <1>9
<1>11. ASSUME NEW g \in hits \ {h}
       PROVE  /\ g.end \in Nat /\ g.end - len >= h.end
              /\ g.end - len + 1 \in Standing(word, text)
  <2>1. h.end < g.end
    OBVIOUS
  <2>2. h.end + len <= g.end /\ g.end \in Nat
        /\ g.end - len + 1 \in Standing(word, text)
    BY <2>1 DEF RuleFits
  <2> QED
    BY <1>3, <2>2
<1>12. \A g, k \in hits \ {h} : g.end < k.end => g.end + len <= k.end
  BY DEF RuleFits
<1> DEFINE n == count + Cardinality(hits)
<1>13. /\ n = 0 \/ n - 1 \in free
       /\ Simple(word) =>
            n \notin free \/ n = Cardinality(Standing(word, text))
  BY DEF RuleFits
<1> HIDE DEF n
<1> QED
  BY <1>1, <1>2, <1>3, <1>10, <1>11, <1>12, <1>13 DEF RuleFits, P, St, n

\* A piece has come, and the hits are searched for in the window and the piece.
LEMMA FitsNew ==
  ASSUME NEW word \in Seq(Letters), Len(word) > 0,
         NEW text \in Seq(Letters), NEW more \in Seq(Letters),
         NEW b \in 0 .. Len(text), b > 0 => Len(text) - b = WindowMax,
         NEW count \in Nat, NEW from \in Nat, NEW free, NEW r,
         \A k, l \in Nat : k <= l /\ l \in free => k \in free,
         RuleFits(word, text, count, from, {}, free),
         NEW win, win = SubSeq(text \o more, b + 1, Len(text \o more)),
         NEW new, new \subseteq FindAll(win, word),
         \A i \in FindAll(win, word) : i \in new <=> b + i - 1 >= from,
         NEW took, took \subseteq new,
         \A i \in new :
           i \in took <=> count + Cardinality(Before(new, i)) \in free,
         NEW hits,
         \A h \in hits : \E i \in took :
           h = [rule |-> r, end |-> b + i - 1 + Len(word)],
         \A i \in took : [rule |-> r, end |-> b + i - 1 + Len(word)] \in hits
  PROVE  RuleFits(word, text \o more, count, from, hits, free)
<1> DEFINE len == Len(word)
           all == text \o more
           St == Standing(word, text)
           Sa == Standing(word, all)
<1>1. all \in Seq(Letters) /\ Len(all) = Len(text) + Len(more)
  OBVIOUS
<1>2. St = {p \in Sa : p + len - 1 <= Len(text)}
  BY StandingGrows
<1>b. win = SubSeq(all, b + 1, Len(all))
  OBVIOUS
<1> HIDE DEF all
<1>3. win \in Seq(Letters) /\ Len(win) = Len(all) - b
  <2>1. \A k \in b + 1 .. Len(all) : all[k] \in Letters
    BY <1>1
  <2>2. SubSeq(all, b + 1, Len(all)) \in Seq(Letters)
        /\ Len(SubSeq(all, b + 1, Len(all))) =
             IF b + 1 <= Len(all) THEN Len(all) - (b + 1) + 1 ELSE 0
    BY <1>1, <2>1, SubSeqProperties
  <2> QED
    BY <1>1, <1>b, <2>2
<1>4. \A i \in Nat \ {0} : i \in Standing(word, win) <=> b + i \in Sa
  <2>1. b \in 0 .. Len(all)
    BY <1>1
  <2> QED
    BY <1>1, <1>b, <2>1, StandingInTail
<1>5. /\ FindAll(win, word) \subseteq Standing(word, win)
      /\ \A p, q \in FindAll(win, word) : p < q => p + len <= q
      /\ Simple(word) => FindAll(win, word) = Standing(word, win)
  BY <1>3, FindAllHits
<1>6. \A p \in Standing(word, win) : p \in Nat \ {0} /\ p + len - 1 <= Len(win)
  BY <1>3, StandingTypes
<1>7. \A p \in Sa : p \in Nat \ {0} /\ p + len - 1 <= Len(all)
  BY <1>1, StandingTypes
<1>8. new \in SUBSET Standing(word, win) /\ took \in SUBSET new
  BY <1>5
<1>9. new \subseteq 0 .. Len(win)
  BY <1>3, <1>6, <1>8
<1> DEFINE Rest == {k \in Nat : count + k \in free}
<1>10. /\ IsFiniteSet(took) /\ Cardinality(took) \in Nat
       /\ Cardinality(took) = 0 \/ Cardinality(took) - 1 \in Rest
       /\ took = new \/ Cardinality(took) \notin Rest
  <2>1. \A k, l \in Nat : k <= l /\ l \in Rest => k \in Rest
    OBVIOUS
  <2>2. \A i \in new : i \in took <=> Cardinality(Before(new, i)) \in Rest
    <3>1. ASSUME NEW i \in new PROVE Cardinality(Before(new, i)) \in Nat
      <4>1. Before(new, i) \subseteq 0 .. Len(win)
        <5>1. Before(new, i) \subseteq new
          BY DEF Before
        <5> QED
          BY <1>9, <5>1
      <4>2. Len(win) \in Nat
        BY <1>3
      <4> QED
        BY <4>1, <4>2, FiniteUpto
    <3> QED
      BY <3>1
  <2> HIDE DEF Rest
  <2>4. took \subseteq new
    BY <1>8
  <2>3. Len(win) \in Nat
    BY <1>3
  <2> QED
    BY <1>9, <2>1, <2>2, <2>3, <2>4, Taking
<1>11. IsFiniteSet(hits) /\ Cardinality(hits) = Cardinality(took)
  <2> DEFINE f == [i \in took |-> [rule |-> r, end |-> b + i - 1 + len]]
  <2>1. took \subseteq Nat
    BY <1>6, <1>8
  <2>2. f \in [took -> hits]
    OBVIOUS
  <2>3. ASSUME NEW i \in took, NEW j \in took, f[i] = f[j] PROVE i = j
    <3>1. f[i].end = b + i - 1 + len /\ f[j].end = b + j - 1 + len
      OBVIOUS
    <3>2. b + i - 1 + len = b + j - 1 + len
      BY <2>3, <3>1
    <3> QED
      BY <2>1, <3>2
  <2>4. \A h \in hits : \E i \in took : f[i] = h
    OBVIOUS
  <2> HIDE DEF f
  <2> QED
    BY <1>10, <2>2, <2>3, <2>4, SameSize
<1>a. \A h \in hits : \E i \in took : h.end = b + i - 1 + len
  OBVIOUS
<1>12. ASSUME NEW h \in hits
       PROVE  /\ h.end \in Nat /\ h.end - len >= from /\ h.end - len + 1 \in Sa
  <2>1. PICK i \in took : h.end = b + i - 1 + len
    BY <1>a
  <2>2. i \in new /\ i \in Nat \ {0} /\ b + i \in Sa /\ b + i - 1 >= from
    BY <1>4, <1>6, <1>8
  <2>3. h.end - len + 1 = b + i /\ h.end - len = b + i - 1 /\ h.end \in Nat
    BY <2>1, <2>2
  <2> QED
    BY <2>2, <2>3
<1>13. ASSUME NEW g \in hits, NEW h \in hits, g.end < h.end
       PROVE  g.end + len <= h.end
  <2>1. PICK i \in took : g.end = b + i - 1 + len
    BY <1>a
  <2>2. PICK j \in took : h.end = b + j - 1 + len
    BY <1>a
  <2>3. i \in FindAll(win, word) /\ j \in FindAll(win, word)
    BY <1>8
  <2>4. i \in Nat /\ j \in Nat
    BY <1>6, <1>8
  <2>5. i < j
    BY <1>13, <2>1, <2>2, <2>4
  <2>6. i + len <= j
    BY <1>5, <2>3, <2>5
  <2> QED
    BY <2>1, <2>2, <2>4, <2>6
<1> HIDE DEF St, Sa
<1> DEFINE n == count + Cardinality(hits)
           Ca == Passed(word, all, from)
           Ct == Passed(word, text, from)
<1>14. IsFiniteSet(Sa) /\ IsFiniteSet(St) /\ Cardinality(Sa) \in Nat
       /\ Cardinality(St) \in Nat /\ IsFiniteSet(Ca) /\ IsFiniteSet(Ct)
       /\ Cardinality(Ca) \in Nat /\ Cardinality(Ct) \in Nat
  <2>1. Sa \in SUBSET Sa /\ St \in SUBSET St
        /\ Ca \in SUBSET Sa /\ Ct \in SUBSET St
    BY DEF Passed, Sa, St
  <2> HIDE DEF Ca, Ct
  <2> QED
    BY <1>1, <2>1, StandingFinite DEF Sa, St
<1>15. /\ count <= Cardinality(Ct)
       /\ count = 0 \/ count - 1 \in free
       /\ Simple(word) => count \notin free \/ count = Cardinality(St)
       /\ from = 0 \/ from - len + 1 \in St
  <2>1. Cardinality({}) = 0 /\ count + 0 = count
    BY FS_EmptySet
  <2> QED
    BY <2>1 DEF RuleFits, St
<1>16. count <= Cardinality(Ca)
  <2>1. Ct \in SUBSET Ca
    BY <1>2 DEF Passed, Sa, St
  <2>2. Cardinality(Ct) <= Cardinality(Ca)
    <3> HIDE DEF Ca, Ct
    <3> QED
      BY <1>14, <2>1, FS_Subset
  <2> QED
    BY <1>14, <1>15, <2>2
<1>17. from = 0 \/ from - len + 1 \in Sa
  BY <1>2, <1>15
<1>18. n \in Nat /\ n = count + Cardinality(took)
  BY <1>10, <1>11
<1>19. n = 0 \/ n - 1 \in free
  <2>1. CASE Cardinality(took) = 0
    BY <1>15, <1>18, <2>1
  <2>2. CASE Cardinality(took) - 1 \in Rest
    <3>1. count + (Cardinality(took) - 1) \in free
      BY <2>2
    <3>2. count + (Cardinality(took) - 1) = n - 1
      BY <1>10, <1>18
    <3> QED
      BY <3>1, <3>2
  <2> QED
    BY <1>10, <2>1, <2>2
<1>20. ASSUME Simple(word), n \in free PROVE n = Cardinality(Sa)
  <2>1. count \in free
    BY <1>10, <1>18, <1>20
  <2>2. count = Cardinality(St)
    BY <1>15, <1>20, <2>1
  <2>3. Ct = St
    <3>1. Cardinality(Ct) <= Cardinality(St)
      <4>1. Ct \in SUBSET St
        BY DEF Passed, St
      <4> HIDE DEF Ca, Ct
      <4> QED
        BY <1>14, <4>1, FS_Subset
    <3>2. Cardinality(Ct) = Cardinality(St)
      BY <1>14, <1>15, <2>2, <3>1
    <3>3. Ct \in SUBSET St
      BY DEF Passed, St
    <3> HIDE DEF Ca, Ct
    <3> QED
      BY <1>14, <3>2, <3>3, FS_Subset
  <2>4. took = new
    <3>1. Cardinality(took) \in Rest
      BY <1>10, <1>18, <1>20
    <3> QED
      BY <1>10, <3>1
  <2>5. new = {i \in Standing(word, win) : b + i - 1 >= from}
    BY <1>5, <1>20
  <2> DEFINE fresh == {b + i : i \in new}
  <2>6. ASSUME NEW p \in Sa PROVE p \in St \/ p \in fresh
    <3> SUFFICES ASSUME p \notin St PROVE p \in fresh
      OBVIOUS
    <3>1. p \in Nat \ {0} /\ p + len - 1 > Len(text) /\ p + len - 1 <= Len(all)
      BY <1>2, <1>7
    <3>2. p > b
      <4>1. len <= WindowMax /\ WindowMax \in Nat
        BY <1>20, LimitsAssumption DEF Simple
      <4>2. CASE b > 0
        BY <3>1, <4>1, <4>2
      <4>3. CASE b = 0
        BY <3>1, <4>3
      <4> QED
        BY <4>2, <4>3
    <3>3. p - 1 >= from
      <4>1. CASE from = 0
        BY <3>1, <4>1
      <4>2. CASE from # 0
        <5> DEFINE q == from - len + 1
        <5>1. q \in St /\ q \in Sa
          BY <1>2, <1>15, <4>2
        <5>2. q + len - 1 <= Len(text) /\ q \in Nat
          BY <1>2, <1>7, <5>1
        <5>3. q < p
          BY <3>1, <5>2
        <5> HIDE DEF q
        <5>4. q + len <= p
          BY <1>1, <1>20, <5>1, <5>3, SimpleApart DEF Sa
        <5> QED
          BY <3>1, <5>4 DEF q
      <4> QED
        BY <4>1, <4>2
    <3>4. p - b \in Nat \ {0} /\ b + (p - b) = p
      BY <3>1, <3>2
    <3>5. p - b \in Standing(word, win)
      BY <1>4, <3>4
    <3>6. p - b \in new
      BY <2>5, <3>3, <3>4, <3>5
    <3> QED
      BY <3>4, <3>6
  <2>7. ASSUME NEW i \in new PROVE b + i \in Sa /\ b + i \notin St
    <3>1. i \in Nat \ {0} /\ b + i \in Sa /\ b + i - 1 >= from
      BY <1>4, <1>6, <1>8
    <3>2. \A p \in St : p + len - 1 <= from
      BY <2>3 DEF Passed, St
    <3> QED
      BY <3>1, <3>2
  <2>8. St \subseteq Sa
    BY <1>2
  <2>9. Sa \ St = fresh
    BY <2>6, <2>7
  <2>10. IsFiniteSet(fresh) /\ Cardinality(fresh) = Cardinality(new)
    <3> DEFINE f == [i \in new |-> b + i]
    <3>1. new \subseteq Nat
      BY <1>9
    <3>2. f \in [new -> fresh]
      OBVIOUS
    <3>3. \A i, j \in new : f[i] = f[j] => i = j
      BY <3>1
    <3>4. \A p \in fresh : \E i \in new : f[i] = p
      OBVIOUS
    <3>5. IsFiniteSet(new)
      BY <1>10, <2>4
    <3> HIDE DEF fresh, f
    <3> QED
      BY <3>2, <3>3, <3>4, <3>5, SameSize
  <2> HIDE DEF fresh
  <2>11. Cardinality(Sa) = Cardinality(St) + Cardinality(fresh)
    <3>1. Sa = St \cup fresh /\ St \cap fresh = {}
      BY <2>8, <2>9
    <3>2. Cardinality(St \cup fresh) = Cardinality(St) + Cardinality(fresh)
      BY <1>14, <2>10, <3>1, DisjointSum
    <3> QED
      BY <3>1, <3>2
  <2> QED
    BY <1>10, <1>18, <2>2, <2>4, <2>10, <2>11
<1> HIDE DEF n
<1>21. RuleFits(word, all, count, from, hits, free)
  BY <1>10, <1>11, <1>12, <1>13, <1>16, <1>17, <1>19, <1>20 DEF RuleFits, n, Sa
<1> QED
  BY <1>21 DEF all

\* How often a rule answers, once all its places have been served.
LEMMA FitsExactly ==
  ASSUME NEW word \in Seq(Letters), NEW text \in Seq(Letters),
         NEW count \in Nat, NEW from \in Nat, NEW free,
         RuleFits(word, text, count, from, {}, free)
  PROVE  /\ Cardinality(Standing(word, text)) \in Nat
         /\ count <= Cardinality(Standing(word, text))
         /\ count = 0 \/ count - 1 \in free
         /\ Simple(word) =>
              count \notin free \/ count = Cardinality(Standing(word, text))
<1> DEFINE St == Standing(word, text)
           P == Passed(word, text, from)
<1>1. P \in SUBSET St /\ St \in SUBSET St
  BY DEF Passed
<1>2. count <= Cardinality(P)
  BY DEF RuleFits
<1>3. Cardinality({}) = 0 /\ count + 0 = count
  BY FS_EmptySet
<1>4. /\ count = 0 \/ count - 1 \in free
      /\ Simple(word) => count \notin free \/ count = Cardinality(St)
  BY <1>3 DEF RuleFits
<1> HIDE DEF P, St
<1>5. IsFiniteSet(St) /\ Cardinality(St) \in Nat /\ Cardinality(P) \in Nat
  BY <1>1, StandingFinite DEF St
<1>6. Cardinality(P) <= Cardinality(St)
  BY <1>1, <1>5, FS_Subset
<1> QED
  BY <1>2, <1>4, <1>5, <1>6 DEF St

-----------------------------------------------------------------------------
(* The script, and what its expansion accepts.                              *)

\* What a script's fields are.
LEMMA ScriptFields ==
  ASSUME NEW s \in Scripts
  PROVE  /\ s.timeout \in Int
         /\ s.rules \in Seq(MatchRule) /\ s.writes \in Seq(TimedWrite)
         /\ \A r \in DOMAIN s.rules :
              /\ s.rules[r].word \in Seq(Letters) /\ s.rules[r].delay \in Int
              /\ s.rules[r].repeat \in BOOLEAN /\ s.rules[r].max \in Int
         /\ \A i \in DOMAIN s.writes :
              /\ s.writes[i].at \in Int /\ s.writes[i].interval \in Int
              /\ s.writes[i].count \in Int
<1>1. s \in [writes : Seq(TimedWrite), rules : Seq(MatchRule), timeout : Int]
  BY ScriptAssumption
<1>2. /\ s.timeout \in Int /\ s.rules \in Seq(MatchRule)
      /\ s.writes \in Seq(TimedWrite)
  BY <1>1
<1>3. \A r \in DOMAIN s.rules : s.rules[r] \in MatchRule
  BY <1>2
<1>4. \A i \in DOMAIN s.writes : s.writes[i] \in TimedWrite
  BY <1>2
<1> QED
  BY <1>2, <1>3, <1>4 DEF MatchRule, TimedWrite

\* The writes planned up to an entry are those before it and its own.
LEMMA PlannedSum ==
  ASSUME NEW writes \in Seq(TimedWrite)
  PROVE  /\ Planned(writes)[0] = 0
         /\ \A i \in 1 .. Len(writes) :
              /\ Planned(writes)[i - 1] \in Int
              /\ Planned(writes)[i] = Planned(writes)[i - 1] + Want(writes[i])
<1> DEFINE Good(f, m) ==
             f[0] = 0 /\ \A i \in 1 .. m : f[i] = f[i - 1] + Want(writes[i])
           S == {m \in Nat : m <= Len(writes) =>
                               \E f \in [0 .. m -> Int] : Good(f, m)}
<1>a. \A i \in 1 .. Len(writes) : Want(writes[i]) \in Int
  <2>1. \A i \in 1 .. Len(writes) : writes[i] \in TimedWrite
    OBVIOUS
  <2> QED
    BY <2>1 DEF TimedWrite, Want
<1>1. 0 \in S
  <2> DEFINE f == [i \in 0 .. 0 |-> 0]
  <2>1. f \in [0 .. 0 -> Int] /\ Good(f, 0)
    OBVIOUS
  <2> HIDE DEF f, Good
  <2> QED
    BY <2>1
<1>2. ASSUME NEW m \in Nat, m \in S PROVE m + 1 \in S
  <2> SUFFICES ASSUME m + 1 <= Len(writes)
               PROVE  \E f \in [0 .. m + 1 -> Int] : Good(f, m + 1)
    <3> HIDE DEF Good
    <3>1. m + 1 \in Nat
      OBVIOUS
    <3> QED
      BY <3>1
  <2>1. PICK f \in [0 .. m -> Int] : Good(f, m)
    <3> HIDE DEF Good
    <3> QED
      BY <1>2
  <2>2. PICK v \in Int : v = f[m] + Want(writes[m + 1])
    BY <1>a
  <2> DEFINE g == [i \in 0 .. m + 1 |-> IF i = m + 1 THEN v ELSE f[i]]
  <2>3. g \in [0 .. m + 1 -> Int] /\ \A i \in 0 .. m : g[i] = f[i]
    OBVIOUS
  <2>4. g[m + 1] = v
    OBVIOUS
  <2> HIDE DEF g
  <2>5. ASSUME NEW i \in 1 .. m + 1 PROVE g[i] = g[i - 1] + Want(writes[i])
    <3>1. CASE i = m + 1
      <4>1. i - 1 = m /\ m \in 0 .. m
        BY <3>1
      <4>2. g[i - 1] = f[m]
        BY <2>3, <4>1
      <4> QED
        BY <2>2, <2>4, <3>1, <4>2
    <3>2. CASE i \in 1 .. m
      <4>1. i \in 0 .. m /\ i - 1 \in 0 .. m
        BY <3>2
      <4>2. g[i] = f[i] /\ g[i - 1] = f[i - 1]
        BY <2>3, <4>1
      <4> QED
        BY <2>1, <3>2, <4>2
    <3>3. i = m + 1 \/ i \in 1 .. m
      OBVIOUS
    <3> QED
      BY <3>1, <3>2, <3>3
  <2>6. g[0] = 0
    BY <2>1, <2>3
  <2> QED
    BY <2>3, <2>5, <2>6
<1>3. Nat \subseteq S
  <2> HIDE DEF S
  <2> QED
    BY <1>1, <1>2, NatInduct
<1>4. PICK f \in [0 .. Len(writes) -> Int] : Good(f, Len(writes))
  <2>1. Len(writes) \in S
    BY <1>3
  <2> HIDE DEF Good
  <2> QED
    BY <2>1
<1> DEFINE sum == CHOOSE sum : sum =
             [i \in 0 .. Len(writes) |->
                IF i = 0 THEN 0 ELSE sum[i - 1] + Want(writes[i])]
<1>5. f = [i \in 0 .. Len(writes) |->
             IF i = 0 THEN 0 ELSE f[i - 1] + Want(writes[i])]
  <2>1. ASSUME NEW i \in 0 .. Len(writes)
        PROVE  f[i] = IF i = 0 THEN 0 ELSE f[i - 1] + Want(writes[i])
    <3>1. CASE i = 0
      BY <1>4, <3>1
    <3>2. CASE i # 0
      <4>1. i \in 1 .. Len(writes)
        BY <3>2
      <4> QED
        BY <1>4, <3>2, <4>1
    <3> QED
      BY <3>1, <3>2
  <2> QED
    BY <2>1
<1>6. sum = [i \in 0 .. Len(writes) |->
               IF i = 0 THEN 0 ELSE sum[i - 1] + Want(writes[i])]
  BY <1>5
<1>7. Planned(writes) = sum
  BY DEF Planned, sum
<1> HIDE DEF sum
<1>8. /\ sum[0] = 0
      /\ \A i \in 1 .. Len(writes) : sum[i] = sum[i - 1] + Want(writes[i])
  <2>1. \A i \in 0 .. Len(writes) :
          sum[i] = IF i = 0 THEN 0 ELSE sum[i - 1] + Want(writes[i])
    BY <1>6
  <2>2. 0 \in 0 .. Len(writes)
        /\ \A i \in 1 .. Len(writes) : i \in 0 .. Len(writes) /\ i # 0
    OBVIOUS
  <2> QED
    BY <2>1, <2>2
<1>9. \A i \in 0 .. Len(writes) : sum[i] \in Int
  <2> DEFINE T == {m \in Nat : m <= Len(writes) => sum[m] \in Int}
  <2>1. 0 \in T
    BY <1>8
  <2>2. ASSUME NEW m \in Nat, m \in T PROVE m + 1 \in T
    <3> SUFFICES ASSUME m + 1 <= Len(writes) PROVE sum[m + 1] \in Int
      OBVIOUS
    <3>1. sum[m] \in Int
      BY <2>2
    <3>2. m + 1 \in 1 .. Len(writes) /\ (m + 1) - 1 = m
      OBVIOUS
    <3>3. sum[m + 1] = sum[m] + Want(writes[m + 1])
      BY <1>8, <3>2
    <3> QED
      BY <1>a, <3>1, <3>2, <3>3
  <2>3. Nat \subseteq T
    <3> HIDE DEF T
    <3> QED
      BY <2>1, <2>2, NatInduct
  <2> QED
    BY <2>3
<1>10. \A i \in 1 .. Len(writes) : i - 1 \in 0 .. Len(writes)
  OBVIOUS
<1> QED
  BY <1>7, <1>8, <1>9, <1>10

\* A schedule that passes the checks of the expansion is within its limits.
LEMMA ExpandedFits ==
  ASSUME NEW writes \in Seq(TimedWrite),
         \A i \in DOMAIN writes : ValidWrite(writes[i], Planned(writes)[i - 1])
  PROVE  /\ Planned(writes)[Len(writes)] <= ScheduleMax
         /\ \A i \in DOMAIN writes : \A k \in 0 .. Want(writes[i]) - 1 :
              Offset(writes[i], k) \in 0 .. AtMax
<1>1. ScheduleMax \in Nat /\ AtMax \in Nat
  BY LimitsAssumption
<1>2. \A i \in DOMAIN writes :
        /\ writes[i].at \in Int /\ writes[i].interval \in Int
        /\ writes[i].count \in Int /\ Want(writes[i]) \in Int
  <2>1. \A i \in DOMAIN writes : writes[i] \in TimedWrite
    OBVIOUS
  <2> QED
    BY <2>1 DEF TimedWrite, Want
<1>3. Planned(writes)[Len(writes)] <= ScheduleMax
  <2>1. CASE Len(writes) = 0
    <3>1. Planned(writes)[0] = 0
      BY PlannedSum
    <3> QED
      BY <1>1, <2>1, <3>1
  <2>2. CASE Len(writes) # 0
    <3> DEFINE n == Len(writes)
    <3>1. n \in 1 .. Len(writes) /\ n \in DOMAIN writes
      BY <2>2
    <3>2. Planned(writes)[n - 1] \in Int
          /\ Planned(writes)[n] = Planned(writes)[n - 1] + Want(writes[n])
      BY <3>1, PlannedSum
    <3>3. Want(writes[n]) <= ScheduleMax - Planned(writes)[n - 1]
      BY <3>1 DEF ValidWrite
    <3> HIDE DEF n
    <3>4. Want(writes[n]) \in Int
      BY <1>2, <3>1
    <3>5. Planned(writes)[n] <= ScheduleMax
      BY <1>1, <3>2, <3>3, <3>4
    <3> QED
      BY <3>5 DEF n
  <2> QED
    BY <2>1, <2>2
<1>4. ASSUME NEW i \in DOMAIN writes, NEW k \in 0 .. Want(writes[i]) - 1
      PROVE  Offset(writes[i], k) \in 0 .. AtMax
  <2>1. PICK at \in Int, step \in Int, want \in Int :
          /\ at = writes[i].at /\ step = writes[i].interval
          /\ want = Want(writes[i])
    BY <1>2
  <2>2. /\ at \in 0 .. AtMax /\ step \in 0 .. AtMax
        /\ step > 0 => want - 1 <= (AtMax - at) \div step
    BY <2>1 DEF ValidWrite
  <2>3. at + k * step \in 0 .. AtMax
    <3>1. CASE step = 0
      BY <1>1, <2>1, <2>2, <3>1
    <3>2. CASE step > 0
      <4>1. k \in Nat /\ k <= (AtMax - at) \div step
        BY <1>1, <2>1, <2>2, <3>2
      <4>2. AtMax - at \in Nat
        BY <1>1, <2>2
      <4>3. k * step \in 0 .. AtMax - at
        <5>1. step \in Nat \ {0}
          BY <3>2
        <5> QED
          BY <4>1, <4>2, <5>1, DivBound
      <4>4. PICK x \in 0 .. AtMax - at : x = k * step
        BY <4>3
      <4>5. at + x \in 0 .. AtMax
        BY <1>1, <2>2, <4>2
      <4> QED
        BY <4>4, <4>5
    <3> QED
      BY <2>2, <3>1, <3>2
  <2> QED
    BY <2>1, <2>3 DEF Offset
<1> QED
  BY <1>3, <1>4

-----------------------------------------------------------------------------
(* The window.                                                              *)

\* One text behind another, letter by letter.
LEMMA BothOf ==
  ASSUME NEW s \in Seq(Letters), NEW t \in Seq(Letters)
  PROVE  /\ s \o t \in Seq(Letters) /\ Len(s \o t) = Len(s) + Len(t)
         /\ \A i \in 1 .. Len(s) : (s \o t)[i] = s[i]
         /\ \A i \in 1 .. Len(t) : (s \o t)[Len(s) + i] = t[i]
<1> QED
  OBVIOUS

\* The end of a text, letter by letter.
LEMMA TailOf ==
  ASSUME NEW text \in Seq(Letters), NEW b \in 0 .. Len(text),
         NEW tail, tail = SubSeq(text, b + 1, Len(text))
  PROVE  /\ tail \in Seq(Letters) /\ Len(tail) = Len(text) - b
         /\ \A i \in 1 .. Len(text) - b : tail[i] = text[b + i]
<1>1. \A i \in b + 1 .. Len(text) : text[i] \in Letters
  OBVIOUS
<1> QED
  BY <1>1, SubSeqProperties

\* The end of a text with more behind it is the end of the longer text.
LEMMA TailAndMore ==
  ASSUME NEW text \in Seq(Letters), NEW more \in Seq(Letters),
         NEW b \in 0 .. Len(text)
  PROVE  SubSeq(text, b + 1, Len(text)) \o more
           = SubSeq(text \o more, b + 1, Len(text \o more))
<1>1. PICK all \in Seq(Letters) : all = text \o more
  BY BothOf
<1>2. /\ Len(all) = Len(text) + Len(more)
      /\ \A i \in 1 .. Len(text) : all[i] = text[i]
      /\ \A i \in 1 .. Len(more) : all[Len(text) + i] = more[i]
  BY <1>1, BothOf
<1>3. PICK old : old = SubSeq(text, b + 1, Len(text))
  OBVIOUS
<1>4. /\ old \in Seq(Letters) /\ Len(old) = Len(text) - b
      /\ \A i \in 1 .. Len(text) - b : old[i] = text[b + i]
  BY <1>3, TailOf
<1>5. PICK win : win = old \o more
  OBVIOUS
<1>6. /\ win \in Seq(Letters) /\ Len(win) = Len(old) + Len(more)
      /\ \A i \in 1 .. Len(old) : win[i] = old[i]
      /\ \A i \in 1 .. Len(more) : win[Len(old) + i] = more[i]
  BY <1>4, <1>5, BothOf
<1>7. PICK tail : tail = SubSeq(all, b + 1, Len(all))
  OBVIOUS
<1>8. /\ tail \in Seq(Letters) /\ Len(tail) = Len(all) - b
      /\ \A i \in 1 .. Len(all) - b : tail[i] = all[b + i]
  <2>1. b \in 0 .. Len(all)
    BY <1>2
  <2> QED
    BY <1>7, <2>1, TailOf
<1>9. Len(win) = Len(tail)
  BY <1>2, <1>4, <1>6, <1>8
<1>10. ASSUME NEW i \in 1 .. Len(win) PROVE win[i] = tail[i]
  <2>1. tail[i] = all[b + i]
    BY <1>8, <1>9
  <2>2. CASE i <= Len(old)
    <3>1. win[i] = old[i] /\ old[i] = text[b + i]
      BY <1>4, <1>6, <2>2
    <3>2. all[b + i] = text[b + i]
      <4>1. b + i \in 1 .. Len(text)
        BY <1>4, <2>2
      <4> QED
        BY <1>2, <4>1
    <3> QED
      BY <2>1, <3>1, <3>2
  <2>3. CASE i > Len(old)
    <3>1. PICK k \in 1 .. Len(more) : i = Len(old) + k
      <4>1. i - Len(old) \in 1 .. Len(more) /\ i = Len(old) + (i - Len(old))
        BY <1>4, <1>6, <2>3
      <4> QED
        BY <4>1
    <3>2. b + i = Len(text) + k
      BY <1>4, <3>1
    <3>3. win[Len(old) + k] = more[k] /\ all[Len(text) + k] = more[k]
      BY <1>2, <1>6
    <3> QED
      BY <2>1, <3>1, <3>2, <3>3
  <2>4. Len(old) \in Int
    BY <1>4
  <2> QED
    BY <2>2, <2>3, <2>4
<1>11. win = tail
  BY <1>6, <1>8, <1>9, <1>10, SeqEqual
<1> QED
  BY <1>1, <1>3, <1>5, <1>7, <1>11

\* The end of the end of a text is an end of the text.
LEMMA TailOfTail ==
  ASSUME NEW text \in Seq(Letters), NEW b \in 0 .. Len(text),
         NEW win, win = SubSeq(text, b + 1, Len(text)),
         NEW e \in 0 .. Len(text) - b
  PROVE  SubSeq(win, e + 1, Len(win)) = SubSeq(text, b + e + 1, Len(text))
<1>1. /\ win \in Seq(Letters) /\ Len(win) = Len(text) - b
      /\ \A i \in 1 .. Len(text) - b : win[i] = text[b + i]
  BY TailOf
<1>2. PICK left : left = SubSeq(win, e + 1, Len(win))
  OBVIOUS
<1>3. /\ left \in Seq(Letters) /\ Len(left) = Len(win) - e
      /\ \A i \in 1 .. Len(win) - e : left[i] = win[e + i]
  <2>1. e \in 0 .. Len(win)
    BY <1>1
  <2> QED
    BY <1>1, <1>2, <2>1, TailOf
<1>4. PICK right : right = SubSeq(text, (b + e) + 1, Len(text))
  OBVIOUS
<1>5. /\ right \in Seq(Letters) /\ Len(right) = Len(text) - (b + e)
      /\ \A i \in 1 .. Len(text) - (b + e) : right[i] = text[(b + e) + i]
  <2>1. b + e \in 0 .. Len(text)
    OBVIOUS
  <2> QED
    BY <1>4, <2>1, TailOf
<1>6. Len(left) = Len(right)
  BY <1>1, <1>3, <1>5
<1>7. ASSUME NEW i \in 1 .. Len(left) PROVE left[i] = right[i]
  <2>1. left[i] = win[e + i]
    BY <1>3, <1>1
  <2>2. e + i \in 1 .. Len(text) - b
    BY <1>1, <1>3
  <2>3. win[e + i] = text[b + (e + i)]
    BY <1>1, <2>2
  <2>4. right[i] = text[(b + e) + i]
    BY <1>5, <1>6
  <2>5. b + (e + i) = (b + e) + i
    OBVIOUS
  <2> QED
    BY <2>1, <2>3, <2>4, <2>5
<1>8. left = right
  BY <1>3, <1>5, <1>6, <1>7, SeqEqual
<1> QED
  BY <1>2, <1>4, <1>8

\* The window is the end of the text, also after a piece and a cut.
LEMMA WindowMoves ==
  ASSUME NEW text \in Seq(Letters), NEW more \in Seq(Letters),
         NEW b \in 0 .. Len(text), b > 0 => Len(text) - b = WindowMax
  PROVE  LET all == text \o more
             win == SubSeq(text, b + 1, Len(text)) \o more
             e   == Excess(win)
         IN  /\ win \in Seq(Letters) /\ e \in Nat
             /\ win = SubSeq(all, b + 1, Len(all))
             /\ b + e \in 0 .. Len(all)
             /\ SubSeq(win, e + 1, Len(win)) = SubSeq(all, b + e + 1, Len(all))
             /\ b + e > 0 => Len(all) - (b + e) = WindowMax
             /\ Len(all) - (b + e) <= WindowMax
<1>0. WindowMax \in Nat
  BY LimitsAssumption
<1>1. PICK all \in Seq(Letters) : all = text \o more
  BY BothOf
<1>2. Len(all) = Len(text) + Len(more)
  BY <1>1, BothOf
<1>3. PICK win : win = SubSeq(text, b + 1, Len(text)) \o more
  OBVIOUS
<1>4. win = SubSeq(all, b + 1, Len(all))
  BY <1>1, <1>3, TailAndMore
<1>5. b \in 0 .. Len(all)
  BY <1>2
<1>6. win \in Seq(Letters) /\ Len(win) = Len(all) - b
  BY <1>4, <1>5, TailOf
<1>7. PICK e : e = Excess(win)
  OBVIOUS
<1>8. PICK n \in Nat : n = Len(win)
  <2>1. Len(win) \in Nat
    BY <1>6
  <2> QED
    BY <2>1
<1>9. /\ e \in 0 .. Len(win)
      /\ e > 0 => n - e = WindowMax
      /\ n - e <= WindowMax
  BY <1>0, <1>7, <1>8 DEF Excess
<1>10. SubSeq(win, e + 1, Len(win)) = SubSeq(all, b + e + 1, Len(all))
  <2>1. e \in 0 .. Len(all) - b
    BY <1>6, <1>9
  <2> QED
    BY <1>4, <1>5, <2>1, TailOfTail
<1>11. b > 0 => n >= WindowMax
  BY <1>0, <1>2, <1>6, <1>8
<1>12. PICK m \in Nat : m = Len(all) /\ n = m - b
  BY <1>6, <1>8
<1>13. /\ b + e \in 0 .. Len(all)
       /\ Len(all) - (b + e) = n - e
  BY <1>5, <1>8, <1>9, <1>12
<1>14. b + e > 0 => n - e = WindowMax
  <2>1. e \in Int /\ b \in Int
    BY <1>9, <1>8
  <2>2. CASE e > 0
    BY <1>9, <2>2
  <2>3. CASE ~(e > 0)
    <3>1. e = 0
      BY <1>8, <1>9, <2>3
    <3>2. n <= WindowMax
      BY <1>9, <3>1
    <3> QED
      BY <1>0, <1>11, <2>1, <3>1, <3>2
  <2> QED
    BY <2>2, <2>3
<1>15. e \in Nat
  BY <1>8, <1>9
<1> QED
  BY <1>1, <1>3, <1>4, <1>6, <1>7, <1>9, <1>10, <1>13, <1>14, <1>15

-----------------------------------------------------------------------------
(* What a step does to the types and the counters.                          *)


\* The few types the arguments below need.
Types ==
  /\ now \in Nat /\ start \in Nat
  /\ arrived \in Seq([data : Chunks, at : Nat])
  /\ adding \in {Nobody} \cup [pc : {"push", "signal"}, item : Item]
  /\ drained \in Nat /\ script \in Scripts
  /\ timed \in [Writes -> Nat] /\ fired \in [Rules -> Nat]
  /\ sent \in [Rules -> Nat] /\ delayed \in [Rules -> Seq(Int)]

\* What the loop asks of the fields of a script.
LEMMA ScriptTypes ==
  ASSUME NEW s \in Scripts
  PROVE  /\ s.timeout \in Int
         /\ DOMAIN s.rules = 1 .. Len(s.rules)
         /\ DOMAIN s.writes = 1 .. Len(s.writes)
         /\ \A r \in DOMAIN s.rules : s.rules[r].delay \in Int
         /\ \A i \in DOMAIN s.writes : Want(s.writes[i]) \in Int
<1>1. s.rules \in Seq(MatchRule) /\ s.writes \in Seq(TimedWrite)
  BY ScriptFields
<1>2. \A i \in DOMAIN s.writes : Want(s.writes[i]) \in Int
  BY ScriptFields DEF Want
<1> QED
  BY <1>1, <1>2, ScriptFields

\* A counter that is raised by one, or not, stays a counter.
LEMMA Bump ==
  ASSUME NEW S, NEW f \in [S -> Nat], NEW x,
         NEW g, g \in {f, [f EXCEPT ![x] = @ + 1]}
  PROVE  g \in [S -> Nat]
<1>1. CASE x \in S
  <2>1. f[x] + 1 \in Nat
    BY <1>1
  <2> QED
    BY <1>1, <2>1
<1>2. CASE x \notin S
  BY <1>2
<1> QED
  BY <1>1, <1>2

\* What serving a hit does to the counters.
LEMMA ServeCases ==
  ASSUME Serve
  PROVE  LET r   == First.rule
             due == now + script.rules[r].delay
         IN  /\ fired' \in {fired, [fired EXCEPT ![r] = @ + 1]}
             /\ sent' \in {sent, [sent EXCEPT ![r] = @ + 1]}
             /\ delayed' \in {delayed, [delayed EXCEPT ![r] = Append(@, due)]}
             /\ \/ pc' = "done" /\ result' \in {"cancelled", "stale", "failed"}
                \/ /\ UNCHANGED <<pc, result>>
                   /\ fired' = [fired EXCEPT ![r] = @ + 1]
                   /\ \/ /\ sent' = [sent EXCEPT ![r] = @ + 1]
                         /\ UNCHANGED delayed
                      \/ /\ delayed' = [delayed EXCEPT ![r] = Append(@, due)]
                         /\ UNCHANGED sent
<1> DEFINE r == First.rule
           delay == script.rules[r].delay
<1>1. CASE cancelled
  BY <1>1 DEF Serve, Finish
<1>2. CASE ~cancelled /\ delay = 0 /\ Count(First) /\ Write(r)
           /\ UNCHANGED delayed
  BY <1>2 DEF Count, Write, Finish
<1>3. CASE /\ ~cancelled /\ Count(First) /\ UNCHANGED <<sent, pc, result>>
           /\ delayed' = [delayed EXCEPT ![r] = Append(@, now + delay)]
  BY <1>3 DEF Count
<1>4. CASE /\ ~cancelled /\ Count(First) /\ Finish("failed")
           /\ UNCHANGED <<sent, delayed>>
  BY <1>4 DEF Count, Finish
<1> QED
  BY <1>1, <1>2, <1>3, <1>4 DEF Serve

\* What the writes of the two schedules do to the counters.
LEMMA WriteDelayedCases ==
  ASSUME WriteDelayed
  PROVE  \E r \in Waiting :
           /\ sent' \in {sent, [sent EXCEPT ![r] = @ + 1]}
           /\ delayed' \in {delayed, [delayed EXCEPT ![r] = Tail(@)]}
           /\ \/ pc' = "done" /\ result' \in {"cancelled", "stale", "failed"}
              \/ /\ UNCHANGED <<pc, result>>
                 /\ sent' = [sent EXCEPT ![r] = @ + 1]
                 /\ delayed' = [delayed EXCEPT ![r] = Tail(@)]
<1>1. \A r \in DueDelayed : r \in Waiting
  BY DEF DueDelayed, FirstDelayed
<1>2. CASE cancelled
  <2>1. PICK r \in DueDelayed : TRUE
    BY DEF WriteDelayed
  <2> QED
    BY <1>1, <1>2, <2>1 DEF WriteDelayed, Finish
<1>3. CASE ~cancelled
  <2>1. PICK r \in DueDelayed :
          delayed' = [delayed EXCEPT ![r] = Tail(@)] /\ Write(r)
    BY <1>3 DEF WriteDelayed
  <2> QED
    BY <1>1, <2>1 DEF Write, Finish
<1> QED
  BY <1>2, <1>3

\* The types hold at first, ...
LEMMA TypesInit == Init => Types
<1> SUFFICES ASSUME Init PROVE Types
  OBVIOUS
<1>1. /\ now \in Nat /\ start \in Nat /\ drained \in Nat /\ script \in Scripts
      /\ arrived \in Seq([data : Chunks, at : Nat])
  BY DEF Init
<1>2. adding \in {Nobody}
  BY DEF Init
<1>3. timed \in [Writes -> Nat] /\ fired \in [Rules -> Nat]
      /\ sent \in [Rules -> Nat] /\ delayed \in [Rules -> Seq(Int)]
  BY DEF Init
<1> QED
  BY <1>1, <1>2, <1>3 DEF Types

\* ... are kept by every step, ...
LEMMA TypesStep == Types /\ [Next]_vars => Types'
<1> SUFFICES ASSUME Types, [Next]_vars PROVE Types'
  OBVIOUS
<1> USE DEF envVars, inboxVars, scanVars, countVars, runVars
<1>1. CASE UNCHANGED vars
  BY <1>1 DEF vars, Types, Rules, Writes
<1>2. CASE Tick
  <2>1. now + 1 \in Nat
    BY DEF Types
  <2> QED
    BY <1>2, <2>1 DEF Tick, Types, Rules, Writes
<1>3. CASE Append1
  <2>1. adding' \in [pc : {"push", "signal"}, item : Item]
    BY <1>3 DEF Append1, Item, Types
  <2> QED
    BY <1>3, <2>1 DEF Append1, Types, Rules, Writes
<1>4. CASE Append2
  <2>1. adding \in [pc : {"push", "signal"}, item : Item]
    BY <1>4 DEF Append2, Types, Nobody
  <2>2. adding' \in [pc : {"push", "signal"}, item : Item]
    BY <1>4, <2>1 DEF Append2
  <2>3. arrived' \in Seq([data : Chunks, at : Nat])
    BY <1>4, <2>1 DEF Append2, Types, Item
  <2> QED
    BY <1>4, <2>2, <2>3 DEF Append2, Types, Rules, Writes
<1>5. CASE Append3
  BY <1>5 DEF Append3, Types, Rules, Writes
<1>6. CASE Drain
  <2>1. drained' \in Nat
    BY <1>6 DEF Drain, Types
  <2> QED
    BY <1>6, <2>1 DEF Drain, Types, Rules, Writes
<1>7. CASE Expand
  BY <1>7 DEF Expand, Types, Rules, Writes
<1>8. CASE Serve
  <2> DEFINE r == First.rule
             due == now + script.rules[r].delay
  <2>1. /\ fired' \in {fired, [fired EXCEPT ![r] = @ + 1]}
        /\ sent' \in {sent, [sent EXCEPT ![r] = @ + 1]}
        /\ delayed' \in {delayed, [delayed EXCEPT ![r] = Append(@, due)]}
    BY <1>8, ServeCases
  <2>2. fired' \in [Rules -> Nat] /\ sent' \in [Rules -> Nat]
    <3>1. fired \in [Rules -> Nat] /\ sent \in [Rules -> Nat]
      BY DEF Types
    <3>2. fired' \in [Rules -> Nat]
      BY <2>1, <3>1, Bump
    <3>3. sent' \in [Rules -> Nat]
      BY <2>1, <3>1, Bump
    <3> QED
      BY <3>2, <3>3
  <2>3. delayed' \in [Rules -> Seq(Int)]
    <3>1. CASE r \in Rules
      <4>1. due \in Int
        BY <3>1, ScriptTypes DEF Types, Rules
      <4>2. delayed \in [Rules -> Seq(Int)]
        BY DEF Types
      <4>3. Append(delayed[r], due) \in Seq(Int)
        BY <3>1, <4>1, <4>2
      <4>4. CASE delayed' = delayed
        BY <4>2, <4>4
      <4>5. CASE delayed' = [delayed EXCEPT ![r] = Append(@, due)]
        BY <3>1, <4>2, <4>3, <4>5
      <4> QED
        BY <2>1, <4>4, <4>5
    <3>2. CASE r \notin Rules
      BY <2>1, <3>2 DEF Types
    <3> QED
      BY <3>1, <3>2
  <2> QED
    BY <1>8, <2>2, <2>3 DEF Serve, Types, Rules, Writes
<1>9. CASE WriteTimed
  <2>1. timed' \in [Writes -> Nat]
    BY <1>9 DEF WriteTimed, Types
  <2> QED
    BY <1>9, <2>1 DEF WriteTimed, Types, Rules, Writes
<1>10. CASE WriteDelayed
  <2>1. PICK r \in Waiting :
          /\ sent' \in {sent, [sent EXCEPT ![r] = @ + 1]}
          /\ delayed' \in {delayed, [delayed EXCEPT ![r] = Tail(@)]}
    BY <1>10, WriteDelayedCases
  <2>2. sent' \in [Rules -> Nat]
    <3>1. sent \in [Rules -> Nat]
      BY DEF Types
    <3> QED
      BY <2>1, <3>1, Bump
  <2>3. delayed' \in [Rules -> Seq(Int)]
    <3>1. Tail(delayed[r]) \in Seq(Int)
      BY DEF Types, Waiting
    <3> QED
      BY <2>1, <3>1 DEF Types, Waiting
  <2> QED
    BY <1>10, <2>2, <2>3 DEF WriteDelayed, Types, Rules, Writes
<1>11. CASE Cancel \/ LinkChanges
  BY <1>11 DEF Cancel, LinkChanges, Types, Rules, Writes
<1>12. CASE Call \/ Subscribe \/ CaptureGen \/ Top
  BY <1>12 DEF Call, Subscribe, CaptureGen, Top, Types, Rules, Writes
<1>13. CASE TakePiece \/ Scanned \/ Barrier
  BY <1>13 DEF TakePiece, Scanned, Barrier, Types, Rules, Writes
<1>14. CASE TimedDone \/ DelayedDone \/ Wait
  BY <1>14 DEF TimedDone, DelayedDone, Wait, Types, Rules, Writes
<1> QED
  BY <1>1, <1>2, <1>3, <1>4, <1>5, <1>6, <1>7, <1>8, <1>9, <1>10, <1>11,
     <1>12, <1>13, <1>14 DEF Next, ScriptStep

\* ... and so hold always.
LEMMA TypesHold == Spec => []Types
<1> QED
  BY TypesInit, TypesStep, PTL DEF Spec

\* A script that has ended stays as it is: nothing of the model moves.
LEMMA DoneStays ==
  ASSUME [Next]_vars, pc = "done"
  PROVE  UNCHANGED vars
<1> QED
  BY DEF Next, ScriptStep, Tick, Cancel, LinkChanges, Append1, Append2,
         Append3, Running, Call, Subscribe, CaptureGen, Expand, Top, Drain,
         TakePiece, Serve, Scanned, Barrier, WriteTimed, TimedDone,
         WriteDelayed, DelayedDone, Wait

-----------------------------------------------------------------------------
(* No wake-up is lost.                                                      *)

\* From the drain on, a piece behind it has its signal or will get it.
Announced ==
  /\ pc \in {"scan", "barrier", "timed", "delayed", "wait"}
  /\ drained < Len(arrived)
  => sig \/ adding.pc = "signal"

\* Every step keeps the announcement: a push is followed by its signal.
LEMMA AnnouncedStep == Types /\ Announced /\ [Next]_vars => Announced'
<1> SUFFICES ASSUME Types, Announced, [Next]_vars PROVE Announced'
  OBVIOUS
<1> USE DEF envVars, inboxVars, scanVars, countVars, runVars
<1>1. CASE UNCHANGED vars \/ Tick \/ Cancel \/ LinkChanges
  BY <1>1 DEF vars, Tick, Cancel, LinkChanges, Announced
<1>2. CASE Append1
  <2>1. adding.pc # "signal"
    BY <1>2 DEF Append1, Nobody
  <2> QED
    BY <1>2, <2>1 DEF Append1, Announced
<1>3. CASE Append2
  <2>1. adding \in [pc : {"push", "signal"}, item : Item]
    BY <1>3 DEF Append2, Types, Nobody
  <2>2. adding'.pc = "signal"
    BY <1>3, <2>1 DEF Append2
  <2> QED
    BY <2>2 DEF Announced
<1>4. CASE Append3
  BY <1>4 DEF Append3, Announced
<1>5. CASE Call \/ Subscribe \/ CaptureGen \/ Expand \/ Top
  BY <1>5 DEF Call, Subscribe, CaptureGen, Expand, Top, Goto, Finish, Announced
<1>6. CASE Drain
  <2>1. drained' = Len(arrived') /\ Len(arrived') \in Nat
    BY <1>6 DEF Drain, Types
  <2> QED
    BY <2>1 DEF Announced
<1>7. CASE TakePiece
  BY <1>7 DEF TakePiece, Announced
<1>8. CASE Serve
  <2>1. pc = "scan" /\ UNCHANGED inboxVars
    BY <1>8 DEF Serve
  <2> QED
    BY <2>1 DEF Announced
<1>9. CASE Scanned \/ Barrier \/ TimedDone \/ DelayedDone
  BY <1>9 DEF Scanned, AfterDeadline, Barrier, TimedDone, DelayedDone, Goto,
              Finish, Announced
<1>10. CASE WriteTimed
  BY <1>10 DEF WriteTimed, Announced
<1>11. CASE WriteDelayed
  BY <1>11 DEF WriteDelayed, Announced
<1>12. CASE Wait
  BY <1>12 DEF Wait, Wakes, Goto, Finish, Announced
<1> QED
  BY <1>1, <1>2, <1>3, <1>4, <1>5, <1>6, <1>7, <1>8, <1>9, <1>10, <1>11,
     <1>12 DEF Next, ScriptStep

\* A script that waits while a piece lies in its inbox has a signal on its
\* way, whatever the read loop and the script do in between (push and drain,
\* serial_script.go:122).
THEOREM NoWakeupIsLost == Spec => []NoLostWakeup
<1>1. Init => Announced
  BY DEF Init, Announced
<1>2. Announced => NoLostWakeup
  BY DEF Announced, NoLostWakeup
<1> QED
  BY <1>1, <1>2, TypesHold, AnnouncedStep, PTL DEF Spec

-----------------------------------------------------------------------------
(* The barrier: what a time-out has looked at.                              *)

\* Whoever appends after the barrier appends too late to count.
Lateness ==
  /\ pc = "barrier" => now > Deadline
  /\ late =>
       /\ pc \in {"drain", "scan", "done"} /\ now > Deadline
       /\ adding.pc = "push" => adding.item.at > Deadline
       /\ pc # "drain" =>
            \A k \in drained + 1 .. Len(arrived) : arrived[k].at > Deadline

\* Every step keeps it: the clock does not go back.
LEMMA LatenessStep == Types /\ Lateness /\ [Next]_vars => Lateness'
<1> SUFFICES ASSUME Types, Lateness, [Next]_vars PROVE Lateness'
  OBVIOUS
<1> USE DEF envVars, inboxVars, scanVars, countVars, runVars
<1>a. /\ now \in Nat /\ start \in Nat
      /\ script.timeout \in Int /\ Deadline \in Int
  BY ScriptTypes DEF Types, Deadline
<1>1. CASE UNCHANGED vars \/ Cancel \/ LinkChanges
  <2>1. Deadline' = Deadline
        /\ UNCHANGED <<now, pc, late, adding, arrived, drained>>
    BY <1>1 DEF vars, Cancel, LinkChanges, Deadline
  <2> QED
    BY <2>1 DEF Lateness
<1>2. CASE Tick
  <2>1. Deadline' = Deadline /\ now' = now + 1 /\ UNCHANGED <<pc, late>>
        /\ UNCHANGED <<adding, drained, arrived>>
    BY <1>2 DEF Tick, Deadline
  <2> QED
    BY <1>a, <2>1 DEF Lateness
<1>3. CASE Append1
  <2>1. adding'.pc = "push" /\ adding'.item.at = now
    BY <1>3 DEF Append1
  <2>2. Deadline' = Deadline /\ UNCHANGED <<now, pc, late, drained, arrived>>
    BY <1>3 DEF Append1, Deadline
  <2> QED
    BY <2>1, <2>2 DEF Lateness
<1>4. CASE Append2
  <2>1. adding \in [pc : {"push", "signal"}, item : Item]
    BY <1>4 DEF Append2, Types, Nobody
  <2>2. adding'.pc = "signal"
    BY <1>4, <2>1 DEF Append2
  <2>3. /\ Deadline' = Deadline /\ UNCHANGED <<now, pc, late, drained>>
        /\ adding.pc = "push" /\ arrived' = Append(arrived, adding.item)
    BY <1>4 DEF Append2, Deadline
  <2>4. ASSUME late, pc # "drain", NEW k \in drained + 1 .. Len(arrived')
        PROVE  arrived'[k].at > Deadline
    <3>1. arrived \in Seq([data : Chunks, at : Nat]) /\ drained \in Nat
          /\ adding.item \in [data : Chunks, at : Nat]
      BY <2>1 DEF Types, Item
    <3>2. CASE k \in drained + 1 .. Len(arrived)
      <4>1. arrived'[k] = arrived[k]
        BY <2>3, <3>1, <3>2
      <4> QED
        BY <2>4, <3>2, <4>1 DEF Lateness
    <3>3. CASE k = Len(arrived) + 1
      <4>1. arrived'[k] = adding.item
        BY <2>3, <3>1, <3>3
      <4> QED
        BY <2>3, <2>4, <4>1 DEF Lateness
    <3> QED
      BY <2>3, <3>1, <3>2, <3>3
  <2> QED
    BY <2>2, <2>3, <2>4 DEF Lateness
<1>5. CASE Append3
  <2>1. adding'.pc = "off" /\ Deadline' = Deadline
        /\ UNCHANGED <<now, pc, late, drained, arrived>>
    BY <1>5 DEF Append3, Nobody, Deadline
  <2> QED
    BY <2>1 DEF Lateness
<1>6. CASE Call \/ Subscribe \/ CaptureGen \/ Expand \/ Top
  <2>1. pc \in {"call", "subscribe", "capture", "expand", "top"}
        /\ pc' # "barrier" /\ late' = late
    BY <1>6 DEF Call, Subscribe, CaptureGen, Expand, Top, Goto, Finish
  <2> QED
    BY <2>1 DEF Lateness
<1>7. CASE Drain
  <2>1. /\ drained' = Len(arrived') /\ Len(arrived') \in Nat /\ pc' = "scan"
        /\ Deadline' = Deadline /\ UNCHANGED <<now, late, adding>>
    BY <1>7 DEF Drain, Types, Goto, Deadline
  <2>2. ~(\E k \in drained' + 1 .. Len(arrived') : TRUE)
    BY <2>1
  <2> QED
    BY <2>1, <2>2 DEF Lateness
<1>8. CASE TakePiece
  <2>1. Deadline' = Deadline
        /\ UNCHANGED <<now, pc, late, adding, arrived, drained>>
    BY <1>8 DEF TakePiece, Deadline
  <2> QED
    BY <2>1 DEF Lateness
<1>9. CASE Serve
  <2>1. pc = "scan" /\ pc' \in {"scan", "done"} /\ Deadline' = Deadline
        /\ UNCHANGED <<now, late, adding, arrived, drained>>
    BY <1>9, ServeCases DEF Serve, Deadline
  <2> QED
    BY <2>1 DEF Lateness
<1>10. CASE Scanned
  <2>1. /\ pc = "scan" /\ pc' \in {"done", "barrier", "timed"}
        /\ pc' = "barrier" => ~late /\ now > Deadline
        /\ pc' = "timed" => ~late
        /\ Deadline' = Deadline
        /\ UNCHANGED <<now, late, adding, arrived, drained>>
    BY <1>10 DEF Scanned, AfterDeadline, Goto, Finish, Deadline
  <2> QED
    BY <2>1 DEF Lateness
<1>11. CASE Barrier
  <2>1. pc = "barrier" /\ pc' = "drain" /\ adding'.pc = "off"
        /\ Deadline' = Deadline /\ UNCHANGED now
    BY <1>11 DEF Barrier, Goto, Deadline, Nobody
  <2> QED
    BY <2>1 DEF Lateness
<1>12. CASE WriteTimed \/ TimedDone \/ DelayedDone \/ Wait
  <2>1. pc \in {"timed", "delayed", "wait"} /\ pc' # "barrier" /\ late' = late
    BY <1>12 DEF WriteTimed, TimedDone, DelayedDone, Wait, Wakes, Goto, Finish
  <2> QED
    BY <2>1 DEF Lateness
<1>13. CASE WriteDelayed
  <2>1. pc = "delayed" /\ pc' # "barrier" /\ late' = late
    BY <1>13, WriteDelayedCases DEF WriteDelayed
  <2> QED
    BY <2>1 DEF Lateness
<1> QED
  BY <1>1, <1>2, <1>3, <1>4, <1>5, <1>6, <1>7, <1>8, <1>9, <1>10, <1>11,
     <1>12, <1>13 DEF Next, ScriptStep

\* Behind the barrier it is always late.
LEMMA LatenessHolds == Spec => []Lateness
<1>1. Init => Lateness
  BY DEF Init, Lateness
<1> QED
  BY <1>1, TypesHold, LatenessStep, PTL DEF Spec

\* A time-out is given only where everything drained has been looked at,
\* behind the barrier.
LookedAt ==
  /\ pc # "done" => result = "none"
  /\ result = "timeout" => late /\ seen = drained

\* Only Scanned reports a time-out, behind the barrier.
LEMMA LookedAtStep == LookedAt /\ [Next]_vars => LookedAt'
<1> SUFFICES ASSUME LookedAt, [Next]_vars PROVE LookedAt'
  OBVIOUS
<1> USE DEF envVars, inboxVars, scanVars, countVars, runVars
<1>1. CASE pc = "done"
  BY <1>1, DoneStays DEF vars, LookedAt
<1>2. CASE pc # "done" /\ UNCHANGED <<pc, result>>
  BY <1>2 DEF LookedAt
<1>3. CASE pc # "done" /\ Goto(pc')
  BY <1>3 DEF Goto, LookedAt
<1>4. CASE pc' = "done" /\ result' # "timeout"
  BY <1>4 DEF LookedAt
<1>5. CASE Scanned
  <2>1. CASE pc' = "done" /\ result' = "timeout"
    BY <1>5, <2>1 DEF Scanned, AfterDeadline, Checked, Goto, Finish, LookedAt
  <2>2. CASE ~(pc' = "done" /\ result' = "timeout")
    BY <1>3, <1>4, <1>5, <2>2
       DEF Scanned, AfterDeadline, Goto, Finish, LookedAt
  <2> QED
    BY <2>1, <2>2
<1>6. CASE Tick \/ Cancel \/ LinkChanges \/ Append1 \/ Append2 \/ Append3
  BY <1>1, <1>2, <1>6
     DEF Tick, Cancel, LinkChanges, Append1, Append2, Append3
<1>7. CASE Call \/ Subscribe \/ CaptureGen \/ Expand \/ Top
  BY <1>3, <1>4, <1>7
     DEF Call, Subscribe, CaptureGen, Expand, Top, Goto, Finish, Checked
<1>8. CASE Drain \/ TakePiece \/ Barrier \/ TimedDone \/ DelayedDone \/ Wait
  BY <1>2, <1>3, <1>4, <1>8
     DEF Drain, TakePiece, Barrier, TimedDone, DelayedDone, Wait, Wakes, Goto,
         Finish, Checked
<1>9. CASE Serve
  BY <1>2, <1>4, <1>9, ServeCases DEF Serve
<1>10. CASE WriteTimed
  BY <1>2, <1>4, <1>10 DEF WriteTimed, Finish
<1>11. CASE WriteDelayed
  BY <1>2, <1>4, <1>11, WriteDelayedCases DEF WriteDelayed
<1> QED
  BY <1>1, <1>2, <1>5, <1>6, <1>7, <1>8, <1>9, <1>10, <1>11
     DEF Next, ScriptStep, vars

\* A script that reports a time-out has looked at every piece that arrived in
\* time, one that was still inside Append when time ran out included (the
\* barrier, serial_script.go:517).
THEOREM BarrierIsEnough == Spec => []NothingMissed
<1>1. Init => LookedAt
  BY DEF Init, LookedAt
<1>2. Types /\ Lateness /\ LookedAt => NothingMissed
  <2> SUFFICES ASSUME Types, Lateness, LookedAt, result = "timeout"
               PROVE  /\ \A k \in seen + 1 .. Len(arrived) :
                           ~InTime(arrived[k])
                      /\ adding.pc = "push" => ~InTime(adding.item)
    BY DEF NothingMissed
  <2>1. late /\ seen = drained /\ pc # "drain" /\ Deadline \in Int
    BY ScriptTypes DEF LookedAt, Types, Deadline
  <2>2. ASSUME NEW k \in seen + 1 .. Len(arrived) PROVE ~InTime(arrived[k])
    <3>1. arrived[k].at > Deadline
      BY <2>1 DEF Lateness
    <3>2. arrived \in Seq([data : Chunks, at : Nat]) /\ drained \in Nat
      BY DEF Types
    <3>3. k \in 1 .. Len(arrived)
      BY <2>1, <3>2
    <3>4. arrived[k] \in [data : Chunks, at : Nat]
      BY <3>2, <3>3, ElementOfSeq
    <3>5. arrived[k].at \in Nat
      BY <3>4
    <3> QED
      BY <2>1, <3>1, <3>5 DEF InTime
  <2>3. ASSUME adding.pc = "push" PROVE ~InTime(adding.item)
    <3>1. adding \in [pc : {"push", "signal"}, item : Item]
      BY <2>3 DEF Types, Nobody
    <3>2. adding.item.at > Deadline /\ adding.item.at \in Nat
      BY <2>1, <2>3, <3>1 DEF Lateness, Item
    <3> QED
      BY <2>1, <3>2 DEF InTime
  <2> QED
    BY <2>2, <2>3
<1> QED
  BY <1>1, <1>2, TypesHold, LatenessHolds, LookedAtStep, PTL DEF Spec

-----------------------------------------------------------------------------
(* The answer is true.                                                      *)

\* Every hit has been answered or is queued, unless a write went wrong.
Balance ==
  result \notin {"cancelled", "stale", "failed"} =>
    \A r \in Rules : fired[r] = sent[r] + Len(delayed[r])

\* No entry is written more often than it asks for.
NoneTooMany == \A i \in Writes : timed[i] <= Want(script.writes[i])

\* A hit is answered or queued in the step that counts it.
LEMMA BalanceStep == Types /\ LookedAt /\ Balance /\ [Next]_vars => Balance'
<1> SUFFICES ASSUME Types, LookedAt, Balance, [Next]_vars,
                    result' \notin {"cancelled", "stale", "failed"},
                    NEW r \in Rules'
             PROVE  fired'[r] = sent'[r] + Len(delayed'[r])
  BY DEF Balance
<1> USE DEF envVars, inboxVars, scanVars, countVars, runVars
<1>a. /\ fired \in [Rules -> Nat] /\ sent \in [Rules -> Nat]
      /\ delayed \in [Rules -> Seq(Int)]
  BY DEF Types
<1>b. Rules' = Rules
  BY DEF Next, ScriptStep, vars, Rules, Tick, Cancel, LinkChanges, Append1,
         Append2, Append3, Call, Subscribe, CaptureGen, Expand, Top, Drain,
         TakePiece, Serve, Scanned, Barrier, WriteTimed, TimedDone,
         WriteDelayed, DelayedDone, Wait
<1>1. CASE pc = "done"
  BY <1>1, <1>b, DoneStays DEF vars, Balance
<1>2. CASE pc # "done" /\ UNCHANGED <<fired, sent, delayed>>
  BY <1>2, <1>b DEF Balance, LookedAt
<1>3. CASE pc # "done" /\ Serve
  <2> DEFINE q == First.rule
             due == now + script.rules[q].delay
  <2>1. fired[r] = sent[r] + Len(delayed[r])
    BY <1>3, <1>b DEF Balance, LookedAt
  <2>2. /\ fired' = [fired EXCEPT ![q] = @ + 1]
        /\ \/ sent' = [sent EXCEPT ![q] = @ + 1] /\ delayed' = delayed
           \/ delayed' = [delayed EXCEPT ![q] = Append(@, due)] /\ sent' = sent
    BY <1>3, ServeCases
  <2>3. CASE r # q
    BY <1>a, <1>b, <2>1, <2>2, <2>3
  <2>4. CASE r = q
    <3>1. fired'[r] = fired[r] + 1
      BY <1>a, <1>b, <2>2, <2>4
    <3>2. CASE sent' = [sent EXCEPT ![q] = @ + 1] /\ delayed' = delayed
      <4>1. sent'[r] = sent[r] + 1 /\ delayed'[r] = delayed[r]
        BY <1>a, <1>b, <2>4, <3>2
      <4> QED
        BY <1>a, <1>b, <2>1, <3>1, <4>1
    <3>3. CASE /\ delayed' = [delayed EXCEPT ![q] = Append(@, due)]
               /\ sent' = sent
      <4>1. delayed'[r] = Append(delayed[r], due)
        BY <1>a, <1>b, <2>4, <3>3
      <4>2. Len(delayed'[r]) = Len(delayed[r]) + 1
        BY <1>a, <1>b, <4>1
      <4>3. sent'[r] = sent[r] /\ sent[r] \in Nat /\ Len(delayed[r]) \in Nat
        BY <1>a, <1>b, <3>3
      <4> QED
        BY <2>1, <3>1, <4>2, <4>3
    <3> QED
      BY <2>2, <3>2, <3>3
  <2> QED
    BY <2>3, <2>4
<1>4. CASE pc # "done" /\ WriteDelayed
  <2>1. fired[r] = sent[r] + Len(delayed[r]) /\ fired' = fired
    BY <1>4, <1>b DEF Balance, LookedAt, WriteDelayed
  <2>2. PICK q \in Waiting :
          /\ sent' = [sent EXCEPT ![q] = @ + 1]
          /\ delayed' = [delayed EXCEPT ![q] = Tail(@)]
    BY <1>4, WriteDelayedCases
  <2>3. CASE r # q
    BY <1>a, <1>b, <2>1, <2>2, <2>3
  <2>4. CASE r = q
    <3>1. sent'[r] = sent[r] + 1 /\ delayed'[r] = Tail(delayed[r])
      BY <1>a, <1>b, <2>2, <2>4
    <3>2. delayed[r] \in Seq(Int) /\ delayed[r] # <<>>
      BY <1>a, <2>4 DEF Waiting
    <3>3. Len(delayed'[r]) = Len(delayed[r]) - 1
      BY <3>1, <3>2
    <3> QED
      BY <1>a, <1>b, <2>1, <3>1, <3>2, <3>3
  <2> QED
    BY <2>3, <2>4
<1> QED
  BY <1>1, <1>2, <1>3, <1>4
     DEF Next, ScriptStep, vars, Tick, Cancel, LinkChanges, Append1, Append2,
         Append3, Call, Subscribe, CaptureGen, Expand, Top, Drain, TakePiece,
         Scanned, Barrier, WriteTimed, TimedDone, DelayedDone, Wait

\* Only an entry with a write left is written.
LEMMA NoneTooManyStep == Types /\ NoneTooMany /\ [Next]_vars => NoneTooMany'
<1> SUFFICES ASSUME Types, NoneTooMany, [Next]_vars PROVE NoneTooMany'
  OBVIOUS
<1> USE DEF envVars, inboxVars, scanVars, countVars, runVars
<1>1. CASE UNCHANGED <<timed, script>>
  BY <1>1 DEF NoneTooMany, Writes
<1>2. CASE WriteTimed
  <2>1. PICK i \in Left : timed' \in {timed, [timed EXCEPT ![i] = @ + 1]}
    BY <1>2 DEF WriteTimed, DueTimed, FirstTimed
  <2>2. script' = script
    BY <1>2 DEF WriteTimed
  <2>3. timed \in [Writes -> Nat]
        /\ \A j \in Writes : Want(script.writes[j]) \in Int
    BY ScriptTypes DEF Types, Writes
  <2>4. i \in Writes /\ timed[i] < Want(script.writes[i])
    BY DEF Left
  <2>5. ASSUME NEW j \in Writes PROVE timed'[j] <= Want(script.writes[j])
    <3>1. timed[j] <= Want(script.writes[j])
      BY DEF NoneTooMany
    <3>2. timed'[j] \in {timed[j], IF j = i THEN timed[i] + 1 ELSE timed[j]}
      BY <2>1, <2>3, <2>4
    <3> QED
      BY <2>3, <2>4, <3>1, <3>2
  <2> QED
    BY <2>2, <2>5 DEF NoneTooMany, Writes
<1> QED
  BY <1>1, <1>2
     DEF Next, ScriptStep, vars, Tick, Cancel, LinkChanges, Append1, Append2,
         Append3, Call, Subscribe, CaptureGen, Expand, Top, Drain, TakePiece,
         Serve, Scanned, Barrier, TimedDone, WriteDelayed, DelayedDone, Wait

\* What has been asked before the answer was given.
Asked ==
  /\ result \in {"complete", "timeout"} => Connected /\ ~cancelled
  /\ result = "complete" => Complete

\* Both questions are asked in the step that answers.
LEMMA AskedStep == LookedAt /\ Asked /\ [Next]_vars => Asked'
<1> SUFFICES ASSUME LookedAt, Asked, [Next]_vars,
                    result' \in {"complete", "timeout"}
             PROVE  /\ Connected' /\ ~cancelled'
                    /\ result' = "complete" => Complete'
  BY DEF Asked
<1> USE DEF envVars, inboxVars, scanVars, countVars, runVars
<1>1. CASE pc = "done"
  <2>1. UNCHANGED vars
    BY <1>1, DoneStays
  <2> QED
    BY <2>1 DEF vars, Asked, Connected, Complete, Left, Waiting, Rules, Writes
<1>2. CASE pc # "done" /\ UNCHANGED result
  BY <1>2 DEF LookedAt
<1>3. CASE Scanned \/ DelayedDone
  <2>1. CASE result' = result
    BY <1>1, <1>2, <2>1
  <2>2. CASE result' # result
    <3>1. UNCHANGED <<envVars, inboxVars, scanVars, countVars, runVars>>
      BY <1>3 DEF Scanned, DelayedDone
    <3>2. \/ result' = Checked("timeout")
          \/ Complete /\ result' = Checked("complete")
      BY <1>3, <2>2 DEF Scanned, DelayedDone, AfterDeadline, Goto, Finish
    <3>3. Connected /\ ~cancelled /\ (result' = "complete" => Complete)
      BY <3>2 DEF Checked
    <3> QED
      BY <3>1, <3>3 DEF Connected, Complete, Left, Waiting, Rules, Writes
  <2> QED
    BY <2>1, <2>2
<1>4. CASE Tick \/ Cancel \/ LinkChanges \/ Append1 \/ Append2 \/ Append3
  BY <1>1, <1>2, <1>4
     DEF Tick, Cancel, LinkChanges, Append1, Append2, Append3
<1>5. CASE Call \/ Subscribe \/ CaptureGen \/ Expand \/ Top
  BY <1>1, <1>2, <1>5
     DEF Call, Subscribe, CaptureGen, Expand, Top, Goto, Finish, Checked
<1>6. CASE Drain \/ TakePiece \/ Barrier \/ TimedDone \/ Wait
  BY <1>1, <1>2, <1>6
     DEF Drain, TakePiece, Barrier, TimedDone, Wait, Wakes, Goto, Finish
<1>7. CASE Serve
  BY <1>1, <1>2, <1>7, ServeCases
<1>8. CASE WriteTimed
  BY <1>1, <1>2, <1>8 DEF WriteTimed, Finish
<1>9. CASE WriteDelayed
  BY <1>1, <1>2, <1>9, WriteDelayedCases
<1> QED
  BY <1>1, <1>2, <1>3, <1>4, <1>5, <1>6, <1>7, <1>8, <1>9
     DEF Next, ScriptStep, vars

\* The answer is true when it is given: a success hides neither a lost link
\* nor a cancellation, "complete" means that every write has reached the port
\* on one connection, and a "timeout" has counted exactly what was sent
\* (completeResult, serial_script.go:458, and the time-out, :517).
THEOREM AnswersTruly == Spec => []TruthfulEnd
<1>1. Init => LookedAt /\ Asked
  BY DEF Init, LookedAt, Asked
<1>2. Init => Balance
  BY DEF Init, Balance
<1>3. Init => NoneTooMany
  <2> SUFFICES ASSUME Init, NEW i \in Writes
               PROVE  timed[i] <= Want(script.writes[i])
    BY DEF NoneTooMany
  <2>1. script.writes[i].count \in Int
    <3>1. script \in [writes : Seq(TimedWrite), rules : Seq(MatchRule),
                      timeout : Int]
      BY ScriptAssumption DEF Init
    <3>2. script.writes \in Seq(TimedWrite)
      BY <3>1
    <3>3. script.writes[i] \in TimedWrite
      BY <3>2 DEF Writes
    <3> QED
      BY <3>3 DEF TimedWrite
  <2>2. timed[i] = 0
    BY DEF Init
  <2> QED
    BY <2>1, <2>2 DEF Want
<1>4. Types /\ Lateness /\ LookedAt /\ Balance /\ NoneTooMany /\ Asked
        => TruthfulEnd
  <2> SUFFICES ASSUME Types, Lateness, LookedAt, Balance, NoneTooMany, Asked
               PROVE  TruthfulEnd
    OBVIOUS
  <2>1. result \in {"complete", "timeout"} =>
          /\ Connected /\ ~cancelled
          /\ \A r \in Rules : fired[r] = sent[r] + Len(delayed[r])
    BY DEF Asked, Balance
  <2>2. ASSUME result = "complete", NEW i \in Writes
        PROVE  timed[i] = Want(script.writes[i])
    <3>1. timed[i] \in Nat /\ Want(script.writes[i]) \in Int
      BY ScriptTypes DEF Types, Writes
    <3>2. ~(timed[i] < Want(script.writes[i]))
      BY <2>2 DEF Asked, Complete, Left
    <3>3. timed[i] <= Want(script.writes[i])
      BY DEF NoneTooMany
    <3> QED
      BY <3>1, <3>2, <3>3
  <2>3. ASSUME result = "complete", NEW r \in Rules
        PROVE  sent[r] > 0 /\ sent[r] = fired[r]
    <3>1. delayed[r] = <<>> /\ fired[r] > 0
      BY <2>3 DEF Asked, Complete, Waiting
    <3>2. fired[r] = sent[r] + Len(delayed[r]) /\ sent[r] \in Nat
      BY <2>1, <2>3 DEF Types
    <3> QED
      BY <3>1, <3>2
  <2>4. result = "timeout" => now > Deadline
    BY DEF LookedAt, Lateness
  <2> QED
    BY <2>1, <2>2, <2>3, <2>4 DEF TruthfulEnd
<1> QED
  BY <1>1, <1>2, <1>3, <1>4, TypesHold, LatenessHolds, LookedAtStep,
     BalanceStep, NoneTooManyStep, AskedStep, PTL DEF Spec

-----------------------------------------------------------------------------
(* Types and limits.                                                        *)

Early == {"call", "subscribe", "capture", "expand"}

\* The types of what the script and its environment switch.
Switches ==
  /\ ticked \in BOOLEAN /\ cancelled \in BOOLEAN /\ sig \in BOOLEAN
  /\ late \in BOOLEAN /\ gen \in 0 .. MaxGen
  /\ link \in [up : BOOLEAN, gen : 0 .. MaxGen]
  /\ pc \in Pcs /\ result \in Results

\* The inbox is emptied in order, and the schedule is ready in time.
InOrder ==
  /\ drained \in 0 .. Len(arrived) /\ seen \in 0 .. drained
  /\ start \in 0 .. MaxStart /\ (pc \in Early => now <= MaxStart)

\* What the search for hits works on.
Scanning ==
  /\ scanFrom \in [Rules -> Nat] /\ work \subseteq [rule : Rules, end : Nat]
  /\ window \in Seq(Letters) /\ Len(window) <= WindowMax /\ base \in Nat

Delays == delayed \in [Rules -> Seq(Nat)]

\* Every step keeps the types of what it switches.
LEMMA SwitchesStep == Switches /\ [Next]_vars => Switches'
<1> SUFFICES ASSUME Switches, [Next]_vars PROVE Switches'
  OBVIOUS
<1> USE DEF envVars, inboxVars, scanVars, countVars, runVars
<1>a. /\ pc \in Pcs /\ result \in Results /\ ticked \in BOOLEAN
      /\ cancelled \in BOOLEAN /\ sig \in BOOLEAN /\ late \in BOOLEAN
      /\ gen \in 0 .. MaxGen /\ link \in [up : BOOLEAN, gen : 0 .. MaxGen]
  BY DEF Switches
<1>b. Checked("none") \in Results /\ Checked("complete") \in Results
      /\ Checked("timeout") \in Results
  BY DEF Checked, Results
<1>1. CASE UNCHANGED vars
  <2>1. UNCHANGED <<pc, result, ticked, cancelled, sig, late, gen, link>>
    BY <1>1 DEF vars
  <2> QED
    BY <1>a, <2>1 DEF Switches
<1>2. CASE Tick
  <2>1. ticked' \in BOOLEAN
    <3>1. Looping \in BOOLEAN
      BY DEF Looping
    <3>2. ticked' = Looping
      BY <1>2 DEF Tick
    <3> QED
      BY <3>1, <3>2
  <2> QED
    BY <1>2, <1>a, <2>1 DEF Tick, Switches
<1>3. CASE Cancel
  BY <1>3, <1>a DEF Cancel, Switches
<1>4. CASE LinkChanges
  <2>1. link' \in [up : BOOLEAN, gen : 0 .. MaxGen]
    <3>1. CASE link.gen < MaxGen
               /\ link' \in [up : {FALSE, link.up}, gen : {link.gen + 1}]
      <4>1. link.up \in BOOLEAN /\ link.gen \in 0 .. MaxGen
        BY <1>a
      <4>2. link.gen + 1 \in 0 .. MaxGen
        BY <3>1, <4>1, LimitsAssumption
      <4> QED
        BY <3>1, <4>1, <4>2
    <3>2. CASE link' = [link EXCEPT !.up = TRUE]
      BY <1>a, <3>2
    <3> QED
      BY <1>4, <3>1, <3>2 DEF LinkChanges
  <2> QED
    BY <1>4, <1>a, <2>1 DEF LinkChanges, Switches
<1>5. CASE Append1 \/ Append2
  BY <1>5, <1>a DEF Append1, Append2, Switches
<1>6. CASE Append3
  BY <1>6, <1>a DEF Append3, Switches
<1>7. CASE Call \/ Subscribe \/ Expand \/ Top
  <2>1. pc' \in Pcs /\ result' \in Results
    BY <1>7, <1>a, <1>b
       DEF Call, Subscribe, Expand, Top, Goto, Finish, Pcs, Results
  <2>2. UNCHANGED <<ticked, cancelled, sig, late, gen, link>>
    BY <1>7 DEF Call, Subscribe, Expand, Top
  <2> QED
    BY <1>a, <2>1, <2>2 DEF Switches
<1>8. CASE CaptureGen
  <2>1. gen' \in 0 .. MaxGen
    BY <1>8, <1>a DEF CaptureGen
  <2>2. pc' \in Pcs /\ result' \in Results
    BY <1>8, <1>a DEF CaptureGen, Goto, Pcs
  <2>3. UNCHANGED <<ticked, cancelled, sig, late, link>>
    BY <1>8 DEF CaptureGen
  <2> QED
    BY <1>a, <2>1, <2>2, <2>3 DEF Switches
<1>9. CASE Drain \/ TakePiece \/ Scanned \/ TimedDone \/ DelayedDone
  <2>1. pc' \in Pcs /\ result' \in Results
    BY <1>9, <1>a, <1>b
       DEF Drain, TakePiece, Scanned, TimedDone, DelayedDone, AfterDeadline,
           Goto, Finish, Pcs
  <2>2. UNCHANGED <<ticked, cancelled, sig, late, gen, link>>
    BY <1>9 DEF Drain, TakePiece, Scanned, TimedDone, DelayedDone
  <2> QED
    BY <1>a, <2>1, <2>2 DEF Switches
<1>10. CASE Serve
  <2>1. pc' \in Pcs /\ result' \in Results
    <3>1. \/ pc' = "done" /\ result' \in {"cancelled", "stale", "failed"}
          \/ UNCHANGED <<pc, result>>
      BY <1>10, ServeCases
    <3> QED
      BY <1>a, <3>1 DEF Pcs, Results
  <2>2. UNCHANGED <<ticked, cancelled, sig, late, gen, link>>
    BY <1>10 DEF Serve
  <2> QED
    BY <1>a, <2>1, <2>2 DEF Switches
<1>11. CASE Barrier
  BY <1>11, <1>a DEF Barrier, Goto, Pcs, Switches
<1>12. CASE WriteTimed
  <2>1. pc' \in Pcs /\ result' \in Results
    BY <1>12, <1>a DEF WriteTimed, Finish, Pcs, Results
  <2>2. UNCHANGED <<ticked, cancelled, sig, late, gen, link>>
    BY <1>12 DEF WriteTimed
  <2> QED
    BY <1>a, <2>1, <2>2 DEF Switches
<1>13. CASE WriteDelayed
  <2>1. pc' \in Pcs /\ result' \in Results
    <3>1. \/ pc' = "done" /\ result' \in {"cancelled", "stale", "failed"}
          \/ UNCHANGED <<pc, result>>
      BY <1>13, WriteDelayedCases
    <3> QED
      BY <1>a, <3>1 DEF Pcs, Results
  <2>2. UNCHANGED <<ticked, cancelled, sig, late, gen, link>>
    BY <1>13 DEF WriteDelayed
  <2> QED
    BY <1>a, <2>1, <2>2 DEF Switches
<1>14. CASE Wait
  <2>1. pc' \in Pcs /\ result' \in Results
    BY <1>14, <1>a DEF Wait, Wakes, Goto, Finish, Pcs, Results
  <2>2. ticked' \in BOOLEAN /\ sig' \in BOOLEAN
    BY <1>14, <1>a DEF Wait, Wakes
  <2>3. UNCHANGED <<cancelled, late, gen, link>>
    BY <1>14 DEF Wait
  <2> QED
    BY <1>a, <2>1, <2>2, <2>3 DEF Switches
<1> QED
  BY <1>1, <1>2, <1>3, <1>4, <1>5, <1>6, <1>7, <1>8, <1>9, <1>10, <1>11,
     <1>12, <1>13, <1>14 DEF Next, ScriptStep

\* The inbox is drained, and then looked at, from the front.
LEMMA InOrderStep == Types /\ InOrder /\ [Next]_vars => InOrder'
<1> SUFFICES ASSUME Types, InOrder, [Next]_vars PROVE InOrder'
  OBVIOUS
<1> USE DEF envVars, inboxVars, scanVars, countVars, runVars
<1>a. /\ drained \in 0 .. Len(arrived) /\ seen \in 0 .. drained
      /\ start \in 0 .. MaxStart /\ (pc \in Early => now <= MaxStart)
      /\ now \in Nat /\ MaxStart \in Nat /\ Len(arrived) \in Nat
  BY LimitsAssumption DEF InOrder, Types
<1>b. pc = "done" => UNCHANGED vars
  BY DoneStays
<1>1. CASE /\ UNCHANGED <<now, drained, seen, arrived, start>>
           /\ pc \in Early \/ pc' \notin Early
  BY <1>1, <1>a DEF InOrder
<1>2. CASE UNCHANGED vars
  BY <1>2, <1>a DEF vars, InOrder
<1>3. CASE Tick
  <2>1. pc \in Early => now' <= MaxStart
    BY <1>3, <1>a DEF Tick, Looping, Early
  <2> QED
    BY <1>3, <1>a, <2>1 DEF Tick, InOrder
<1>4. CASE Append2
  <2>1. Len(arrived') = Len(arrived) + 1
    BY <1>4 DEF Append2, Types
  <2> QED
    BY <1>4, <1>a, <2>1 DEF Append2, InOrder
<1>5. CASE Cancel \/ LinkChanges \/ Append1 \/ Append3
  BY <1>5, <1>a DEF Cancel, LinkChanges, Append1, Append3, InOrder
<1>6. CASE Expand
  <2>1. start' \in 0 .. MaxStart /\ pc' \notin Early
    BY <1>6, <1>a DEF Expand, Goto, Finish, Early
  <2> QED
    BY <1>6, <1>a, <2>1 DEF Expand, InOrder
<1>7. CASE Call \/ Subscribe \/ CaptureGen \/ Top
  BY <1>7, <1>1 DEF Call, Subscribe, CaptureGen, Top, Goto, Finish, Early
<1>8. CASE Drain
  BY <1>8, <1>a DEF Drain, Goto, Early, InOrder
<1>9. CASE TakePiece
  <2>1. seen' = seen + 1 /\ seen < drained /\ pc \notin Early
        /\ UNCHANGED <<now, drained, arrived, start, pc>>
    BY <1>9 DEF TakePiece, Early
  <2> QED
    BY <1>a, <2>1 DEF InOrder
<1>10. CASE \/ Scanned \/ Barrier \/ TimedDone \/ DelayedDone
            \/ Wait \/ WriteTimed
  BY <1>10, <1>1
     DEF Scanned, AfterDeadline, Barrier, TimedDone, DelayedDone, Wait, Wakes,
         WriteTimed, Goto, Finish, Early
<1>11. CASE Serve
  <2>1. pc' \notin Early
    BY <1>11, ServeCases DEF Serve, Early
  <2> QED
    BY <1>11, <1>1, <2>1 DEF Serve
<1>12. CASE WriteDelayed
  <2>1. pc' \notin Early
    BY <1>12, WriteDelayedCases DEF WriteDelayed, Early
  <2> QED
    BY <1>12, <1>1, <2>1 DEF WriteDelayed
<1> QED
  BY <1>2, <1>3, <1>4, <1>5, <1>6, <1>7, <1>8, <1>9, <1>10, <1>11, <1>12
     DEF Next, ScriptStep

\* A hit of a rule belongs to it and has an end.
LEMMA NewHitsTypes ==
  ASSUME script \in Scripts, base \in Nat, NEW r \in Rules,
         NEW win \in Seq(Letters)
  PROVE  NewHits(r, win) \subseteq [rule : Rules, end : Nat]
<1>1. PICK word \in Seq(Letters) : word = script.rules[r].word
  BY ScriptFields DEF Rules
<1>2. FindAll(win, word) \subseteq Standing(word, win)
  BY FindAllHits
<1>3. ASSUME NEW i \in FindAll(win, word)
      PROVE  [rule |-> r, end |-> base + i - 1 + Len(word)]
               \in [rule : Rules, end : Nat]
  <2>1. i \in Nat \ {0}
    BY <1>2, StandingTypes
  <2>2. base + i - 1 + Len(word) \in Nat
    BY <2>1
  <2> QED
    BY <2>2
<1> QED
  BY <1>1, <1>3 DEF NewHits

\* The rule that is declared first is served first, and its leftmost hit.
LEMMA FirstIsFirst ==
  ASSUME NEW R, R \subseteq Nat,
         work \subseteq [rule : R, end : Nat], work # {}
  PROVE  /\ First \in work
         /\ \A g \in work : g.rule = First.rule => First.end <= g.end
<1> DEFINE T == {h.rule : h \in work}
<1>a. ASSUME NEW h \in work PROVE h.rule \in Nat /\ h.end \in Nat
  <2>1. h \in [rule : R, end : Nat]
    OBVIOUS
  <2>2. h.rule \in R /\ h.end \in Nat
    BY <2>1
  <2> QED
    BY <2>2
<1>1. PICK r \in T : \A q \in T : r <= q
  <2>1. T \subseteq Nat /\ T # {}
    BY <1>a
  <2> HIDE DEF T
  <2> QED
    BY <2>1, NatLeast
<1> DEFINE U == {h.end : h \in {g \in work : g.rule = r}}
<1>2. PICK e \in U : \A f \in U : e <= f
  <2>1. U \subseteq Nat /\ U # {}
    BY <1>a, <1>1
  <2> HIDE DEF U
  <2> QED
    BY <2>1, NatLeast
<1>3. PICK h \in work : h.rule = r /\ h.end = e
  BY <1>2
<1>4. ASSUME NEW g \in work
      PROVE  h.rule < g.rule \/ (h.rule = g.rule /\ h.end <= g.end)
  <2>1. h.rule <= g.rule
    BY <1>1, <1>3
  <2>2. CASE g.rule = r
    <3>1. g.end \in U
      BY <2>2
    <3> QED
      BY <1>2, <1>3, <2>2, <3>1
  <2>3. CASE g.rule # r
    BY <1>a, <1>3, <2>1, <2>3
  <2> QED
    BY <2>2, <2>3
<1>5. /\ First \in work
      /\ \A g \in work :
           First.rule < g.rule \/ (First.rule = g.rule /\ First.end <= g.end)
  BY <1>4 DEF First
<1>6. ASSUME NEW g \in work, g.rule = First.rule PROVE First.end <= g.end
  <2>1. ~(First.rule < g.rule)
    BY <1>a, <1>5, <1>6
  <2> QED
    BY <1>5, <2>1
<1> QED
  BY <1>5, <1>6

\* The window is cut, and the offsets move to the ends of hits.
LEMMA ScanningStep == Types /\ InOrder /\ Scanning /\ [Next]_vars => Scanning'
<1> SUFFICES ASSUME Types, InOrder, Scanning, [Next]_vars PROVE Scanning'
  OBVIOUS
<1> USE DEF envVars, inboxVars, scanVars, countVars, runVars
<1>a. /\ scanFrom \in [Rules -> Nat]
      /\ work \subseteq [rule : Rules, end : Nat]
      /\ window \in Seq(Letters) /\ Len(window) <= WindowMax /\ base \in Nat
  BY DEF Scanning
<1>1. CASE UNCHANGED <<script, scanFrom, work, window, base>>
  BY <1>1, <1>a DEF Scanning, Rules
<1>2. CASE TakePiece
  <2>1. UNCHANGED <<script, scanFrom>>
    BY <1>2 DEF TakePiece
  <2>2. CASE UNCHANGED <<work, window, base>>
    BY <1>1, <2>1, <2>2
  <2>3. CASE ~UNCHANGED <<work, window, base>>
    <3>1. PICK item : item = arrived[seen + 1]
      OBVIOUS
    <3>2. item.data \in Seq(Letters)
      <4>1. seen + 1 \in 1 .. Len(arrived)
        BY <1>2 DEF TakePiece, InOrder
      <4>2. item \in [data : Chunks, at : Nat]
        BY <3>1, <4>1, ElementOfSeq DEF Types
      <4>3. item.data \in Chunks
        BY <4>2
      <4> QED
        BY <4>3, ScriptAssumption
    <3>3. PICK win : win = window \o item.data
      OBVIOUS
    <3>4. win \in Seq(Letters)
      BY <1>a, <3>2, <3>3, BothOf
    <3>5. PICK e : e = Excess(win)
      OBVIOUS
    <3>6. /\ work' = UNION {NewHits(r, win) : r \in Rules}
          /\ window' = SubSeq(win, e + 1, Len(win)) /\ base' = base + e
      BY <1>2, <2>3, <3>1, <3>3, <3>5 DEF TakePiece
    <3>7. e \in 0 .. Len(win) /\ Len(win) - e <= WindowMax
      <4>1. Len(win) \in Nat /\ WindowMax \in Nat
        BY <3>4, LimitsAssumption
      <4> QED
        BY <3>5, <4>1 DEF Excess
    <3>8. window' \in Seq(Letters) /\ Len(window') <= WindowMax
      BY <3>4, <3>6, <3>7, TailOf
    <3>9. work' \subseteq [rule : Rules, end : Nat]
      <4>1. \A r \in Rules :
              NewHits(r, win) \subseteq [rule : Rules, end : Nat]
        BY <1>a, <3>4, NewHitsTypes DEF Types
      <4> QED
        BY <3>6, <4>1
    <3>10. base' \in Nat
      BY <1>a, <3>6, <3>7
    <3>11. Rules' = Rules
      BY <2>1 DEF Rules
    <3> QED
      BY <1>a, <2>1, <3>8, <3>9, <3>10, <3>11 DEF Scanning
  <2> QED
    BY <2>2, <2>3
<1>3. CASE Serve
  <2>1. /\ UNCHANGED <<script, window, base>>
        /\ work' \subseteq work /\ Rules' = Rules
    BY <1>3 DEF Serve, Rules
  <2>2. First \in work
    <3>1. Rules \subseteq Nat
      BY ScriptTypes DEF Types, Rules
    <3> QED
      BY <1>3, <1>a, <3>1, FirstIsFirst DEF Serve
  <2>3. First.end \in Nat
    <3>1. First \in [rule : Rules, end : Nat]
      BY <1>a, <2>2
    <3> QED
      BY <3>1
  <2>4. scanFrom' \in {scanFrom, [scanFrom EXCEPT ![First.rule] = First.end]}
    BY <1>3 DEF Serve, Count
  <2>5. scanFrom' \in [Rules -> Nat]
    BY <1>a, <2>3, <2>4
  <2>6. work' \subseteq [rule : Rules, end : Nat]
    BY <1>a, <2>1
  <2> QED
    BY <1>a, <2>1, <2>5, <2>6 DEF Scanning
<1> QED
  BY <1>1, <1>2, <1>3
     DEF Next, ScriptStep, vars, Tick, Cancel, LinkChanges, Append1, Append2,
         Append3, Call, Subscribe, CaptureGen, Expand, Top, Drain, Scanned,
         Barrier, WriteTimed, TimedDone, WriteDelayed, DelayedDone, Wait

\* A queued write is due at a time.
LEMMA DelaysStep == Types /\ Delays /\ [Next]_vars => Delays'
<1> SUFFICES ASSUME Types, Delays, [Next]_vars PROVE Delays'
  OBVIOUS
<1> USE DEF envVars, inboxVars, scanVars, countVars, runVars
<1>1. CASE UNCHANGED <<script, delayed>>
  BY <1>1 DEF Delays, Rules
<1>2. CASE Serve
  <2> DEFINE r == First.rule
             due == now + script.rules[r].delay
  <2>1. script' = script /\ Rules' = Rules
    BY <1>2 DEF Serve, Rules
  <2>2. \/ delayed' = delayed
        \/ delayed' = [delayed EXCEPT ![r] = Append(@, due)]
           /\ script.rules[r].delay > 0
    BY <1>2 DEF Serve
  <2>3. CASE delayed' = delayed
    BY <1>1, <2>1, <2>3
  <2>4. CASE r \notin Rules
    BY <1>1, <2>1, <2>2, <2>4 DEF Delays
  <2>5. CASE /\ r \in Rules /\ script.rules[r].delay > 0
             /\ delayed' = [delayed EXCEPT ![r] = Append(@, due)]
    <3>1. due \in Nat
      <4>1. script.rules[r].delay \in Int /\ now \in Nat
        BY <2>5, ScriptTypes DEF Types, Rules
      <4> QED
        BY <2>5, <4>1
    <3>2. Append(delayed[r], due) \in Seq(Nat)
      BY <2>5, <3>1 DEF Delays
    <3> HIDE DEF due, r
    <3>3. delayed' \in [Rules -> Seq(Nat)]
      BY <2>5, <3>2 DEF Delays
    <3> QED
      BY <2>1, <3>3 DEF Delays
  <2> QED
    BY <2>2, <2>3, <2>4, <2>5
<1>3. CASE WriteDelayed
  <2>1. PICK r \in Waiting :
          delayed' \in {delayed, [delayed EXCEPT ![r] = Tail(@)]}
    BY <1>3, WriteDelayedCases
  <2>2. script' = script /\ Rules' = Rules
    BY <1>3 DEF WriteDelayed, Rules
  <2>3. r \in Rules /\ delayed[r] \in Seq(Nat) /\ delayed[r] # <<>>
    BY DEF Waiting, Delays
  <2>4. Tail(delayed[r]) \in Seq(Nat)
    BY <2>3
  <2>5. delayed' \in [Rules -> Seq(Nat)]
    BY <2>1, <2>4 DEF Delays
  <2> QED
    BY <2>2, <2>5 DEF Delays
<1> QED
  BY <1>1, <1>2, <1>3
     DEF Next, ScriptStep, vars, Tick, Cancel, LinkChanges, Append1, Append2,
         Append3, Call, Subscribe, CaptureGen, Expand, Top, Drain, TakePiece,
         Scanned, Barrier, WriteTimed, TimedDone, DelayedDone, Wait

\* Only the expansion begins with the loop.
LEMMA LoopBegins ==
  ASSUME [Next]_vars, Looping', ~Looping
  PROVE  Expand
<1> USE DEF envVars, inboxVars, scanVars, countVars, runVars
<1>a. \/ pc \in {"call", "subscribe", "capture", "expand", "done"}
      \/ pc' \in {"call", "subscribe", "capture", "expand", "done"}
  BY DEF Looping
<1>b. pc \in {"call", "subscribe", "capture", "expand", "done"}
      /\ pc' \notin {"call", "subscribe", "capture", "expand", "done"}
  BY DEF Looping
<1>1. ~UNCHANGED pc
  BY <1>b
<1>2. ~(Call \/ Subscribe \/ CaptureGen)
  BY <1>b DEF Call, Subscribe, CaptureGen, Goto, Finish
<1>3. ~(Top \/ Drain \/ TakePiece \/ Serve \/ Scanned \/ Barrier)
  BY <1>b DEF Top, Drain, TakePiece, Serve, Scanned, Barrier
<1>4. ~(WriteTimed \/ TimedDone \/ WriteDelayed \/ DelayedDone \/ Wait)
  BY <1>b, <1>1 DEF WriteTimed, TimedDone, WriteDelayed, DelayedDone, Wait
<1>5. ~(Tick \/ Cancel \/ LinkChanges \/ Append1 \/ Append2 \/ Append3)
  BY <1>1 DEF Tick, Cancel, LinkChanges, Append1, Append2, Append3
<1> QED
  BY <1>1, <1>2, <1>3, <1>4, <1>5 DEF Next, ScriptStep, vars

\* Nobody changes the script.
LEMMA ScriptStays == [Next]_vars => script' = script
<1> QED
  BY DEF Next, ScriptStep, vars, envVars, inboxVars, scanVars, countVars,
         runVars, Tick, Cancel, LinkChanges, Append1, Append2, Append3, Call,
         Subscribe, CaptureGen, Expand, Top, Drain, TakePiece, Serve, Scanned,
         Barrier, WriteTimed, TimedDone, WriteDelayed, DelayedDone, Wait

\* Who enters the loop has passed the checks of the expansion.
LEMMA ScheduleFitsStep == Types /\ ScheduleFits /\ [Next]_vars => ScheduleFits'
<1> SUFFICES ASSUME Types, ScheduleFits, [Next]_vars, Looping'
             PROVE  LET ws == script'.writes
                    IN  /\ Planned(ws)[Len(ws)] <= ScheduleMax
                        /\ \A i \in Writes' : \A k \in 0 .. Want(ws[i]) - 1 :
                             Offset(ws[i], k) \in 0 .. AtMax
  BY DEF ScheduleFits
<1>1. script' = script /\ Writes' = Writes
  BY ScriptStays DEF Writes
<1>2. CASE Looping
  BY <1>1, <1>2 DEF ScheduleFits
<1>3. CASE ~Looping
  <2>1. Expand
    BY <1>3, LoopBegins
  <2>2. pc' # "done"
    BY DEF Looping
  <2>3. \A i \in DOMAIN script.writes :
          ValidWrite(script.writes[i], Planned(script.writes)[i - 1])
    BY <2>1, <2>2 DEF Expand, Finish, Writes
  <2>4. script.writes \in Seq(TimedWrite)
    BY ScriptFields DEF Types
  <2> QED
    BY <1>1, <2>3, <2>4, ExpandedFits DEF Writes
<1> QED
  BY <1>2, <1>3

\* Every variable keeps its type, the window its limit, and a schedule that
\* passed the checks its number and its offsets, although no sum was formed
\* that could overflow (serial_script.go:246, 256).
THEOREM TypesAndLimits == Spec => []TypeOK
<1>1. Init => Switches
  <2> SUFFICES ASSUME Init PROVE Switches
    OBVIOUS
  <2>1. link \in [up : BOOLEAN, gen : 0 .. MaxGen] /\ gen \in 0 .. MaxGen
    BY LimitsAssumption DEF Init
  <2> QED
    BY <2>1 DEF Init, Switches, Pcs, Results
<1>2. Init => InOrder
  BY LimitsAssumption DEF Init, InOrder
<1>3. Init => Scanning
  BY LimitsAssumption DEF Init, Scanning
<1>4. Init => Delays
  BY DEF Init, Delays
<1>5. Init => ScheduleFits
  BY DEF Init, ScheduleFits, Looping
<1>6. Types /\ Switches /\ InOrder /\ Scanning /\ Delays /\ ScheduleFits
        => TypeOK
  <2> SUFFICES ASSUME Types, Switches, InOrder, Scanning, Delays, ScheduleFits
               PROVE  TypeOK
    OBVIOUS
  <2>1. work \subseteq Hit
    <3>1. Rules \subseteq Nat
      BY ScriptTypes DEF Types, Rules
    <3>2. work \subseteq [rule : Rules, end : Nat]
      BY DEF Scanning
    <3> QED
      BY <3>1, <3>2 DEF Hit
  <2>2. arrived \in Seq(Item)
    BY DEF Types, Item
  <2> QED
    BY <2>1, <2>2 DEF Types, Switches, InOrder, Scanning, Delays, TypeOK
<1> QED
  BY <1>1, <1>2, <1>3, <1>4, <1>5, <1>6, TypesHold, SwitchesStep, InOrderStep,
     ScanningStep, DelaysStep, ScheduleFitsStep, PTL DEF Spec

-----------------------------------------------------------------------------
(* The matching.                                                            *)

Word(r) == script.rules[r].word
Hits(r) == {h \in work : h.rule = r}
Free(r) == {n \in Nat : ~Spent(r, n)}

\* The window is the end of what has been accepted, and every rule has been
\* served for the places its offset has passed.
Matched ==
  /\ base \in 0 .. Len(Text)
  /\ window = SubSeq(Text, base + 1, Len(Text))
  /\ base > 0 => Len(Text) - base = WindowMax
  /\ \A r \in Rules :
       /\ Len(Word(r)) > 0
       /\ RuleFits(Word(r), Text, fired[r], scanFrom[r], Hits(r), Free(r))
Matching == Looping => Matched

\* Before the loop nothing has been looked at.
Fresh ==
  pc \in Early =>
    /\ seen = 0 /\ window = <<>> /\ base = 0 /\ work = {}
    /\ \A r \in Rules : fired[r] = 0 /\ scanFrom[r] = 0
    /\ pc # "call" => \A r \in Rules : ValidRule(script.rules[r])

\* A piece is letters, whether it counts or not.
LEMMA PieceTypes ==
  ASSUME Types, NEW k \in 1 .. Len(arrived)
  PROVE  /\ arrived[k].data \in Seq(Letters)
         /\ Accepted(arrived[k]) \in Seq(Letters)
<1>1. arrived[k] \in [data : Chunks, at : Nat]
  BY ElementOfSeq DEF Types
<1>2. arrived[k].data \in Chunks
  BY <1>1
<1>3. arrived[k].data \in Seq(Letters) /\ <<>> \in Seq(Letters)
  BY <1>2, ScriptAssumption
<1> QED
  BY <1>3 DEF Accepted

\* All that was accepted is a text.
LEMMA TextType ==
  ASSUME Types, InOrder
  PROVE  Text \in Seq(Letters)
<1>1. \A k \in 1 .. seen : Accepted(arrived[k]) \in Seq(Letters)
  <2>1. \A k \in 1 .. seen : k \in 1 .. Len(arrived)
    BY DEF InOrder
  <2> QED
    BY <2>1, PieceTypes
<1>2. [k \in 1 .. seen |-> Accepted(arrived[k])] \in Seq(Seq(Letters))
  <2>1. seen \in Nat
    BY DEF InOrder, Types
  <2> QED
    BY <1>1, <2>1
<1>3. <<>> \in Seq(Letters)
  OBVIOUS
<1> QED
  BY <1>2, <1>3, FlattenAppend DEF Text

\* The text depends on what was seen only.
LEMMA TextStays ==
  ASSUME UNCHANGED <<script, start, seen>>,
         \A k \in 1 .. seen : arrived'[k] = arrived[k]
  PROVE  Text' = Text
<1>1. ASSUME NEW k \in 1 .. seen
      PROVE  Accepted(arrived[k])' = Accepted(arrived[k])
  BY DEF Accepted, InTime, Deadline
<1>2. [k \in 1 .. seen |-> Accepted(arrived[k])]'
        = [k \in 1 .. seen |-> Accepted(arrived[k])]
  BY <1>1
<1> QED
  BY <1>2 DEF Text

\* A piece that is taken comes behind the text, if it is in time.
LEMMA TextGrows ==
  ASSUME Types, InOrder, TakePiece
  PROVE  /\ seen + 1 \in 1 .. Len(arrived)
         /\ Text' = Text \o Accepted(arrived[seen + 1])
<1> USE DEF envVars, inboxVars, countVars, runVars
<1>1. /\ seen \in Nat /\ seen' = seen + 1 /\ seen + 1 \in 1 .. Len(arrived)
      /\ UNCHANGED <<script, start, arrived>>
  BY DEF InOrder, Types, TakePiece
<1> DEFINE s == [k \in 1 .. seen |-> Accepted(arrived[k])]
           x == Accepted(arrived[seen + 1])
           t == [k \in 1 .. seen + 1 |-> Accepted(arrived[k])]
<1>2. \A k \in 1 .. seen + 1 : Accepted(arrived[k]) \in Seq(Letters)
  <2>1. \A k \in 1 .. seen + 1 : k \in 1 .. Len(arrived)
    BY <1>1
  <2> QED
    BY <2>1, PieceTypes
<1>3. s \in Seq(Seq(Letters)) /\ x \in Seq(Letters)
  <2>1. \A k \in 1 .. seen : k \in 1 .. seen + 1
    BY <1>1
  <2>2. seen + 1 \in 1 .. seen + 1
    BY <1>1
  <2> QED
    BY <1>1, <1>2, <2>1, <2>2
<1>4. t = Append(s, x)
  <2>1. t \in Seq(Seq(Letters)) /\ Len(t) = seen + 1
    BY <1>1, <1>2
  <2>2. Append(s, x) \in Seq(Seq(Letters)) /\ Len(Append(s, x)) = seen + 1
    BY <1>1, <1>3
  <2>3. ASSUME NEW k \in 1 .. seen + 1 PROVE t[k] = Append(s, x)[k]
    <3>1. CASE k = seen + 1
      BY <1>1, <1>3, <3>1
    <3>2. CASE k \in 1 .. seen
      <4>1. Append(s, x)[k] = s[k]
        BY <1>1, <1>3, <3>2
      <4> QED
        BY <3>2, <4>1
    <3> QED
      BY <1>1, <3>1, <3>2
  <2> HIDE DEF t, s, x
  <2> QED
    BY <2>1, <2>2, <2>3, SeqEqual
<1>5. Text' = FlattenSeq(t)
  <2>1. ASSUME NEW k \in 1 .. seen + 1
        PROVE  Accepted(arrived[k])' = Accepted(arrived[k])
    BY <1>1 DEF Accepted, InTime, Deadline
  <2>2. [k \in 1 .. seen |-> Accepted(arrived[k])]' = t
    BY <1>1, <2>1
  <2> HIDE DEF t
  <2> QED
    BY <2>2 DEF Text
<1>6. FlattenSeq(Append(s, x)) = FlattenSeq(s) \o x
  <2> HIDE DEF s, x
  <2> QED
    BY <1>3, FlattenAppend
<1>7. FlattenSeq(s) = Text
  BY DEF Text
<1> HIDE DEF s, t
<1> QED
  BY <1>1, <1>4, <1>5, <1>6, <1>7

\* A rule that may not answer again never may.
LEMMA FreeTypes ==
  ASSUME script \in Scripts, NEW r \in Rules
  PROVE  /\ Word(r) \in Seq(Letters)
         /\ \A k, l \in Nat : k <= l /\ l \in Free(r) => k \in Free(r)
<1>1. Word(r) \in Seq(Letters) /\ script.rules[r].repeat \in BOOLEAN
      /\ script.rules[r].max \in Int
  BY ScriptFields DEF Rules, Word
<1>2. ASSUME NEW k \in Nat, NEW l \in Nat, k <= l, Spent(r, k)
      PROVE  Spent(r, l)
  BY <1>1, <1>2 DEF Spent
<1> QED
  BY <1>1, <1>2 DEF Free

\* What no step but two touches stays as it was.
LEMMA MatchedStays ==
  ASSUME Matched, UNCHANGED <<script, window, base, work, fired, scanFrom>>,
         Text' = Text
  PROVE  Matched'
<1>1. Rules' = Rules
  BY DEF Rules
<1>2. ASSUME NEW r
      PROVE  Word(r)' = Word(r) /\ Hits(r)' = Hits(r) /\ Free(r)' = Free(r)
  BY DEF Word, Hits, Free, Spent
<1> QED
  BY <1>1, <1>2 DEF Matched

\* Until the loop begins nobody looks at a piece.
LEMMA FreshStep == Fresh /\ [Next]_vars => Fresh'
<1> SUFFICES ASSUME Fresh, [Next]_vars, pc' \in Early
             PROVE  /\ seen' = 0 /\ window' = <<>> /\ base' = 0 /\ work' = {}
                    /\ \A r \in Rules' : fired'[r] = 0 /\ scanFrom'[r] = 0
                    /\ pc' # "call" =>
                         \A r \in Rules' : ValidRule(script'.rules[r])
  BY DEF Fresh
<1> USE DEF envVars, inboxVars, scanVars, countVars, runVars
<1>1. script' = script /\ Rules' = Rules
  BY ScriptStays DEF Rules
<1>2. CASE pc \in Early /\ UNCHANGED <<pc, scanVars, fired>>
  BY <1>1, <1>2 DEF Fresh
<1>3. CASE Call
  <2>1. /\ pc = "call"
        /\ pc' # "call" => \A r \in Rules : ValidRule(script.rules[r])
        /\ UNCHANGED <<scanVars, fired>>
    BY <1>3 DEF Call, Goto, Finish, Early
  <2> QED
    BY <1>1, <2>1 DEF Fresh, Early
<1>4. CASE Subscribe \/ CaptureGen
  <2>1. pc \in Early /\ pc # "call" /\ UNCHANGED <<scanVars, fired>>
    BY <1>4 DEF Subscribe, CaptureGen, Early
  <2> QED
    BY <1>1, <2>1 DEF Fresh
<1>5. ~(Expand \/ Top \/ Drain \/ TakePiece \/ Scanned \/ Barrier)
  BY DEF Expand, Top, Drain, TakePiece, Scanned, AfterDeadline, Barrier, Goto,
         Finish, Early
<1>6. ~(TimedDone \/ DelayedDone \/ Wait)
  BY DEF TimedDone, DelayedDone, Wait, Wakes, Goto, Finish, Early
<1>7. ~WriteTimed
  BY DEF WriteTimed, Finish, Early
<1>8. ~Serve
  BY ServeCases DEF Serve, Early
<1>9. ~WriteDelayed
  BY WriteDelayedCases DEF WriteDelayed, Early
<1>10. CASE Tick \/ Cancel \/ LinkChanges \/ Append1 \/ Append2 \/ Append3
            \/ UNCHANGED vars
  BY <1>2, <1>10 DEF Tick, Cancel, LinkChanges, Append1, Append2, Append3, vars
<1> QED
  BY <1>3, <1>4, <1>5, <1>6, <1>7, <1>8, <1>9, <1>10 DEF Next, ScriptStep

\* At the start of the loop nothing has been seen, and nothing served.
LEMMA MatchedBegins ==
  ASSUME Types, Fresh, Expand, Looping'
  PROVE  Matched'
<1> USE DEF envVars, inboxVars, scanVars, countVars, runVars
<1>1. /\ pc = "expand" /\ UNCHANGED <<script, seen, window, base, work>>
      /\ UNCHANGED <<fired, scanFrom>> /\ Rules' = Rules
  BY DEF Expand, Rules
<1>2. /\ seen = 0 /\ window = <<>> /\ base = 0 /\ work = {}
      /\ \A r \in Rules : /\ fired[r] = 0 /\ scanFrom[r] = 0
                          /\ ValidRule(script.rules[r])
  BY <1>1 DEF Fresh, Early
<1>3. Text' = <<>>
  <2>1. [k \in 1 .. seen |-> Accepted(arrived[k])]' = <<>>
    BY <1>1, <1>2
  <2> QED
    BY <2>1 DEF Text, FlattenSeq
<1>4. base' = 0 /\ window' = <<>> /\ Len(<<>>) = 0
      /\ <<>> = SubSeq(<<>>, 0 + 1, Len(<<>>))
  BY <1>1, <1>2
<1>5. ASSUME NEW r \in Rules
      PROVE  /\ Len(Word(r)') > 0
             /\ RuleFits(Word(r)', <<>>, fired'[r], scanFrom'[r], Hits(r)',
                         Free(r)')
  <2>1. Word(r)' = Word(r) /\ Word(r) \in Seq(Letters)
    BY <1>1, FreeTypes DEF Types, Word
  <2>2. Len(Word(r)) > 0
    BY <1>2, <2>1 DEF ValidRule, Word
  <2>3. Hits(r)' = {} /\ fired'[r] = 0 /\ scanFrom'[r] = 0
    BY <1>1, <1>2 DEF Hits
  <2> QED
    BY <2>1, <2>2, <2>3, FitsEmpty
<1> QED
  BY <1>1, <1>3, <1>4, <1>5 DEF Matched

\* A hit is served: the first of its rule.
LEMMA MatchedServe ==
  ASSUME Types, InOrder, Scanning, Matched, Serve, pc' # "done"
  PROVE  Matched'
<1> USE DEF envVars, inboxVars, countVars, runVars
<1> DEFINE q == First.rule
<1>1. /\ fired' = [fired EXCEPT ![q] = @ + 1]
      /\ scanFrom' = [scanFrom EXCEPT ![q] = First.end]
      /\ work # {} /\ work' = work \ {First}
      /\ UNCHANGED <<script, start, seen, arrived, window, base>>
  BY DEF Serve, Count, Finish
<1>2. Rules' = Rules /\ Text' = Text /\ Text \in Seq(Letters)
  BY <1>1, TextStays, TextType DEF Rules
<1>3. First \in work /\ \A g \in work : g.rule = q => First.end <= g.end
  <2>1. Rules \subseteq Nat
    BY ScriptTypes DEF Types, Rules
  <2>2. work \subseteq [rule : Rules, end : Nat]
    BY DEF Scanning
  <2> QED
    BY <1>1, <2>1, <2>2, FirstIsFirst
<1>4. \A g \in work : g \in [rule : Rules, end : Nat]
  BY DEF Scanning
<1>5. ASSUME NEW r \in Rules
      PROVE  /\ Len(Word(r)') > 0
             /\ RuleFits(Word(r)', Text', fired'[r], scanFrom'[r], Hits(r)',
                         Free(r)')
  <2>1. Word(r)' = Word(r) /\ Free(r)' = Free(r) /\ Word(r) \in Seq(Letters)
    BY <1>1, FreeTypes DEF Types, Word, Free, Spent
  <2>2. /\ Len(Word(r)) > 0
        /\ RuleFits(Word(r), Text, fired[r], scanFrom[r], Hits(r), Free(r))
    BY DEF Matched
  <2>3. fired \in [Rules -> Nat] /\ scanFrom \in [Rules -> Nat]
    BY DEF Types, Scanning
  <2>4. CASE r # q
    <3>1. fired'[r] = fired[r] /\ scanFrom'[r] = scanFrom[r]
      BY <1>1, <2>3, <2>4
    <3>2. Hits(r)' = Hits(r)
      BY <1>1, <2>4 DEF Hits
    <3> QED
      BY <1>2, <2>1, <2>2, <3>1, <3>2
  <2>5. CASE r = q
    <3>1. fired'[r] = fired[r] + 1 /\ scanFrom'[r] = First.end
      BY <1>1, <2>3, <2>5
    <3>2. Hits(r)' = Hits(r) \ {First} /\ First \in Hits(r)
      BY <1>1, <1>3, <2>5 DEF Hits
    <3>3. ASSUME NEW g \in Hits(r), g # First PROVE First.end < g.end
      <4>1. g.rule = First.rule /\ g \in work
        BY <2>5 DEF Hits
      <4>2. First.end <= g.end
        BY <1>3, <4>1
      <4>3. /\ g = [rule |-> g.rule, end |-> g.end] /\ g.end \in Nat
            /\ First = [rule |-> First.rule, end |-> First.end]
            /\ First.end \in Nat
        BY <1>3, <1>4, <4>1
      <4>4. g.end # First.end
        BY <3>3, <4>1, <4>3
      <4> QED
        BY <4>2, <4>3, <4>4
    <3>4. fired[r] \in Nat /\ scanFrom[r] \in Nat
      BY <2>3
    <3>5. RuleFits(Word(r), Text, fired[r] + 1, First.end,
                   Hits(r) \ {First}, Free(r))
      BY <1>2, <2>1, <2>2, <3>2, <3>3, <3>4, FitsServed
    <3> QED
      BY <1>2, <2>1, <2>2, <3>1, <3>2, <3>5
  <2> QED
    BY <2>4, <2>5
<1> QED
  BY <1>1, <1>2, <1>5 DEF Matched

\* A piece is taken: its hits are what is new in the window.
LEMMA MatchedPiece ==
  ASSUME Types, InOrder, Scanning, Matched, TakePiece
  PROVE  Matched'
<1> USE DEF envVars, inboxVars, countVars, runVars
<1>1. PICK item : item = arrived[seen + 1]
  OBVIOUS
<1>2. Text \in Seq(Letters) /\ Text' = Text \o Accepted(item)
      /\ item.data \in Seq(Letters)
  BY <1>1, TextType, TextGrows, PieceTypes
<1>3. /\ UNCHANGED <<script, fired, scanFrom>> /\ Rules' = Rules /\ work = {}
  BY DEF TakePiece, Rules
<1>4. CASE ~InTime(item)
  <2>1. UNCHANGED <<work, window, base>>
    BY <1>1, <1>4 DEF TakePiece
  <2>2. Text \o <<>> = Text
    BY <1>2
  <2>3. Text' = Text
    BY <1>2, <1>4, <2>2 DEF Accepted
  <2> QED
    BY <1>3, <2>1, <2>3, MatchedStays
<1>5. CASE InTime(item)
  <2>1. PICK more \in Seq(Letters) : more = item.data
    BY <1>2
  <2>2. PICK win : win = window \o more
    OBVIOUS
  <2>3. PICK e : e = Excess(win)
    OBVIOUS
  <2>4. /\ work' = UNION {NewHits(r, win) : r \in Rules}
        /\ window' = SubSeq(win, e + 1, Len(win)) /\ base' = base + e
    BY <1>1, <1>5, <2>1, <2>2, <2>3 DEF TakePiece
  <2>5. Text' = Text \o more
    BY <1>2, <1>5, <2>1 DEF Accepted
  <2>6. /\ base \in 0 .. Len(Text)
        /\ window = SubSeq(Text, base + 1, Len(Text))
        /\ base > 0 => Len(Text) - base = WindowMax
    BY DEF Matched
  <2>7. /\ win \in Seq(Letters) /\ win = SubSeq(Text', base + 1, Len(Text'))
        /\ base' \in 0 .. Len(Text')
        /\ window' = SubSeq(Text', base' + 1, Len(Text'))
        /\ base' > 0 => Len(Text') - base' = WindowMax
    <3>1. PICK text \in Seq(Letters) : text = Text
      BY <1>2
    <3>2. PICK all : all = text \o more
      OBVIOUS
    <3>3. base \in 0 .. Len(text) /\ (base > 0 => Len(text) - base = WindowMax)
      BY <2>6, <3>1
    <3>4. win = SubSeq(text, base + 1, Len(text)) \o more
      BY <2>2, <2>6, <3>1
    <3>5. /\ win \in Seq(Letters) /\ e \in Nat
          /\ win = SubSeq(all, base + 1, Len(all))
          /\ base + e \in 0 .. Len(all)
          /\ SubSeq(win, e + 1, Len(win)) = SubSeq(all, base + e + 1, Len(all))
          /\ base + e > 0 => Len(all) - (base + e) = WindowMax
      BY <2>3, <3>2, <3>3, <3>4, WindowMoves
    <3>6. Text' = all
      BY <2>5, <3>1, <3>2
    <3> QED
      BY <2>4, <3>5, <3>6
  <2>8. ASSUME NEW r \in Rules
        PROVE  /\ Len(Word(r)') > 0
               /\ RuleFits(Word(r)', Text', fired'[r], scanFrom'[r], Hits(r)',
                           Free(r)')
    <3>1. /\ Word(r)' = Word(r) /\ Free(r)' = Free(r)
          /\ fired'[r] = fired[r] /\ scanFrom'[r] = scanFrom[r]
      BY <1>3 DEF Word, Free, Spent
    <3>2. /\ Word(r) \in Seq(Letters)
          /\ \A k, l \in Nat : k <= l /\ l \in Free(r) => k \in Free(r)
      BY FreeTypes DEF Types
    <3>3. /\ Len(Word(r)) > 0
          /\ RuleFits(Word(r), Text, fired[r], scanFrom[r], {}, Free(r))
      <4>1. Hits(r) = {}
        BY <1>3 DEF Hits
      <4> QED
        BY <4>1 DEF Matched
    <3>4. fired[r] \in Nat /\ scanFrom[r] \in Nat
      BY DEF Types, Scanning
    <3>5. PICK new : new = {i \in FindAll(win, Word(r)) : IsNew(r, i)}
      OBVIOUS
    <3>6. PICK took :
            took = {i \in new :
                      ~Spent(r, fired[r] + Cardinality(Before(new, i)))}
      OBVIOUS
    <3>7. Hits(r)'
            = {[rule |-> r, end |-> base + i - 1 + Len(Word(r))] : i \in took}
      <4>1. ASSUME NEW s \in Rules, NEW h \in NewHits(s, win)
            PROVE  h.rule = s
        <5>1. \E i : h = [rule |-> s, end |-> base + i - 1 + Len(Word(s))]
          BY DEF NewHits, Word
        <5> QED
          BY <5>1
      <4>2. Hits(r)' = NewHits(r, win)
        BY <2>4, <4>1 DEF Hits
      <4>3. NewHits(r, win)
              = {[rule |-> r, end |-> base + i - 1 + Len(Word(r))] :
                   i \in took}
        BY <3>5, <3>6 DEF NewHits, Word, Before
      <4> QED
        BY <4>2, <4>3
    <3>8. \A i \in FindAll(win, Word(r)) :
            i \in new <=> base + i - 1 >= scanFrom[r]
      BY <3>5 DEF IsNew
    <3>9. ASSUME NEW i \in new
          PROVE  i \in took
                   <=> fired[r] + Cardinality(Before(new, i)) \in Free(r)
      <4>1. Cardinality(Before(new, i)) \in Nat
        <5>1. Before(new, i) \in SUBSET Standing(Word(r), win)
          BY <2>7, <3>2, <3>5, FindAllHits DEF Before
        <5> QED
          BY <2>7, <3>2, <5>1, StandingFinite
      <4>2. fired[r] + Cardinality(Before(new, i)) \in Nat
        BY <3>4, <4>1
      <4> QED
        BY <3>6, <4>2 DEF Free
    <3>10. new \subseteq FindAll(win, Word(r)) /\ took \subseteq new
      BY <3>5, <3>6
    <3>11. PICK hits : hits = Hits(r)'
      OBVIOUS
    <3>12. /\ \A h \in hits : \E i \in took :
                h = [rule |-> r, end |-> base + i - 1 + Len(Word(r))]
           /\ \A i \in took :
                [rule |-> r, end |-> base + i - 1 + Len(Word(r))] \in hits
      BY <3>7, <3>11
    <3>13. win = SubSeq(Text \o more, base + 1, Len(Text \o more))
      BY <2>5, <2>7
    <3>14. RuleFits(Word(r), Text \o more, fired[r], scanFrom[r], hits,
                    Free(r))
      BY <1>2, <2>6, <3>2, <3>3, <3>4, <3>8, <3>9, <3>10, <3>12, <3>13, FitsNew
    <3> QED
      BY <2>5, <3>1, <3>3, <3>11, <3>14
  <2> QED
    BY <1>3, <2>7, <2>8 DEF Matched
<1> QED
  BY <1>4, <1>5

\* Pieces and hits move the matching on, nothing else does.
LEMMA MatchingStep ==
  Types /\ InOrder /\ Scanning /\ Fresh /\ Matching /\ [Next]_vars => Matching'
<1> SUFFICES ASSUME Types, InOrder, Scanning, Fresh, Matching, [Next]_vars,
                    Looping'
             PROVE  Matched'
  BY DEF Matching
<1> USE DEF envVars, inboxVars, scanVars, countVars, runVars
<1>1. CASE ~Looping
  BY <1>1, LoopBegins, MatchedBegins
<1>2. CASE Looping
  <2>1. Matched /\ pc' # "done"
    BY <1>2 DEF Matching, Looping
  <2>2. ~(Call \/ Subscribe \/ CaptureGen \/ Expand)
    BY <1>2 DEF Call, Subscribe, CaptureGen, Expand, Looping
  <2>3. CASE /\ UNCHANGED <<script, start, seen, window, base, work>>
             /\ UNCHANGED <<fired, scanFrom, arrived>>
    BY <2>1, <2>3, TextStays, MatchedStays
  <2>4. CASE Append2
    <3>1. /\ UNCHANGED <<script, start, seen, window, base, work>>
          /\ UNCHANGED <<fired, scanFrom>>
          /\ arrived' = Append(arrived, adding.item)
      BY <2>4 DEF Append2
    <3>2. \A k \in 1 .. seen : arrived'[k] = arrived[k]
      <4>1. \A k \in 1 .. seen : k \in 1 .. Len(arrived)
        BY DEF InOrder
      <4> QED
        BY <3>1, <4>1 DEF Types
    <3> QED
      BY <2>1, <3>1, <3>2, TextStays, MatchedStays
  <2>5. CASE TakePiece
    BY <2>1, <2>5, MatchedPiece
  <2>6. CASE Serve
    BY <2>1, <2>6, MatchedServe
  <2>7. CASE Tick \/ Cancel \/ LinkChanges \/ Append1 \/ Append3
    BY <2>3, <2>7 DEF Tick, Cancel, LinkChanges, Append1, Append3
  <2>8. CASE Top \/ Drain \/ Scanned \/ Barrier \/ Wait \/ UNCHANGED vars
    BY <2>3, <2>8 DEF Top, Drain, Scanned, Barrier, Wait, vars
  <2>9. CASE WriteTimed \/ TimedDone \/ WriteDelayed \/ DelayedDone
    BY <2>3, <2>9 DEF WriteTimed, TimedDone, WriteDelayed, DelayedDone
  <2> QED
    BY <2>2, <2>4, <2>5, <2>6, <2>7, <2>8, <2>9 DEF Next, ScriptStep
<1> QED
  BY <1>1, <1>2

\* What a rule may answer is what it has answered, once nothing is left.
LEMMA CountsAgree ==
  ASSUME NEW r \in Rules, script \in Scripts, NEW c \in Nat, NEW n \in Nat,
         c <= n, c = 0 \/ ~Spent(r, c - 1)
  PROVE  /\ c <= Allowed(r, n)
         /\ Spent(r, c) \/ c = n => c = Allowed(r, n)
<1>1. PICK rep \in BOOLEAN, max \in Int :
        rep = script.rules[r].repeat /\ max = script.rules[r].max
  BY ScriptFields DEF Rules
<1>2. Allowed(r, n) = IF n = 0 THEN 0 ELSE IF ~rep THEN 1
                      ELSE IF max > 0 /\ n > max THEN max ELSE n
  BY <1>1 DEF Allowed
<1>3. c = 0 \/ ~(c - 1 > 0 /\ (~rep \/ (max > 0 /\ c - 1 >= max)))
  BY <1>1 DEF Spent
<1>4. Spent(r, c) <=> c > 0 /\ (~rep \/ (max > 0 /\ c >= max))
  BY <1>1 DEF Spent
<1> QED
  BY <1>2, <1>3, <1>4

\* With no hit left to serve, the counts are what the text calls for.
LEMMA HitsAreExact ==
  ASSUME Types, Scanning, InOrder, Matching
  PROVE  HitsExact
<1> SUFFICES ASSUME Looping, work = {}, NEW r \in Rules
             PROVE  /\ fired[r] <= Expected(r)
                    /\ Simple(Word(r)) => fired[r] = Expected(r)
  BY DEF HitsExact, Word
<1>1. Hits(r) = {}
  BY DEF Hits
<1>2. RuleFits(Word(r), Text, fired[r], scanFrom[r], {}, Free(r))
  BY <1>1 DEF Matching, Matched
<1>3. /\ Word(r) \in Seq(Letters) /\ Text \in Seq(Letters)
      /\ fired[r] \in Nat /\ scanFrom[r] \in Nat /\ script \in Scripts
  BY FreeTypes, TextType DEF Types, Scanning
<1>4. PICK n : n = Cardinality(Places(r))
  OBVIOUS
<1>5. /\ n \in Nat /\ fired[r] <= n
      /\ fired[r] = 0 \/ fired[r] - 1 \in Free(r)
      /\ Simple(Word(r)) => fired[r] \notin Free(r) \/ fired[r] = n
  BY <1>2, <1>3, <1>4, FitsExactly DEF Places, Word
<1>6. fired[r] = 0 \/ ~Spent(r, fired[r] - 1)
  BY <1>5 DEF Free
<1>7. Simple(Word(r)) => Spent(r, fired[r]) \/ fired[r] = n
  BY <1>3, <1>5 DEF Free
<1>8. /\ fired[r] <= Allowed(r, n)
      /\ Spent(r, fired[r]) \/ fired[r] = n => fired[r] = Allowed(r, n)
  BY <1>3, <1>5, <1>6, CountsAgree
<1>9. Expected(r) = Allowed(r, n)
  BY <1>4 DEF Expected
<1> QED
  BY <1>7, <1>8, <1>9

\* Between two pieces every rule has answered exactly as often as its word
\* stands in what was accepted and as its limit allows (at most so often, if
\* the word overlaps itself or is longer than the window), whatever the pieces
\* are, how they are cut and what the window has lost; a time-out has looked at
\* everything that came in time (process and its window, serial_script.go:340).
THEOREM EveryHitOnce == Spec => []HitsRight
<1>2. Init => InOrder
  BY LimitsAssumption DEF Init, InOrder
<1>3. Init => Scanning
  BY LimitsAssumption DEF Init, Scanning
<1>4. Init => Fresh
  BY DEF Init, Fresh
<1>5. Init => Matching
  BY DEF Init, Matching, Looping
<1>6. Types /\ InOrder /\ Scanning /\ Matching /\ NothingMissed => HitsRight
  BY HitsAreExact DEF HitsRight
<1> QED
  BY <1>2, <1>3, <1>4, <1>5, <1>6, TypesHold, InOrderStep, ScanningStep,
     FreshStep, MatchingStep, BarrierIsEnough, PTL DEF Spec

=============================================================================
