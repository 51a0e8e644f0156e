---------------------------- MODULE DhcpConfProofs ----------------------------
(***************************************************************************)
(* What the operators of DhcpConf do to every file, of any length.         *)
(***************************************************************************)
EXTENDS DhcpConf, FiniteSetTheorems, WellFoundedInduction, TLAPS

(***************************************************************************)
(* Induction over the naturals, for a set of naturals rather than for an   *)
(* operator: from the least element of a set, which exists because finite  *)
(* intervals are well-founded under strict inclusion.                      *)
(***************************************************************************)
\* Every set of naturals that is not empty has a least element.
LEMMA LeastNat ==
    ASSUME NEW T, T \subseteq Nat, T # {}
    PROVE  \E x \in T : \A y \in T : x <= y
<1> DEFINE F == { 0..(m - 1) : m \in T }
           R == StrictSubsetOrdering(Nat)
<1>1. IsWellFoundedOn(R, FiniteSubsetsOf(Nat))
  BY FS_StrictSubsetOrderingWellFounded
<1>2. F \subseteq FiniteSubsetsOf(Nat)
  <2> SUFFICES ASSUME NEW m \in T PROVE 0..(m - 1) \in FiniteSubsetsOf(Nat)
    OBVIOUS
  <2> QED BY FS_Interval DEF FiniteSubsetsOf
<1>3. F # {}
  OBVIOUS
<1>4. \E x \in F : \A y \in F : << y, x >> \notin R
  <2> HIDE DEF F, R
  <2> QED BY <1>1, <1>2, <1>3, WFMin
<1>5. PICK m \in T : \A y \in F : << y, 0..(m - 1) >> \notin R
  BY <1>4
<1>6. ASSUME NEW k \in T, k < m PROVE FALSE
  <2>1. 0..(k - 1) \in SUBSET Nat /\ 0..(m - 1) \in SUBSET Nat
    OBVIOUS
  <2>2. 0..(k - 1) \subseteq 0..(m - 1) /\ k \in 0..(m - 1) /\ k \notin 0..(k - 1)
    BY <1>6
  <2>3. << 0..(k - 1), 0..(m - 1) >> \in R
    BY <2>1, <2>2 DEF StrictSubsetOrdering
  <2> QED BY <1>5, <2>3
<1> QED BY <1>6

\* A set with 0 that is closed under successor has every natural.
LEMMA InductionOverNat ==
    ASSUME NEW P, 0 \in P, \A n \in Nat : n \in P => n + 1 \in P
    PROVE  Nat \subseteq P
<1> SUFFICES ASSUME Nat \ P # {} PROVE FALSE
  OBVIOUS
<1>1. PICK x \in Nat \ P : \A y \in Nat \ P : x <= y
  BY LeastNat
<1>2. x - 1 \in Nat /\ x - 1 \in P
  BY <1>1
<1>3. (x - 1) + 1 \in P
  BY <1>2
<1> QED BY <1>3

\* The same from 1 up to n.
LEMMA InductionUpTo ==
    ASSUME NEW n \in Nat \ {0}, NEW P, 1 \in P, \A k \in 1..(n - 1) : k \in P => k + 1 \in P
    PROVE  n \in P
<1> DEFINE Q == {k \in Nat : k + 1 <= n => k + 1 \in P}
<1>1. 0 \in Q
  OBVIOUS
<1>2. ASSUME NEW k \in Nat, k \in Q PROVE k + 1 \in Q
  <2>1. k + 2 <= n => k + 1 \in 1..(n - 1) /\ k + 1 <= n /\ (k + 1) + 1 = k + 2
    OBVIOUS
  <2> QED BY <1>2, <2>1
<1>3. n - 1 \in Q
  <2>1. Nat \subseteq Q
    <3> HIDE DEF Q
    <3> QED BY <1>1, <1>2, InductionOverNat
  <2> HIDE DEF Q
  <2> QED BY <2>1
<1>4. (n - 1) + 1 = n
  OBVIOUS
<1> QED BY <1>3, <1>4

-----------------------------------------------------------------------------

\* g holds the partial concatenations of s.
Flattens(g, s, n, S) ==
    /\ g \in [1..n -> Seq(S)]
    /\ \A i \in 1..n : g[i] = IF i = 1 THEN s[i] ELSE g[i - 1] \o s[i]

\* The function FlattenSeq's recursion defines exists, with values in Seq(S).
LEMMA FlattenRecursion ==
    ASSUME NEW S, NEW n \in Nat \ {0}, NEW s \in [1..n -> Seq(S)]
    PROVE  \E g : Flattens(g, s, n, S)
<1> USE DEF Flattens
<1> DEFINE Ok(k) == \E g : Flattens(g, s, k, S)
           P == {k \in Nat : k + 1 <= n => Ok(k + 1)}
<1>1. Ok(1)
  <2> DEFINE g == [i \in 1..1 |-> s[1]]
  <2>1. g \in [1..1 -> Seq(S)]
    OBVIOUS
  <2>2. \A i \in 1..1 : g[i] = IF i = 1 THEN s[i] ELSE g[i - 1] \o s[i]
    OBVIOUS
  <2> HIDE DEF g
  <2> QED BY <2>1, <2>2
<1>2. ASSUME NEW k \in Nat, k + 2 <= n, Ok(k + 1) PROVE Ok(k + 2)
  <2>1. PICK g : Flattens(g, s, k + 1, S)
    BY <1>2
  <2> DEFINE h == [i \in 1..(k + 2) |-> IF i = k + 2 THEN g[k + 1] \o s[k + 2] ELSE g[i]]
  <2>2. g[k + 1] \in Seq(S) /\ s[k + 2] \in Seq(S)
    BY <1>2, <2>1
  <2>3. g[k + 1] \o s[k + 2] \in Seq(S)
    BY <2>2
  <2>4. h \in [1..(k + 2) -> Seq(S)]
    <3> SUFFICES ASSUME NEW i \in 1..(k + 2)
                 PROVE (IF i = k + 2 THEN g[k + 1] \o s[k + 2] ELSE g[i]) \in Seq(S)
      OBVIOUS
    <3>1. i # k + 2 => i \in 1..(k + 1)
      OBVIOUS
    <3> QED BY <2>1, <2>3, <3>1
  <2>5. ASSUME NEW i \in 1..(k + 2)
        PROVE  h[i] = IF i = 1 THEN s[i] ELSE h[i - 1] \o s[i]
    <3>1. CASE i = k + 2
      <4>1. h[i] = g[k + 1] \o s[k + 2]
        BY <3>1
      <4>2. i # 1 /\ i - 1 = k + 1 /\ h[k + 1] = g[k + 1]
        BY <3>1
      <4> HIDE DEF h
      <4> QED BY <3>1, <4>1, <4>2
    <3>2. CASE i # k + 2
      <4>1. i \in 1..(k + 1) /\ h[i] = g[i]
        BY <3>2
      <4>2. i # 1 => i - 1 \in 1..(k + 2) /\ h[i - 1] = g[i - 1]
        BY <3>2
      <4> HIDE DEF h
      <4> QED BY <2>1, <4>1, <4>2
    <3> QED BY <3>1, <3>2
  <2> HIDE DEF h
  <2> QED BY <2>4, <2>5
<1>3. 0 \in P
  <2> HIDE DEF Ok
  <2> QED BY <1>1
<1>4. ASSUME NEW k \in Nat, k \in P PROVE k + 1 \in P
  <2>1. (k + 1) + 1 = k + 2
    OBVIOUS
  <2> HIDE DEF Ok
  <2> QED BY <1>2, <1>4, <2>1
<1>5. n - 1 \in P
  <2>1. Nat \subseteq P
    <3> HIDE DEF P
    <3> QED BY <1>3, <1>4, InductionOverNat
  <2> HIDE DEF P
  <2> QED BY <2>1
<1>6. (n - 1) + 1 = n
  OBVIOUS
<1>7. Ok(n)
  <2> HIDE DEF Ok
  <2> QED BY <1>5, <1>6
<1> QED BY <1>7

\* FlattenSeq of sequences over S is the last of their partial concatenations.
LEMMA FlattenSeqRecursion ==
    ASSUME NEW S, NEW seqs \in Seq(Seq(S)), seqs # << >>
    PROVE  \E g : Flattens(g, seqs, Len(seqs), S) /\ FlattenSeq(seqs) = g[Len(seqs)]
<1> DEFINE n == Len(seqs)
           fl == CHOOSE g : g = [i \in 1..n |-> IF i = 1 THEN seqs[i] ELSE g[i - 1] \o seqs[i]]
<1>1. n \in Nat \ {0} /\ seqs \in [1..n -> Seq(S)]
  OBVIOUS
<1>2. PICK g : Flattens(g, seqs, n, S)
  <2> HIDE DEF n, fl
  <2> QED BY <1>1, FlattenRecursion
<1>3. g = [i \in 1..n |-> IF i = 1 THEN seqs[i] ELSE g[i - 1] \o seqs[i]]
  BY <1>2 DEF Flattens
<1>4. fl = [i \in 1..n |-> IF i = 1 THEN seqs[i] ELSE fl[i - 1] \o seqs[i]]
  BY <1>3
<1>5. \A i \in 1..n : fl[i] = IF i = 1 THEN seqs[i] ELSE fl[i - 1] \o seqs[i]
  <2> HIDE DEF fl
  <2> QED BY <1>4
<1>6. \A k \in 1..n : fl[k] \in Seq(S)
  <2> HIDE DEF fl, n
  <2> SUFFICES ASSUME NEW k \in 1..n PROVE fl[k] \in Seq(S)
    OBVIOUS
  <2> DEFINE P == {i \in 1..k : fl[i] \in Seq(S)}
  <2>1. 1 \in P
    BY <1>1, <1>5
  <2>2. ASSUME NEW i \in 1..(k - 1), i \in P PROVE i + 1 \in P
    <3>1. i + 1 \in 1..n /\ i + 1 \in 1..k /\ i + 1 # 1 /\ (i + 1) - 1 = i
      BY <1>1
    <3>2. fl[i + 1] = fl[i] \o seqs[i + 1] /\ seqs[i + 1] \in Seq(S) /\ fl[i] \in Seq(S)
      BY <1>1, <1>5, <2>2, <3>1
    <3>3. fl[i + 1] \in Seq(S)
      BY <3>2
    <3> QED BY <3>1, <3>3
  <2>3. k \in Nat \ {0}
    BY <1>1
  <2>4. k \in P
    <3> HIDE DEF P
    <3> QED BY <2>1, <2>2, <2>3, InductionUpTo
  <2> QED BY <2>4
<1>7. Flattens(fl, seqs, n, S)
  <2> HIDE DEF fl, n
  <2>1. fl \in [1..n -> Seq(S)]
    BY <1>4, <1>6
  <2> QED BY <1>5, <2>1 DEF Flattens
<1>8. FlattenSeq(seqs) = fl[n]
  BY <1>1 DEF FlattenSeq
<1> HIDE DEF fl
<1> QED BY <1>7, <1>8

\* FlattenSeq of a sequence of sequences over S is a sequence over S.
LEMMA FlattenSeqType ==
    ASSUME NEW S, NEW seqs \in Seq(Seq(S))
    PROVE  FlattenSeq(seqs) \in Seq(S)
<1>1. CASE seqs = << >>
  <2>1. FlattenSeq(seqs) = seqs
    BY <1>1 DEF FlattenSeq
  <2>2. << >> \in Seq(S)
    OBVIOUS
  <2> QED BY <1>1, <2>1, <2>2, Zenon
<1>2. CASE seqs # << >>
  <2>1. PICK g : Flattens(g, seqs, Len(seqs), S) /\ FlattenSeq(seqs) = g[Len(seqs)]
    BY <1>2, FlattenSeqRecursion
  <2>2. Len(seqs) \in 1..Len(seqs)
    BY <1>2
  <2> QED BY <2>1, <2>2 DEF Flattens
<1> QED BY <1>1, <1>2

\* t consists of m pairs of elements, which are those of the first k sequences of
\* seqs that are not empty.
PairsOf(t, m, seqs, k) ==
    /\ Len(t) = 2 * m
    /\ \A j \in 1..m : \E i \in 1..k : seqs[i] = << t[2 * j - 1], t[2 * j] >>
    /\ \A i \in 1..k : seqs[i] # << >>
                       => \E j \in 1..m : seqs[i] = << t[2 * j - 1], t[2 * j] >>

\* One sequence more: nothing or a pair is appended.
LEMMA PairsAppend ==
    ASSUME NEW S, NEW t \in Seq(S), NEW m \in Nat, NEW k \in Nat, NEW seqs,
           PairsOf(t, m, seqs, k), NEW s \in Seq(S), s = seqs[k + 1],
           s = << >> \/ Len(s) = 2
    PROVE  \E n \in Nat : PairsOf(t \o s, n, seqs, k + 1)
<1>1. CASE s = << >>
  <2>1. t \o s = t
    BY <1>1
  <2>2. \A i \in 1..(k + 1) : i \in 1..k \/ seqs[i] = << >>
    <3>1. \A i \in 1..(k + 1) : i \in 1..k \/ i = k + 1
      OBVIOUS
    <3> QED BY <1>1, <3>1
  <2>3. 1..k \subseteq 1..(k + 1)
    OBVIOUS
  <2>4. PairsOf(t, m, seqs, k + 1)
    <3>1. \A j \in 1..m : \E i \in 1..(k + 1) : seqs[i] = << t[2 * j - 1], t[2 * j] >>
      BY <2>3 DEF PairsOf
    <3> QED BY <2>2, <3>1 DEF PairsOf
  <2> QED BY <2>1, <2>4
<1>2. CASE Len(s) = 2
  <2> DEFINE u == t \o s
  <2>0. Len(t) = 2 * m
    BY DEF PairsOf
  <2>1. u \in Seq(S) /\ Len(u) = 2 * (m + 1)
    <3>1. u \in Seq(S) /\ Len(u) = Len(t) + Len(s)
      OBVIOUS
    <3> QED BY <1>2, <2>0, <3>1
  <2>2. \A j \in 1..m : u[2 * j - 1] = t[2 * j - 1] /\ u[2 * j] = t[2 * j]
    BY DEF PairsOf
  <2>3. u[2 * (m + 1) - 1] = s[1] /\ u[2 * (m + 1)] = s[2]
    BY <1>2 DEF PairsOf
  <2>4. s = << s[1], s[2] >>
    BY <1>2
  <2> HIDE DEF u
  <2>5. seqs[k + 1] = << u[2 * (m + 1) - 1], u[2 * (m + 1)] >>
    BY <2>3, <2>4
  <2>6. ASSUME NEW j \in 1..(m + 1)
        PROVE  \E i \in 1..(k + 1) : seqs[i] = << u[2 * j - 1], u[2 * j] >>
    <3>1. CASE j \in 1..m
      <4>1. PICK i \in 1..k : seqs[i] = << t[2 * j - 1], t[2 * j] >>
        BY <3>1 DEF PairsOf
      <4>2. seqs[i] = << u[2 * j - 1], u[2 * j] >>
        BY <2>2, <3>1, <4>1
      <4> QED BY <4>2
    <3>2. CASE j = m + 1
      <4>1. k + 1 \in 1..(k + 1)
        OBVIOUS
      <4> QED BY <2>5, <3>2, <4>1
    <3> QED BY <3>1, <3>2
  <2>7. ASSUME NEW i \in 1..(k + 1), seqs[i] # << >>
        PROVE  \E j \in 1..(m + 1) : seqs[i] = << u[2 * j - 1], u[2 * j] >>
    <3>1. CASE i \in 1..k
      <4>1. PICK j \in 1..m : seqs[i] = << t[2 * j - 1], t[2 * j] >>
        BY <2>7, <3>1 DEF PairsOf
      <4>2. seqs[i] = << u[2 * j - 1], u[2 * j] >> /\ j \in 1..(m + 1)
        BY <2>2, <4>1
      <4> QED BY <4>2
    <3>2. CASE i = k + 1
      <4>1. m + 1 \in 1..(m + 1)
        OBVIOUS
      <4> QED BY <2>5, <3>2, <4>1
    <3> QED BY <3>1, <3>2
  <2>8. PairsOf(u, m + 1, seqs, k + 1)
    BY <2>1, <2>6, <2>7 DEF PairsOf
  <2> QED BY <2>8 DEF u
<1> QED BY <1>1, <1>2

\* FlattenSeq of sequences of no or two elements consists of those pairs.
LEMMA FlattenPairs ==
    ASSUME NEW S, NEW seqs \in Seq(Seq(S)),
           \A i \in 1..Len(seqs) : seqs[i] = << >> \/ Len(seqs[i]) = 2
    PROVE  \E m \in Nat : PairsOf(FlattenSeq(seqs), m, seqs, Len(seqs))
<1>1. CASE seqs = << >>
  <2>1. FlattenSeq(seqs) = << >> /\ Len(seqs) = 0
    BY <1>1 DEF FlattenSeq
  <2>2. PairsOf(<< >>, 0, seqs, 0)
    BY DEF PairsOf
  <2> QED BY <2>1, <2>2
<1>2. CASE seqs # << >>
  <2> DEFINE n == Len(seqs)
  <2>1. PICK g : Flattens(g, seqs, n, S) /\ FlattenSeq(seqs) = g[n]
    BY <1>2, FlattenSeqRecursion
  <2>2. n \in Nat \ {0} /\ seqs \in [1..n -> Seq(S)] /\ g \in [1..n -> Seq(S)]
    BY <1>2, <2>1 DEF Flattens
  <2> HIDE DEF n
  <2> DEFINE P == {k \in 1..n : \E m \in Nat : PairsOf(g[k], m, seqs, k)}
  <2>3. 1 \in P
    <3>1. g[1] = seqs[1] /\ seqs[1] \in Seq(S) /\ << >> \in Seq(S) /\ << >> \o seqs[1] = seqs[1]
      BY <2>1, <2>2 DEF Flattens
    <3>2. PairsOf(<< >>, 0, seqs, 0)
      BY DEF PairsOf
    <3>3. seqs[1] = << >> \/ Len(seqs[1]) = 2
      BY <2>2 DEF n
    <3>4. \E m \in Nat : PairsOf(<< >> \o seqs[1], m, seqs, 0 + 1)
      <4>1. seqs[0 + 1] = seqs[1] /\ 0 \in Nat
        OBVIOUS
      <4> QED BY <3>1, <3>2, <3>3, <4>1, PairsAppend
    <3>5. 0 + 1 = 1
      OBVIOUS
    <3> QED BY <2>2, <3>1, <3>4, <3>5
  <2>4. ASSUME NEW k \in 1..(n - 1), k \in P PROVE k + 1 \in P
    <3>1. k \in 1..n /\ k + 1 \in 1..n /\ k + 1 # 1 /\ (k + 1) - 1 = k /\ k \in Nat
      BY <2>2
    <3>2. g[k + 1] = g[k] \o seqs[k + 1] /\ g[k] \in Seq(S) /\ seqs[k + 1] \in Seq(S)
      BY <2>1, <2>2, <3>1 DEF Flattens
    <3>3. seqs[k + 1] = << >> \/ Len(seqs[k + 1]) = 2
      BY <3>1 DEF n
    <3>4. PICK m \in Nat : PairsOf(g[k], m, seqs, k)
      BY <2>4
    <3>5. \E l \in Nat : PairsOf(g[k] \o seqs[k + 1], l, seqs, k + 1)
      BY <3>1, <3>2, <3>3, <3>4, PairsAppend
    <3> QED BY <3>1, <3>2, <3>5
  <2>5. n \in P
    <3> HIDE DEF P
    <3> QED BY <2>2, <2>3, <2>4, InductionUpTo
  <2> QED BY <2>1, <2>5 DEF n
<1> QED BY <1>1, <1>2

-----------------------------------------------------------------------------

\* An interface configuration whose values are strings.
IfaceConfig ==
    [bIsDhcpEnabled : BOOLEAN, cGatewayName : STRING, pool : STRING, cSubnetMask : STRING,
     iDhcpTagNum : STRING, cInputStr : STRING, cDhcpNameServerIp : STRING]

\* Short sequences over a set.
LEMMA OneElement == ASSUME NEW S, NEW v \in S PROVE << v >> \in Seq(S)
OBVIOUS

\* A file of three lines.
LEMMA ThreeElements ==
    ASSUME NEW S, NEW u \in S, NEW v \in S, NEW w \in S PROVE << u, v, w >> \in Seq(S)
OBVIOUS

\* The empty file.
LEMMA NoElements == ASSUME NEW S PROVE << >> \in Seq(S)
OBVIOUS

\* A function on 1..n, as dns_only is defined by, is a file of n lines.
LEMMA FunctionIsSeq == ASSUME NEW S, NEW n \in Nat, NEW g \in [1..n -> S] PROVE g \in Seq(S)
OBVIOUS

\* Sequences of the same length with the same elements are equal.
LEMMA SameElements ==
    ASSUME NEW S, NEW s \in Seq(S), NEW t \in Seq(S), Len(s) = Len(t),
           \A i \in 1..Len(s) : s[i] = t[i]
    PROVE  s = t
OBVIOUS

\* Two sequences of one element make one of two.
LEMMA TwoElements ==
    ASSUME NEW S, NEW a \in S, NEW b \in S
    PROVE  << a >> \o << b >> = << a, b >> /\ << a, b >> \in Seq(S)
<1> DEFINE s == << a >> \o << b >>
           t == << a, b >>
<1>1. s \in Seq(S) /\ Len(s) = 2 /\ s[1] = a /\ s[2] = b
  OBVIOUS
<1>2. t \in Seq(S) /\ Len(t) = 2 /\ t[1] = a /\ t[2] = b
  OBVIOUS
<1> HIDE DEF s, t
<1>3. \A i \in 1..2 : s[i] = t[i]
  BY <1>1, <1>2
<1>4. s = t
  BY <1>1, <1>2, <1>3, SameElements
<1> QED BY <1>2, <1>4 DEF s, t

\* A file of one line.
LEMMA OneLine ==
    ASSUME NEW key \in Keywords, NEW arg \in Seq(STRING)
    PROVE  << ConfLine(key, arg) >> \in Seq(Line)
<1>1. ConfLine(key, arg) \in Line
  BY DEF ConfLine, Line
<1> QED BY <1>1, OneElement

\* No line for an empty string, one for any other.
LEMMA LinesType ==
    ASSUME NEW v \in STRING, NEW key \in Keywords
    PROVE  IfNonEmpty(v, key) \in Seq(Line)
<1>1. << v >> \in Seq(STRING)
  BY OneElement
<1>2. << ConfLine(key, << v >>) >> \in Seq(Line)
  BY <1>1, OneLine
<1>3. << >> \in Seq(Line)
  BY NoElements
<1> QED BY <1>2, <1>3 DEF IfNonEmpty

\* The lines of one interface.
LEMMA InterfaceLinesType ==
    ASSUME NEW c \in IfaceConfig
    PROVE  InterfaceLines(c) \in Seq(Line)
<1> DEFINE dns == << ConfLine("no-dhcp-interface", << c.cGatewayName >>) >>
           range == << ConfLine("dhcp-range", << c.iDhcpTagNum, c.pool, c.cSubnetMask >>) >>
           A == IF c.cInputStr = "dns_only" THEN dns ELSE << >>
           B == IF c.bIsDhcpEnabled THEN IfNonEmpty(c.cGatewayName, "interface") \o range
                                    ELSE << >>
           C == IfNonEmpty(c.cDhcpNameServerIp, "name-server")
<1>1. /\ c.cGatewayName \in STRING /\ c.pool \in STRING /\ c.cSubnetMask \in STRING
      /\ c.iDhcpTagNum \in STRING /\ c.cDhcpNameServerIp \in STRING
  BY DEF IfaceConfig
<1>2. /\ << c.cGatewayName >> \in Seq(STRING)
      /\ << c.iDhcpTagNum, c.pool, c.cSubnetMask >> \in Seq(STRING)
  BY <1>1, OneElement, ThreeElements
<1>3. dns \in Seq(Line) /\ range \in Seq(Line)
  <2>1. "no-dhcp-interface" \in Keywords /\ "dhcp-range" \in Keywords
    BY DEF Keywords
  <2> QED BY <1>2, <2>1, OneLine
<1>4. IfNonEmpty(c.cGatewayName, "interface") \in Seq(Line) /\ C \in Seq(Line)
  <2>1. "interface" \in Keywords /\ "name-server" \in Keywords
    BY DEF Keywords
  <2> QED BY <1>1, <2>1, LinesType
<1> HIDE DEF dns, range, C
<1>5. A \in Seq(Line) /\ B \in Seq(Line)
  <2>1. << >> \in Seq(Line)
    OBVIOUS
  <2> QED BY <1>3, <1>4, <2>1
<1>6. A \o B \o C \in Seq(Line)
  <2> HIDE DEF A, B
  <2> QED BY <1>4, <1>5
<1> QED BY <1>6 DEF InterfaceLines, dns, range, C

(***************************************************************************)
(* What dhcpServerInit writes for interfaces as Add_inf_to_dhcp_config     *)
(* fills them: a header, and two lines for each enabled interface.         *)
(***************************************************************************)
PlainConfig(c) ==
    /\ c \in IfaceConfig
    /\ c.cInputStr = "" /\ c.cDhcpNameServerIp = ""
    /\ c.bIsDhcpEnabled => c.cGatewayName # ""

IfaceLine(c) == ConfLine("interface", << c.cGatewayName >>)
RangeLine(c) == ConfLine("dhcp-range", << c.iDhcpTagNum, c.pool, c.cSubnetMask >>)

\* f is the file for ifs, with m enabled interfaces.
Laid(f, m, ifs) ==
    /\ f \in Seq(Line) /\ Len(f) = 2 * m + 2
    /\ f[1].key = "builtin" /\ f[2].key = "no-resolv"
    /\ \A j \in 1..m : \E i \in 1..Len(ifs) :
         ifs[i].bIsDhcpEnabled /\ f[2 * j + 1] = IfaceLine(ifs[i])
                               /\ f[2 * j + 2] = RangeLine(ifs[i])
    /\ \A i \in 1..Len(ifs) : ifs[i].bIsDhcpEnabled =>
         \E j \in 1..m : f[2 * j + 1] = IfaceLine(ifs[i]) /\ f[2 * j + 2] = RangeLine(ifs[i])

\* The lines of one interface are a pair, or none.
LEMMA InterfaceLinesPair ==
    ASSUME NEW c, PlainConfig(c)
    PROVE  InterfaceLines(c) = IF c.bIsDhcpEnabled THEN << IfaceLine(c), RangeLine(c) >> ELSE << >>
<1>1. c.cInputStr # "dns_only" /\ IfNonEmpty(c.cDhcpNameServerIp, "name-server") = << >>
  BY DEF PlainConfig, IfNonEmpty
<1>2. c.bIsDhcpEnabled => IfNonEmpty(c.cGatewayName, "interface") = << IfaceLine(c) >>
  BY DEF PlainConfig, IfNonEmpty, IfaceLine
<1>3. InterfaceLines(c) = << >> \o (IF c.bIsDhcpEnabled THEN << IfaceLine(c) >> \o << RangeLine(c) >>
                                                       ELSE << >>) \o << >>
  BY <1>1, <1>2 DEF InterfaceLines, RangeLine
<1>4. ASSUME NEW a, NEW b
      PROVE  << >> \o (<< a >> \o << b >>) \o << >> = << a, b >>
  <2> DEFINE S == {a, b}
  <2>1. a \in S /\ b \in S
    OBVIOUS
  <2> HIDE DEF S
  <2>2. << a >> \o << b >> = << a, b >> /\ << a >> \o << b >> \in Seq(S)
    BY <2>1, TwoElements
  <2>3. \A s \in Seq(S) : << >> \o s = s /\ s \o << >> = s
    OBVIOUS
  <2> QED BY <2>2, <2>3
<1>5. << >> \o << >> \o << >> = << >>
  OBVIOUS
<1>6. c.bIsDhcpEnabled \in BOOLEAN
  BY DEF PlainConfig, IfaceConfig
<1>7. CASE c.bIsDhcpEnabled
  <2>1. InterfaceLines(c) = << >> \o (<< IfaceLine(c) >> \o << RangeLine(c) >>) \o << >>
    BY <1>3, <1>7
  <2> QED BY <1>4, <1>7, <2>1
<1>8. CASE ~c.bIsDhcpEnabled
  BY <1>3, <1>5, <1>8
<1> QED BY <1>7, <1>8

\* The global configuration being zero, the header is two lines.
LEMMA ConfLinesForm ==
    ASSUME NEW ifs \in Seq(IfaceConfig)
    PROVE  /\ FlattenSeq([i \in 1..Len(ifs) |-> InterfaceLines(ifs[i])]) \in Seq(Line)
           /\ [i \in 1..Len(ifs) |-> InterfaceLines(ifs[i])] \in Seq(Seq(Line))
           /\ ConfLines(ZeroGlobalConfig, ifs) =
                << ConfLine("builtin", << >>) >> \o << ConfLine("no-resolv", << >>) >>
                \o FlattenSeq([i \in 1..Len(ifs) |-> InterfaceLines(ifs[i])])
           /\ << ConfLine("builtin", << >>) >> \in Seq(Line)
           /\ << ConfLine("no-resolv", << >>) >> \in Seq(Line)
<1> DEFINE seqs == [i \in 1..Len(ifs) |-> InterfaceLines(ifs[i])]
<1>1. \A i \in 1..Len(ifs) : InterfaceLines(ifs[i]) \in Seq(Line)
  BY InterfaceLinesType
<1>2. seqs \in Seq(Seq(Line))
  BY <1>1
<1>3. FlattenSeq(seqs) \in Seq(Line)
  <2> HIDE DEF seqs
  <2> QED BY <1>2, FlattenSeqType
<1> DEFINE F == FlattenSeq(seqs)
           builtin == << ConfLine("builtin", << >>) >>
           noresolv == << ConfLine("no-resolv", << >>) >>
<1>4. builtin \in Seq(Line) /\ noresolv \in Seq(Line)
  <2>1. "builtin" \in Keywords /\ "no-resolv" \in Keywords
    BY DEF Keywords
  <2> QED BY <2>1, OneLine, NoElements
<1>5. /\ \A key : IfSet(FALSE, key) = << >>
      /\ \A key : IfNonEmpty("", key) = << >>
      /\ \A key : EachOf(<< >>, key) = << >>
  BY DEF IfSet, IfNonEmpty, EachOf
<1>6. ConfLines(ZeroGlobalConfig, ifs) =
        << >> \o << >> \o << >> \o builtin \o noresolv \o << >> \o << >> \o << >> \o << >>
        \o << >> \o << >> \o << >> \o F \o << >>
  <2> HIDE DEF F, builtin, noresolv
  <2>1. /\ ZeroGlobalConfig.bDomainNeeded = FALSE /\ ZeroGlobalConfig.bBogusPriv = FALSE
        /\ ZeroGlobalConfig.domainSpecific = << >> /\ ZeroGlobalConfig.cResolvCfgFile = ""
        /\ ZeroGlobalConfig.cDomain = "" /\ ZeroGlobalConfig.bExpandHosts = FALSE
        /\ ZeroGlobalConfig.cDhcpLeaseFile = "" /\ ZeroGlobalConfig.cDhcpHostsFile = ""
        /\ ZeroGlobalConfig.cDhcpOptsFile = "" /\ ZeroGlobalConfig.vendorIds = << >>
        /\ ZeroGlobalConfig.vendorClasses = << >> /\ ZeroGlobalConfig.redirectionUrls = << >>
    BY DEF ZeroGlobalConfig
  <2> QED BY <2>1, <1>5 DEF ConfLines, F, builtin, noresolv
<1>7. ASSUME NEW a \in Seq(Line), NEW b \in Seq(Line), NEW c \in Seq(Line)
      PROVE  << >> \o << >> \o << >> \o a \o b \o << >> \o << >> \o << >> \o << >>
               \o << >> \o << >> \o << >> \o c \o << >> = a \o b \o c
  <2>1. << >> \o << >> \o << >> \o a = a
    OBVIOUS
  <2>2. a \o b \in Seq(Line) /\ a \o b \o c \in Seq(Line)
    OBVIOUS
  <2>3. \A s \in Seq(Line) : s \o << >> = s
    OBVIOUS
  <2> QED BY <2>1, <2>2, <2>3
<1> HIDE DEF F, builtin, noresolv
<1>8. ConfLines(ZeroGlobalConfig, ifs) = builtin \o noresolv \o F
  <2>1. F \in Seq(Line)
    BY <1>3 DEF F
  <2> QED BY <1>4, <1>6, <1>7, <2>1
<1> QED BY <1>2, <1>3, <1>4, <1>8 DEF F, builtin, noresolv

\* dhcpServerInit writes lines, however many interfaces there are.
LEMMA ConfLinesType ==
    ASSUME NEW ifs \in Seq(IfaceConfig)
    PROVE  ConfLines(ZeroGlobalConfig, ifs) \in Seq(Line)
<1> DEFINE F == FlattenSeq([i \in 1..Len(ifs) |-> InterfaceLines(ifs[i])])
           builtin == << ConfLine("builtin", << >>) >>
           noresolv == << ConfLine("no-resolv", << >>) >>
<1>1. /\ ConfLines(ZeroGlobalConfig, ifs) = builtin \o noresolv \o F
      /\ F \in Seq(Line) /\ builtin \in Seq(Line) /\ noresolv \in Seq(Line)
  BY ConfLinesForm
<1> HIDE DEF F, builtin, noresolv
<1> QED BY <1>1

\* The file is laid out in pairs, one for each enabled interface.
LEMMA ConfLinesLaid ==
    ASSUME NEW ifs \in Seq(IfaceConfig), \A i \in 1..Len(ifs) : PlainConfig(ifs[i])
    PROVE  \E m \in Nat : Laid(ConfLines(ZeroGlobalConfig, ifs), m, ifs)
<1> DEFINE seqs == [i \in 1..Len(ifs) |-> InterfaceLines(ifs[i])]
           n == Len(ifs)
           F == FlattenSeq(seqs)
           b == ConfLine("builtin", << >>)
           r == ConfLine("no-resolv", << >>)
           f == << b >> \o << r >> \o F
<1>1. /\ ConfLines(ZeroGlobalConfig, ifs) = f /\ F \in Seq(Line) /\ seqs \in Seq(Seq(Line))
      /\ << b >> \in Seq(Line) /\ << r >> \in Seq(Line)
  BY ConfLinesForm
<1>2. n \in Nat /\ Len(seqs) = n
  OBVIOUS
<1>3. \A i \in 1..n : seqs[i] = IF ifs[i].bIsDhcpEnabled
                                  THEN << IfaceLine(ifs[i]), RangeLine(ifs[i]) >> ELSE << >>
  BY InterfaceLinesPair
<1> HIDE DEF seqs
<1>4. \A i \in 1..Len(seqs) : seqs[i] = << >> \/ Len(seqs[i]) = 2
  <2>1. \A u, v : Len(<< u, v >>) = 2
    OBVIOUS
  <2> QED BY <1>2, <1>3, <2>1, Zenon
<1>5. PICK m \in Nat : PairsOf(F, m, seqs, n)
  BY <1>1, <1>2, <1>4, FlattenPairs
<1>6. Len(F) = 2 * m
  BY <1>5 DEF PairsOf
<1>7. b.key = "builtin" /\ r.key = "no-resolv"
  BY DEF ConfLine
<1> HIDE DEF b, r, F
<1>8. /\ f \in Seq(Line) /\ Len(f) = 2 * m + 2 /\ f[1] = b /\ f[2] = r
      /\ \A j \in 1..(2 * m) : f[j + 2] = F[j]
  BY <1>1, <1>6
<1> HIDE DEF f, n
<1>9. ASSUME NEW j \in 1..m
      PROVE  f[2 * j + 1] = F[2 * j - 1] /\ f[2 * j + 2] = F[2 * j]
  <2>1. 2 * j - 1 \in 1..(2 * m) /\ 2 * j \in 1..(2 * m) /\ (2 * j - 1) + 2 = 2 * j + 1
    OBVIOUS
  <2> QED BY <1>8, <2>1
<1>10. ASSUME NEW j \in 1..m
       PROVE  \E i \in 1..n : ifs[i].bIsDhcpEnabled /\ f[2 * j + 1] = IfaceLine(ifs[i])
                                                   /\ f[2 * j + 2] = RangeLine(ifs[i])
  <2>1. PICK i \in 1..n : seqs[i] = << F[2 * j - 1], F[2 * j] >>
    BY <1>5 DEF PairsOf
  <2>2. seqs[i] # << >>
    BY <2>1
  <2>3. ifs[i].bIsDhcpEnabled /\ seqs[i] = << IfaceLine(ifs[i]), RangeLine(ifs[i]) >>
    BY <1>3, <2>2
  <2>4. F[2 * j - 1] = IfaceLine(ifs[i]) /\ F[2 * j] = RangeLine(ifs[i])
    BY <2>1, <2>3
  <2> QED BY <1>9, <2>3, <2>4
<1>11. ASSUME NEW i \in 1..n, ifs[i].bIsDhcpEnabled
       PROVE  \E j \in 1..m : f[2 * j + 1] = IfaceLine(ifs[i]) /\ f[2 * j + 2] = RangeLine(ifs[i])
  <2>1. seqs[i] = << IfaceLine(ifs[i]), RangeLine(ifs[i]) >>
    BY <1>3, <1>11
  <2>0. seqs[i] # << >>
    BY <2>1
  <2>2. PICK j \in 1..m : seqs[i] = << F[2 * j - 1], F[2 * j] >>
    BY <1>5, <2>0 DEF PairsOf
  <2>3. F[2 * j - 1] = IfaceLine(ifs[i]) /\ F[2 * j] = RangeLine(ifs[i])
    BY <2>1, <2>2
  <2> QED BY <1>9, <2>3
<1>12. Laid(f, m, ifs)
  BY <1>7, <1>8, <1>10, <1>11 DEF Laid, n
<1> QED BY <1>1, <1>12

-----------------------------------------------------------------------------
(* What dns_only does to every file.                                       *)

\* iter counts commented lines: it never passes the bounds it is tested with.
LEMMA IterRange ==
    ASSUME NEW f \in Seq(Line), NEW i \in 1..Len(f)
    PROVE  Iter(f, i) \in 0..2
<1> DEFINE T == {j \in 1..(i - 1) : HasInterface(f[j])}
<1>1. IsFiniteSet(1..(i - 1))
  BY FS_Interval
<1>2. IsFiniteSet(T)
  BY <1>1, FS_Subset
<1>3. Cardinality(T) \in Nat
  BY <1>2, FS_CardinalityType
<1> HIDE DEF T
<1> DEFINE n == Cardinality(T)
<1>4. (IF n < 2 THEN n ELSE 2) \in 0..2
  BY <1>3
<1> QED BY <1>4 DEF Iter, T

\* A '#' in front of a line leaves its words.
LEMMA CommentType ==
    ASSUME NEW l \in Line
    PROVE  Comment(l) \in Line /\ Comment(l).hashes = l.hashes + 1 /\ Comment(l).key = l.key
BY DEF Line, Comment

\* dns_only keeps every line, commented out or as it was.
LEMMA DnsOnlyLines ==
    ASSUME NEW f \in Seq(Line)
    PROVE  /\ dns_only(f) \in Seq(Line)
           /\ Len(dns_only(f)) = Len(f)
           /\ \A i \in 1..Len(f) : dns_only(f)[i] \in {f[i], Comment(f[i])}
<1>1. \A i \in 1..Len(f) : f[i] \in Line /\ Comment(f[i]) \in Line
  BY CommentType
<1> DEFINE g(i) == IF \/ HasInterface(f[i]) /\ Iter(f, i) < 2
                      \/ HasRange(f[i]) /\ Iter(f, i) < 3
                   THEN Comment(f[i]) ELSE f[i]
<1>2. \A i \in 1..Len(f) : g(i) \in Line /\ g(i) \in {f[i], Comment(f[i])}
  BY <1>1
<1>3. dns_only(f) = [i \in 1..Len(f) |-> g(i)]
  BY DEF dns_only
<1> HIDE DEF g
<1>4. Len(f) \in Nat
  OBVIOUS
<1> QED BY <1>2, <1>3, <1>4

\* Every address range is commented out, whatever the file: dns_only leaves
\* nothing for dnsmasq to hand out, although it misses interface lines.
THEOREM DnsOnlySilences ==
    ASSUME NEW f \in Seq(Line)
    PROVE  ActiveRanges(dns_only(f)) = {}
<1>1. DOMAIN dns_only(f) = 1..Len(f)
  BY DEF dns_only
<1> SUFFICES ASSUME NEW i \in 1..Len(f), StartsRange(dns_only(f)[i]) PROVE FALSE
  BY <1>1 DEF ActiveRanges
<1>2. f[i] \in Line
  OBVIOUS
<1>3. Iter(f, i) \in 0..2
  BY IterRange
<1>4. dns_only(f)[i] = IF \/ HasInterface(f[i]) /\ Iter(f, i) < 2
                          \/ HasRange(f[i]) /\ Iter(f, i) < 3
                       THEN Comment(f[i]) ELSE f[i]
  BY DEF dns_only
<1>5. Comment(f[i]).hashes = f[i].hashes + 1 /\ f[i].hashes \in Nat
  BY <1>2, CommentType DEF Line
<1>6. CASE HasRange(f[i])
  <2>1. dns_only(f)[i] = Comment(f[i])
    BY <1>3, <1>4, <1>6
  <2>2. Comment(f[i]).hashes # 0
    BY <1>5
  <2> QED BY <2>1, <2>2 DEF StartsRange
<1>7. CASE ~HasRange(f[i])
  <2>1. Comment(f[i]).key = f[i].key
    BY <1>2, CommentType
  <2>2. dns_only(f)[i].key = f[i].key
    BY <1>4, <2>1
  <2> QED BY <1>7, <2>2 DEF StartsRange, HasRange
<1> QED BY <1>6, <1>7

\* The keywords of a file of the manager: none, or the header and pairs of an
\* interface and a range, commented out or not.
Shaped(f) ==
    \/ f = << >>
    \/ \E m \in Nat : /\ Len(f) = 2 * m + 2
                      /\ f[1].key = "builtin" /\ f[2].key = "no-resolv"
                      /\ \A j \in 1..m : /\ f[2 * j + 1].key = "interface"
                                         /\ f[2 * j + 2].key = "dhcp-range"

\* dhcpServerInit writes such a file.
LEMMA LaidShaped ==
    ASSUME NEW f, NEW m \in Nat, NEW ifs, Laid(f, m, ifs)
    PROVE  Shaped(f) /\ f # << >>
<1>1. \A j \in 1..m : f[2 * j + 1].key = "interface" /\ f[2 * j + 2].key = "dhcp-range"
  <2>1. \A c : IfaceLine(c).key = "interface" /\ RangeLine(c).key = "dhcp-range"
    BY DEF IfaceLine, RangeLine, ConfLine
  <2> SUFFICES ASSUME NEW j \in 1..m
               PROVE  f[2 * j + 1].key = "interface" /\ f[2 * j + 2].key = "dhcp-range"
    OBVIOUS
  <2>2. PICK i \in 1..Len(ifs) : f[2 * j + 1] = IfaceLine(ifs[i]) /\ f[2 * j + 2] = RangeLine(ifs[i])
    BY DEF Laid
  <2> QED BY <2>1, <2>2
<1>2. f # << >>
  BY DEF Laid
<1> QED BY <1>1, <1>2 DEF Laid, Shaped

\* dns_only keeps the keywords.
LEMMA DnsOnlyShaped ==
    ASSUME NEW f \in Seq(Line), Shaped(f)
    PROVE  Shaped(dns_only(f))
<1> DEFINE g == dns_only(f)
<1>1. Len(g) = Len(f) /\ g \in Seq(Line) /\ \A i \in 1..Len(f) : g[i] \in {f[i], Comment(f[i])}
  BY DnsOnlyLines
<1>2. \A i \in 1..Len(f) : g[i].key = f[i].key
  BY <1>1, CommentType
<1> HIDE DEF g
<1>3. CASE f = << >>
  BY <1>1, <1>3 DEF Shaped, g
<1>4. CASE f # << >>
  <2>1. PICK m \in Nat : /\ Len(f) = 2 * m + 2
                         /\ f[1].key = "builtin" /\ f[2].key = "no-resolv"
                         /\ \A j \in 1..m : /\ f[2 * j + 1].key = "interface"
                                            /\ f[2 * j + 2].key = "dhcp-range"
    BY <1>4 DEF Shaped
  <2>2. 1 \in 1..Len(f) /\ 2 \in 1..Len(f)
        /\ \A j \in 1..m : 2 * j + 1 \in 1..Len(f) /\ 2 * j + 2 \in 1..Len(f)
    BY <2>1
  <2>3. /\ g[1].key = "builtin" /\ g[2].key = "no-resolv"
        /\ \A j \in 1..m : g[2 * j + 1].key = "interface" /\ g[2 * j + 2].key = "dhcp-range"
    BY <1>2, <2>1, <2>2
  <2> QED BY <1>1, <2>1, <2>3 DEF Shaped, g
<1> QED BY <1>3, <1>4

-----------------------------------------------------------------------------
(* compareFiles.                                                           *)

\* compareFiles decides equality for files of the same length; of files of
\* different lengths it may not (see DhcpConfLoops for what it then compares).
THEOREM CompareFilesExact ==
    ASSUME NEW S, NEW f1 \in Seq(S), NEW f2 \in Seq(S), Len(f1) = Len(f2), NEW s1, NEW s2
    PROVE  compareFiles(f1, f2, s1, s2) <=> f1 = f2
<1>1. (IF Len(f1) > Len(f2) THEN Len(f1) ELSE Len(f2)) = Len(f1)
  OBVIOUS
<1>2. \A i \in 1..Len(f1) : f1 # << >> /\ f2 # << >>
  OBVIOUS
<1>3. \A i \in 1..Len(f1) : BufferAt(f1, i, s1) = f1[i] /\ BufferAt(f2, i, s2) = f2[i]
  BY <1>2 DEF BufferAt
<1>4. compareFiles(f1, f2, s1, s2) <=> \A i \in 1..Len(f1) : f1[i] = f2[i]
  BY <1>1, <1>3 DEF compareFiles
<1> QED BY <1>4

\* The shorter of two files of the manager ends in a line that is not an
\* interface, and the longer one goes on with an interface line; an empty file
\* leaves one buffer to be compared with two different lines.
LEMMA CompareShorter ==
    ASSUME NEW f1 \in Seq(Line), NEW f2 \in Seq(Line), Shaped(f1), Shaped(f2), Len(f1) < Len(f2),
           NEW s1, NEW s2
    PROVE  ~compareFiles(f1, f2, s1, s2) /\ ~compareFiles(f2, f1, s2, s1)
<1>1. /\ (IF Len(f1) > Len(f2) THEN Len(f1) ELSE Len(f2)) = Len(f2)
      /\ (IF Len(f2) > Len(f1) THEN Len(f2) ELSE Len(f1)) = Len(f2)
  OBVIOUS
<1>2. f2 # << >>
  OBVIOUS
<1>3. PICK n \in Nat : /\ Len(f2) = 2 * n + 2
                       /\ f2[1].key = "builtin" /\ f2[2].key = "no-resolv"
                       /\ \A j \in 1..n : /\ f2[2 * j + 1].key = "interface"
                                          /\ f2[2 * j + 2].key = "dhcp-range"
  BY <1>2 DEF Shaped
<1> SUFFICES \E i \in 1..Len(f2) : BufferAt(f1, i, s1) # BufferAt(f2, i, s2)
  BY <1>1 DEF compareFiles
<1>4. CASE f1 = << >>
  <2>1. 1 \in 1..Len(f2) /\ 2 \in 1..Len(f2)
    BY <1>3
  <2>2. BufferAt(f2, 1, s2) = f2[1] /\ BufferAt(f2, 2, s2) = f2[2]
    BY <1>2, <2>1 DEF BufferAt
  <2>3. BufferAt(f1, 1, s1) = s1 /\ BufferAt(f1, 2, s1) = s1
    BY <1>4 DEF BufferAt
  <2>4. f2[1] # f2[2]
    BY <1>3
  <2> QED BY <2>1, <2>2, <2>3, <2>4
<1>5. CASE f1 # << >>
  <2>1. PICK m \in Nat : /\ Len(f1) = 2 * m + 2
                         /\ f1[1].key = "builtin" /\ f1[2].key = "no-resolv"
                         /\ \A j \in 1..m : /\ f1[2 * j + 1].key = "interface"
                                            /\ f1[2 * j + 2].key = "dhcp-range"
    BY <1>5 DEF Shaped
  <2> DEFINE i == 2 * (m + 1) + 1
  <2>2. m + 1 \in 1..n /\ i \in 1..Len(f2) /\ i = Len(f1) + 1
    BY <1>3, <2>1
  <2>3. f2[i].key = "interface"
    BY <1>3, <2>2
  <2>4. f1[Len(f1)].key # "interface"
    <3>1. CASE m = 0
      BY <2>1, <3>1
    <3>2. CASE m # 0
      <4>1. m \in 1..m
        BY <3>2
      <4> QED BY <2>1, <4>1
    <3> QED BY <3>1, <3>2
  <2> HIDE DEF i
  <2>5. BufferAt(f2, i, s2) = f2[i]
    BY <1>2, <2>2 DEF BufferAt
  <2>6. BufferAt(f1, i, s1) = f1[Len(f1)]
    BY <1>5, <2>2 DEF BufferAt
  <2> QED BY <2>2, <2>3, <2>4, <2>5, <2>6
<1> QED BY <1>4, <1>5

\* On the files the manager writes, whatever their lengths, compareFiles is
\* equality, whatever the uninitialised buffers hold.
THEOREM CompareShapedExact ==
    ASSUME NEW f1 \in Seq(Line), NEW f2 \in Seq(Line), Shaped(f1), Shaped(f2), NEW s1, NEW s2
    PROVE  compareFiles(f1, f2, s1, s2) <=> f1 = f2
<1>1. CASE Len(f1) = Len(f2)
  BY <1>1, CompareFilesExact
<1>2. CASE Len(f1) < Len(f2)
  BY <1>2, CompareShorter
<1>3. CASE Len(f2) < Len(f1)
  BY <1>3, CompareShorter
<1> QED BY <1>1, <1>2, <1>3
=============================================================================
