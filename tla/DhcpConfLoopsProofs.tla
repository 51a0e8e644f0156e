-------------------------- MODULE DhcpConfLoopsProofs --------------------------
(***************************************************************************)
(* The C loops over a configuration file compute the closed forms of       *)
(* DhcpConf, for every file, and what repeated edits make of a file.       *)
(***************************************************************************)
EXTENDS DhcpConfLoops, DhcpConfProofs

-----------------------------------------------------------------------------
(* Edits.                                                                  *)

\* A line dns_only may comment out.
Editable(l) == HasInterface(l) \/ HasRange(l)

\* dns_only comments out the first line with an interface and every line with a
\* range: something changes unless there is nothing to comment out.
LEMMA DnsOnlyEdits ==
    ASSUME NEW f \in Seq(Line)
    PROVE  /\ (\A i \in DOMAIN f : ~Editable(f[i])) => dns_only(f) = f
           /\ (\E i \in DOMAIN f : Editable(f[i]))
              => \E i \in DOMAIN f : dns_only(f)[i] = Comment(f[i])
<1>1. DOMAIN f = 1..Len(f) /\ Len(f) \in Nat
  OBVIOUS
<1>2. \A i \in 1..Len(f) :
        dns_only(f)[i] = IF \/ HasInterface(f[i]) /\ Iter(f, i) < 2
                            \/ HasRange(f[i]) /\ Iter(f, i) < 3
                         THEN Comment(f[i]) ELSE f[i]
  BY DEF dns_only
<1>3. ASSUME \A i \in DOMAIN f : ~Editable(f[i]) PROVE dns_only(f) = f
  <2>1. \A i \in 1..Len(f) : dns_only(f)[i] = f[i]
    BY <1>1, <1>2, <1>3 DEF Editable
  <2>2. dns_only(f) \in Seq(Line) /\ Len(dns_only(f)) = Len(f)
    BY DnsOnlyLines
  <2> QED BY <2>1, <2>2, SameElements
<1>4. ASSUME NEW k \in DOMAIN f, HasRange(f[k])
      PROVE  \E i \in DOMAIN f : dns_only(f)[i] = Comment(f[i])
  <2>1. Iter(f, k) < 3
    BY <1>1, IterRange
  <2> QED BY <1>1, <1>2, <1>4, <2>1
<1>5. ASSUME NEW k \in DOMAIN f, HasInterface(f[k])
      PROVE  \E i \in DOMAIN f : dns_only(f)[i] = Comment(f[i])
  <2> DEFINE T == {i \in DOMAIN f : HasInterface(f[i])}
  <2>1. T \subseteq Nat /\ T # {}
    BY <1>1, <1>5
  <2>2. PICK i \in T : \A j \in T : i <= j
    <3> HIDE DEF T
    <3> QED BY <2>1, LeastNat
  <2>3. {j \in 1..(i - 1) : HasInterface(f[j])} = {}
    BY <1>1, <2>2
  <2>4. Cardinality({j \in 1..(i - 1) : HasInterface(f[j])}) = 0
    BY <2>3, FS_EmptySet
  <2>5. Iter(f, i) = 0
    BY <2>4 DEF Iter
  <2> QED BY <1>1, <1>2, <2>2, <2>5
<1> QED BY <1>3, <1>4, <1>5 DEF Editable

\* The '#'s of a line are counted.
LEMMA CountedHashes ==
    ASSUME NEW f \in Seq(Line), NEW i \in DOMAIN f
    PROVE  f[i].hashes \in Nat
<1>1. f[i] \in Line
  OBVIOUS
<1> QED BY <1>1 DEF Line

\* What edits have made of the file: the lines it had, some with more '#'s.
EditsInv ==
    /\ before \in Seq(Line) /\ file \in Seq(Line) /\ Len(file) = Len(before)
    /\ edits \in Nat
    /\ \A i \in DOMAIN before : /\ file[i].key = before[i].key
                                /\ file[i].hashes >= before[i].hashes
    /\ edits = 0 => file = before
    /\ edits > 0 => ActiveRanges(file) = {}
    /\ (\A i \in DOMAIN before : ~Editable(before[i])) => file = before
    /\ edits > 0 /\ (\E i \in DOMAIN before : Editable(before[i]))
       => \E i \in DOMAIN before : file[i].hashes > before[i].hashes

\* An unedited file is as it was.
LEMMA EditsInit == Init => EditsInv
<1> SUFFICES ASSUME Init PROVE EditsInv
  OBVIOUS
<1>1. file \in Seq(Line)
  <2>1. PICK m \in 0..MaxLength : file \in [1..m -> FileLines]
    BY DEF Init, SeqOf
  <2>2. m \in Nat /\ file \in [1..m -> Line]
    BY <2>1, BoundsAssumption, FileLinesAssumption
  <2> QED BY <2>2, FunctionIsSeq
<1>2. \A i \in DOMAIN file : file[i].hashes \in Nat
  BY <1>1, CountedHashes
<1> QED BY <1>1, <1>2 DEF Init, EditsInv

\* An edit adds '#'s, silences, and changes nothing when nothing can be edited.
LEMMA EditsNext == EditsInv /\ [Edit]_<< file, before, edits >> => EditsInv'
<1> SUFFICES ASSUME EditsInv, [Edit]_<< file, before, edits >> PROVE EditsInv'
  OBVIOUS
<1>1. CASE UNCHANGED << file, before, edits >>
  BY <1>1 DEF EditsInv
<1>2. CASE Edit
  <2>0. /\ file' = dns_only(file) /\ before' = before /\ edits' = edits + 1 /\ edits \in Nat
        /\ file \in Seq(Line) /\ before \in Seq(Line) /\ Len(file) = Len(before)
        /\ DOMAIN file = 1..Len(file) /\ DOMAIN before = 1..Len(file)
    BY <1>2 DEF Edit, EditsInv
  <2>1. /\ file' \in Seq(Line) /\ Len(file') = Len(file)
        /\ \A i \in 1..Len(file) : file'[i] \in {file[i], Comment(file[i])}
    BY <2>0, DnsOnlyLines
  <2>2. ActiveRanges(file') = {}
    BY <2>0, DnsOnlySilences
  <2>3. \A i \in 1..Len(file) : /\ file[i] \in Line /\ file[i].hashes \in Nat
                                /\ before[i].hashes \in Nat
                                /\ Comment(file[i]).hashes = file[i].hashes + 1
                                /\ Comment(file[i]).key = file[i].key
    <3>1. \A i \in 1..Len(file) : file[i] \in Line /\ before[i] \in Line
      BY <2>0
    <3> QED BY <3>1, CommentType DEF Line
  <2>4. \A i \in 1..Len(file) : /\ file'[i].key = file[i].key
                                /\ file'[i].hashes \in Nat
                                /\ file'[i].hashes >= file[i].hashes
    BY <2>1, <2>3
  <2>5. \A i \in 1..Len(file) : /\ file[i].key = before[i].key
                                /\ file[i].hashes >= before[i].hashes
    BY <2>0 DEF EditsInv
  <2>6. \A i \in 1..Len(file) : /\ file'[i].key = before[i].key
                                /\ file'[i].hashes >= before[i].hashes
    BY <2>3, <2>4, <2>5
  <2>7. \A i \in 1..Len(file) : Editable(file[i]) <=> Editable(before[i])
    BY <2>5 DEF Editable, HasInterface, HasRange
  <2>8. ASSUME \A i \in DOMAIN before : ~Editable(before[i]) PROVE file' = before
    <3>1. \A i \in DOMAIN file : ~Editable(file[i])
      BY <2>0, <2>7, <2>8
    <3>2. dns_only(file) = file
      BY <2>0, <3>1, DnsOnlyEdits
    <3> QED BY <2>0, <2>8, <3>2 DEF EditsInv
  <2>9. ASSUME NEW k \in DOMAIN before, Editable(before[k])
        PROVE  \E i \in DOMAIN before : file'[i].hashes > before[i].hashes
    <3>1. PICK i \in 1..Len(file) : dns_only(file)[i] = Comment(file[i])
      BY <2>0, <2>7, <2>9, DnsOnlyEdits
    <3>2. file'[i].hashes = file[i].hashes + 1
      BY <2>0, <2>3, <3>1
    <3> QED BY <2>0, <2>3, <2>5, <3>2
  <2>10. edits' \in Nat /\ edits' # 0
    BY <2>0
  <2> QED BY <2>0, <2>1, <2>2, <2>6, <2>8, <2>9, <2>10 DEF EditsInv
<1> QED BY <1>1, <1>2

\* What edits have made of the file holds after any number of them.
LEMMA EditsAlways == Spec => []EditsInv
BY EditsInit, EditsNext, PTL DEF Spec

\* Once edited, a file serves no range and dhcpServerStop's scan finds no interface to
\* stop in it, however often it has been edited.
THEOREM EditedIsSilentAlways == Spec => []EditedIsSilent
<1>1. EditsInv => EditedIsSilent
  <2> SUFFICES ASSUME EditsInv, edits > 0
               PROVE  ActiveRanges(file) = {} /\ ~StopFindsInterface(file)
    BY DEF EditedIsSilent
  <2>1. ActiveRanges(file) = {}
    BY DEF EditsInv
  <2>2. ASSUME StopFindsInterface(file) PROVE FALSE
    <3>1. PICK i \in ReadByLoop(file) : i < Len(file) /\ StartsRange(file[i + 1])
      BY <2>2 DEF StopFindsInterface
    <3>2. i \in 1..Len(file) /\ DOMAIN file = 1..Len(file)
      BY <3>1 DEF ReadByLoop, EditsInv
    <3>3. i + 1 \in DOMAIN file
      BY <3>1, <3>2
    <3> QED BY <2>1, <3>1, <3>3 DEF ActiveRanges
  <2> QED BY <2>1, <2>2
<1> QED BY <1>1, EditsAlways, PTL

\* compareFiles sees every edit, unless there was nothing to comment out.
THEOREM EditIsSeenAlways == Spec => []EditIsSeen
<1>1. EditsInv => EditIsSeen
  <2> SUFFICES ASSUME EditsInv, NEW s1 \in Unread, NEW s2 \in Unread
               PROVE  compareFiles(before, file, s1, s2) <=>
                        edits = 0 \/ \A i \in DOMAIN before : ~Editable(before[i])
    BY DEF EditIsSeen, Editable
  <2>1. compareFiles(before, file, s1, s2) <=> before = file
    BY CompareFilesExact DEF EditsInv
  <2>2. ASSUME NEW i \in DOMAIN before, file[i].hashes > before[i].hashes PROVE before # file
    <3>1. before[i].hashes \in Nat
      BY CountedHashes DEF EditsInv
    <3> QED BY <2>2, <3>1
  <2>3. edits = 0 \/ edits > 0
    BY DEF EditsInv
  <2> QED BY <2>1, <2>2, <2>3 DEF EditsInv
<1> QED BY <1>1, EditsAlways, PTL

-----------------------------------------------------------------------------
(* compareFiles's loop.                                                    *)

\* The longer length.
LEMMA Longer ==
    ASSUME NEW a \in Nat, NEW b \in Nat
    PROVE  Max({a, b}) = IF a > b THEN a ELSE b
<1> DEFINE m == IF a > b THEN a ELSE b
<1>1. m \in {a, b} /\ \A y \in {a, b} : m >= y
  OBVIOUS
<1>2. \A x \in {a, b} : (\A y \in {a, b} : x >= y) => x = m
  OBVIOUS
<1> QED BY <1>1, <1>2 DEF Max

\* What one buffer holds when i lines have been asked for.
Buffer(f, i, stack) == IF i = 0 THEN stack ELSE BufferAt(f, i, stack)

\* fgets leaves the i-th line, or at the end of the file what was there before.
LEMMA Fgets ==
    ASSUME NEW S, NEW f \in Seq(S), NEW i \in Nat \ {0}, NEW stack
    PROVE  Buffer(f, i, stack) = IF i <= Len(f) THEN f[i] ELSE Buffer(f, i - 1, stack)
<1>1. Len(f) \in Nat
  OBVIOUS
<1>2. CASE f = << >>
  <2>1. Len(f) = 0
    BY <1>2
  <2>2. ~(i <= Len(f))
    BY <2>1
  <2> QED BY <1>2, <2>2 DEF Buffer, BufferAt
<1>3. CASE f # << >>
  <2>1. Len(f) # 0
    BY <1>3
  <2>2. CASE i <= Len(f)
    BY <1>3, <2>2 DEF Buffer, BufferAt
  <2>3. CASE i > Len(f) /\ i - 1 <= Len(f)
    <3>1. i - 1 = Len(f) /\ i - 1 # 0
      BY <1>1, <2>1, <2>3
    <3> QED BY <1>1, <1>3, <2>3, <3>1 DEF Buffer, BufferAt
  <2>4. CASE i - 1 > Len(f)
    <3>1. i - 1 # 0 /\ ~(i <= Len(f)) /\ ~(i - 1 <= Len(f))
      BY <1>1, <2>4
    <3> QED BY <1>3, <3>1 DEF Buffer, BufferAt
  <2> QED BY <1>1, <2>2, <2>3, <2>4
<1> QED BY <1>2, <1>3

\* What the loop has found when i lines have been read.
SameSoFar(f1, f2, s1, s2, i) == \A j \in 1..i : Buffer(f1, j, s1) = Buffer(f2, j, s2)

\* One pair of fgets calls more, of which compareFiles compares the buffers.
LEMMA SameSoFarStep ==
    ASSUME NEW f1, NEW f2, NEW s1, NEW s2, NEW i \in Nat \ {0}
    PROVE  SameSoFar(f1, f2, s1, s2, i)
             = (SameSoFar(f1, f2, s1, s2, i - 1) /\ Buffer(f1, i, s1) = Buffer(f2, i, s2))
<1>1. \A j : j \in 1..i <=> j \in 1..(i - 1) \/ j = i
  OBVIOUS
<1>2. SameSoFar(f1, f2, s1, s2, i)
        <=> SameSoFar(f1, f2, s1, s2, i - 1) /\ Buffer(f1, i, s1) = Buffer(f2, i, s2)
  BY <1>1, Zenon DEF SameSoFar
<1>3. SameSoFar(f1, f2, s1, s2, i) \in BOOLEAN
  BY DEF SameSoFar
<1> QED BY <1>2, <1>3, Zenon

\* compareFiles is what its loop returns, whatever the lengths of the files and the
\* content of the uninitialised buffers.
THEOREM CompareLoop ==
    ASSUME NEW S, NEW f1 \in Seq(S), NEW f2 \in Seq(S), NEW s1, NEW s2
    PROVE  compareFiles(f1, f2, s1, s2) = compareLoop(f1, f2, s1, s2)
<1> DEFINE n == Max({Len(f1), Len(f2)})
           Passes(pass) ==
             [i \in 0..n |->
               IF i = 0
                 THEN [buff1 |-> s1, buff2 |-> s2, same |-> TRUE]
                 ELSE [buff1 |-> IF i <= Len(f1) THEN f1[i] ELSE pass[i - 1].buff1,
                       buff2 |-> IF i <= Len(f2) THEN f2[i] ELSE pass[i - 1].buff2,
                       same |-> pass[i - 1].same
                                /\ (IF i <= Len(f1) THEN f1[i] ELSE pass[i - 1].buff1)
                                     = (IF i <= Len(f2) THEN f2[i] ELSE pass[i - 1].buff2)]]
           p == CHOOSE pass : pass = Passes(pass)
           State(i) == [buff1 |-> Buffer(f1, i, s1), buff2 |-> Buffer(f2, i, s2),
                        same |-> SameSoFar(f1, f2, s1, s2, i)]
           q == [i \in 0..n |-> State(i)]
<1>1. n \in Nat /\ n = IF Len(f1) > Len(f2) THEN Len(f1) ELSE Len(f2)
  <2>1. Len(f1) \in Nat /\ Len(f2) \in Nat
    OBVIOUS
  <2> QED BY <2>1, Longer
<1>2. compareLoop(f1, f2, s1, s2) = p[n].same
  BY DEF compareLoop
<1> HIDE DEF n
<1>3. State(0) = [buff1 |-> s1, buff2 |-> s2, same |-> TRUE]
  <2>1. SameSoFar(f1, f2, s1, s2, 0) = TRUE
    BY DEF SameSoFar
  <2> QED BY <2>1 DEF Buffer
<1>4. ASSUME NEW pass, NEW i \in 1..n, pass[i - 1] = State(i - 1)
      PROVE  Passes(pass)[i] = State(i)
  <2> DEFINE b1 == IF i <= Len(f1) THEN f1[i] ELSE pass[i - 1].buff1
             b2 == IF i <= Len(f2) THEN f2[i] ELSE pass[i - 1].buff2
  <2>1. i \in 0..n /\ i # 0 /\ i \in Nat \ {0}
    BY <1>1
  <2>2. /\ pass[i - 1].buff1 = Buffer(f1, i - 1, s1)
        /\ pass[i - 1].buff2 = Buffer(f2, i - 1, s2)
        /\ pass[i - 1].same = SameSoFar(f1, f2, s1, s2, i - 1)
    BY <1>4
  <2>3. b1 = Buffer(f1, i, s1) /\ b2 = Buffer(f2, i, s2)
    BY <2>1, <2>2, Fgets
  <2>4. Passes(pass)[i] = [buff1 |-> b1, buff2 |-> b2, same |-> pass[i - 1].same /\ b1 = b2]
    BY <2>1
  <2> HIDE DEF b1, b2, Passes
  <2>5. SameSoFar(f1, f2, s1, s2, i) = (pass[i - 1].same /\ b1 = b2)
    <3>1. SameSoFar(f1, f2, s1, s2, i)
            = (SameSoFar(f1, f2, s1, s2, i - 1) /\ Buffer(f1, i, s1) = Buffer(f2, i, s2))
      BY <2>1, SameSoFarStep
    <3> QED BY <2>2, <2>3, <3>1
  <2> QED BY <2>3, <2>4, <2>5, Zenon
<1>5. q = Passes(q)
  <2>1. ASSUME NEW i \in 0..n PROVE q[i] = Passes(q)[i]
    <3>1. CASE i = 0
      <4>1. Passes(q)[i] = [buff1 |-> s1, buff2 |-> s2, same |-> TRUE]
        BY <3>1
      <4>2. q[i] = State(0)
        BY <3>1
      <4> HIDE DEF State, Passes, q
      <4> QED BY <1>3, <4>1, <4>2
    <3>2. CASE i # 0
      <4>1. i \in 1..n /\ i - 1 \in 0..n
        BY <1>1, <3>2
      <4>2. q[i - 1] = State(i - 1) /\ q[i] = State(i)
        BY <4>1
      <4> HIDE DEF State, Passes, q
      <4> QED BY <1>4, <4>1, <4>2
    <3> QED BY <3>1, <3>2
  <2>2. /\ q = [i \in 0..n |-> q[i]]
        /\ Passes(q) = [i \in 0..n |-> Passes(q)[i]]
    OBVIOUS
  <2> HIDE DEF q, Passes
  <2> QED BY <2>1, <2>2
<1>6. p = Passes(p)
  <2> HIDE DEF Passes, q
  <2> QED BY <1>5
<1>7. p[n] = State(n)
  <2> DEFINE P == {k \in Nat : k <= n => p[k] = State(k)}
  <2>1. 0 \in P
    <3>1. \A pass : Passes(pass)[0] = [buff1 |-> s1, buff2 |-> s2, same |-> TRUE]
      <4>1. 0 \in 0..n
        BY <1>1
      <4> QED BY <4>1
    <3> HIDE DEF Passes, State, p
    <3> QED BY <1>3, <1>6, <3>1
  <2>2. ASSUME NEW k \in Nat, k \in P PROVE k + 1 \in P
    <3> HIDE DEF Passes, State, p
    <3> SUFFICES ASSUME k + 1 <= n PROVE p[k + 1] = State(k + 1)
      OBVIOUS
    <3>1. k + 1 \in 1..n /\ (k + 1) - 1 = k /\ k <= n
      BY <1>1
    <3>2. p[(k + 1) - 1] = State((k + 1) - 1)
      BY <2>2, <3>1
    <3> QED BY <1>4, <1>6, <3>1, <3>2
  <2>3. Nat \subseteq P
    <3> HIDE DEF P
    <3> QED BY <2>1, <2>2, InductionOverNat
  <2> HIDE DEF State, p
  <2> QED BY <1>1, <2>3
<1>8. compareFiles(f1, f2, s1, s2) <=> SameSoFar(f1, f2, s1, s2, n)
  <2>1. \A j \in 1..n : Buffer(f1, j, s1) = BufferAt(f1, j, s1)
                        /\ Buffer(f2, j, s2) = BufferAt(f2, j, s2)
    BY <1>1 DEF Buffer
  <2> QED BY <1>1, <2>1, Zenon DEF compareFiles, SameSoFar
<1>9. compareFiles(f1, f2, s1, s2) \in BOOLEAN /\ SameSoFar(f1, f2, s1, s2, n) \in BOOLEAN
  BY DEF compareFiles, SameSoFar
<1>10. p[n].same = SameSoFar(f1, f2, s1, s2, n)
  <2> HIDE DEF p
  <2> QED BY <1>7
<1> HIDE DEF p
<1> QED BY <1>2, <1>8, <1>9, <1>10, Zenon

\* On a file being edited and its beginnings.
THEOREM CompareIsItsLoopAlways == Spec => []CompareIsItsLoop
<1>1. EditsInv => CompareIsItsLoop
  <2> SUFFICES ASSUME EditsInv, NEW s1 \in Unread, NEW s2 \in Unread, NEW n \in 0..Len(before)
               PROVE  LET shorter == SubSeq(before, 1, n) IN
                      /\ compareFiles(file, shorter, s1, s2) = compareLoop(file, shorter, s1, s2)
                      /\ compareFiles(shorter, file, s1, s2) = compareLoop(shorter, file, s1, s2)
    BY DEF CompareIsItsLoop
  <2>1. file \in Seq(Line) /\ SubSeq(before, 1, n) \in Seq(Line)
    BY DEF EditsInv
  <2> QED BY <2>1, CompareLoop
<1> QED BY <1>1, EditsAlways, PTL

-----------------------------------------------------------------------------
(* dhcpServerStop's loop.                                                  *)

\* Whether the loop goes on reading at line i, given where it did before.
ReadsAt(f, reads, i) == i = 1 \/ ~(reads[i - 1] /\ StartsInterface(f[i - 1]))

\* The function that ReadByLoop defines exists.
LEMMA ReadsExists ==
    ASSUME NEW f, NEW n \in Nat
    PROVE  \E reads : reads = [i \in 1..n |-> ReadsAt(f, reads, i)]
<1> DEFINE Ok(k) == \E reads : \A i \in 1..k : reads[i] = ReadsAt(f, reads, i)
           P == {k \in Nat : Ok(k)}
<1>1. 0 \in P
  OBVIOUS
<1>2. ASSUME NEW k \in Nat, Ok(k) PROVE Ok(k + 1)
  <2>1. PICK reads : \A i \in 1..k : reads[i] = ReadsAt(f, reads, i)
    BY <1>2
  <2> DEFINE more == [i \in 1..(k + 1) |->
                        IF i = k + 1 THEN ReadsAt(f, reads, k + 1) ELSE reads[i]]
  <2>2. more[k + 1] = ReadsAt(f, reads, k + 1) /\ \A i \in 1..k : more[i] = reads[i]
    OBVIOUS
  <2> HIDE DEF more
  <2>3. \A i \in 1..(k + 1) : ReadsAt(f, more, i) = ReadsAt(f, reads, i)
    <3> SUFFICES ASSUME NEW i \in 1..(k + 1)
                 PROVE  ReadsAt(f, more, i) = ReadsAt(f, reads, i)
      OBVIOUS
    <3>1. CASE i = 1
      BY <3>1 DEF ReadsAt
    <3>2. CASE i # 1
      <4>1. i - 1 \in 1..k
        BY <3>2
      <4>2. more[i - 1] = reads[i - 1]
        BY <2>2, <4>1
      <4> QED BY <4>2 DEF ReadsAt
    <3> QED BY <3>1, <3>2
  <2>4. \A i \in 1..(k + 1) : i = k + 1 \/ i \in 1..k
    OBVIOUS
  <2> QED BY <2>1, <2>2, <2>3, <2>4
<1>3. Ok(n)
  <2>1. Nat \subseteq P
    <3>1. \A k \in Nat : k \in P => k + 1 \in P
      BY <1>2
    <3> HIDE DEF P
    <3> QED BY <1>1, <3>1, InductionOverNat
  <2> QED BY <2>1
<1>4. PICK reads : \A i \in 1..n : reads[i] = ReadsAt(f, reads, i)
  BY <1>3
<1> DEFINE only == [i \in 1..n |-> reads[i]]
<1>5. \A i \in 1..n : ReadsAt(f, only, i) = ReadsAt(f, reads, i)
  <2> SUFFICES ASSUME NEW i \in 1..n PROVE ReadsAt(f, only, i) = ReadsAt(f, reads, i)
    OBVIOUS
  <2>1. i # 1 => i - 1 \in 1..n
    OBVIOUS
  <2>2. i # 1 => only[i - 1] = reads[i - 1]
    BY <2>1
  <2> HIDE DEF only
  <2> QED BY <2>2 DEF ReadsAt
<1>6. only = [i \in 1..n |-> ReadsAt(f, only, i)]
  <2>1. \A i \in 1..n : only[i] = ReadsAt(f, only, i)
    BY <1>4, <1>5
  <2>2. only = [i \in 1..n |-> only[i]]
    OBVIOUS
  <2> HIDE DEF only
  <2> QED BY <2>1, <2>2
<1> HIDE DEF only
<1> QED BY <1>6

\* What the loop finds from line i on, given what it finds further on.
FindsAt(f, rest, i) ==
    IF i > Len(f) THEN FALSE
    ELSE IF ~StartsInterface(f[i]) THEN rest[i + 1]
    ELSE (i < Len(f) /\ StartsRange(f[i + 1])) \/ rest[i + 2]

\* It depends on the next two lines only.
LEMMA FindsAtLocal ==
    ASSUME NEW f, NEW n \in Nat, Len(f) = n, NEW rest, NEW more, NEW i \in 1..(n + 2),
           \A j \in 1..(n + 2) : j > i => more[j] = rest[j]
    PROVE  FindsAt(f, more, i) = FindsAt(f, rest, i)
<1>1. CASE i > n
  BY <1>1 DEF FindsAt
<1>2. CASE i <= n
  <2>1. i + 1 \in 1..(n + 2) /\ i + 2 \in 1..(n + 2) /\ i + 1 > i /\ i + 2 > i
    BY <1>2
  <2>2. more[i + 1] = rest[i + 1] /\ more[i + 2] = rest[i + 2]
    BY <2>1
  <2> QED BY <2>2 DEF FindsAt
<1> QED BY <1>1, <1>2

\* The function that stopLoop defines exists.
LEMMA RestExists ==
    ASSUME NEW f, NEW n \in Nat, Len(f) = n
    PROVE  \E rest : rest = [i \in 1..(n + 2) |-> FindsAt(f, rest, i)]
<1> DEFINE Ok(k) == \E rest : \A i \in 1..(n + 2) : i + k > n + 2 => rest[i] = FindsAt(f, rest, i)
           P == {k \in Nat : Ok(k)}
<1>1. 0 \in P
  <2>1. \A i \in 1..(n + 2) : ~(i + 0 > n + 2)
    OBVIOUS
  <2>2. Ok(0)
    BY <2>1
  <2> QED BY <2>2
<1>2. ASSUME NEW k \in Nat, Ok(k) PROVE Ok(k + 1)
  <2>1. PICK rest : \A i \in 1..(n + 2) : i + k > n + 2 => rest[i] = FindsAt(f, rest, i)
    BY <1>2
  <2> DEFINE more == [i \in 1..(n + 2) |->
                        IF i + k = n + 2 THEN FindsAt(f, rest, i) ELSE rest[i]]
  <2>2. \A i \in 1..(n + 2) :
          more[i] = IF i + k = n + 2 THEN FindsAt(f, rest, i) ELSE rest[i]
    OBVIOUS
  <2> HIDE DEF more
  <2>3. ASSUME NEW i \in 1..(n + 2), i + (k + 1) > n + 2 PROVE more[i] = FindsAt(f, more, i)
    <3>1. i + k = n + 2 \/ i + k > n + 2
      BY <2>3
    <3>2. \A j \in 1..(n + 2) : j > i => j + k # n + 2
      BY <3>1
    <3>3. FindsAt(f, more, i) = FindsAt(f, rest, i)
      BY <2>2, <3>2, FindsAtLocal
    <3>4. more[i] = FindsAt(f, rest, i)
      BY <2>1, <2>2, <3>1
    <3> QED BY <3>3, <3>4
  <2> QED BY <2>3
<1>3. Ok(n + 2)
  <2> HIDE DEF Ok
  <2>1. Nat \subseteq P
    <3>1. \A k \in Nat : k \in P => k + 1 \in P
      BY <1>2
    <3> HIDE DEF P
    <3> QED BY <1>1, <3>1, InductionOverNat
  <2>2. n + 2 \in P
    BY <2>1
  <2> QED BY <2>2
<1>4. PICK rest : \A i \in 1..(n + 2) : rest[i] = FindsAt(f, rest, i)
  <2>1. \A i \in 1..(n + 2) : i + (n + 2) > n + 2
    OBVIOUS
  <2> QED BY <1>3, <2>1
<1> DEFINE only == [i \in 1..(n + 2) |-> rest[i]]
<1>5. ASSUME NEW i \in 1..(n + 2) PROVE only[i] = FindsAt(f, only, i)
  <2>1. \A j \in 1..(n + 2) : only[j] = rest[j]
    OBVIOUS
  <2> HIDE DEF only
  <2>2. FindsAt(f, only, i) = FindsAt(f, rest, i)
    BY <2>1, FindsAtLocal
  <2> QED BY <1>4, <2>1, <2>2
<1>6. only = [i \in 1..(n + 2) |-> FindsAt(f, only, i)]
  <2>1. only = [i \in 1..(n + 2) |-> only[i]]
    OBVIOUS
  <2> HIDE DEF only
  <2> QED BY <1>5, <2>1
<1> HIDE DEF only
<1> QED BY <1>6

\* The closed form of dhcpServerStop's scan is what its loop finds, for any file.
THEOREM StopScanLoop ==
    ASSUME NEW S, NEW f \in Seq(S)
    PROVE  StopFindsInterface(f) = stopLoop(f)
<1> DEFINE n == Len(f)
           outer == CHOOSE reads : reads = [i \in 1..n |-> ReadsAt(f, reads, i)]
           rest == CHOOSE found : found = [i \in 1..(n + 2) |-> FindsAt(f, found, i)]
           Takes(j) == outer[j] /\ StartsInterface(f[j]) /\ j < n /\ StartsRange(f[j + 1])
           Found(i) == \E j \in i..n : Takes(j)
<1>1. n \in Nat
  OBVIOUS
<1>2. StopFindsInterface(f) <=> Found(1)
  BY DEF StopFindsInterface, ReadByLoop, ReadsAt
<1>3. stopLoop(f) = rest[1]
  BY DEF stopLoop, FindsAt
<1>4. outer = [i \in 1..n |-> ReadsAt(f, outer, i)]
  <2> HIDE DEF n
  <2> QED BY <1>1, ReadsExists
<1>5. rest = [i \in 1..(n + 2) |-> FindsAt(f, rest, i)]
  <2>1. \E found : found = [i \in 1..(n + 2) |-> FindsAt(f, found, i)]
    BY <1>1, RestExists
  <2> HIDE DEF n
  <2> QED BY <2>1
<1> HIDE DEF outer, rest
<1>6. /\ \A i \in 1..n : outer[i] = ReadsAt(f, outer, i)
      /\ \A i \in 1..(n + 2) : rest[i] = FindsAt(f, rest, i)
  BY <1>4, <1>5
<1> DEFINE Agrees(i) == (i <= n => outer[i]) => rest[i] \in BOOLEAN /\ (rest[i] <=> Found(i))
           P == {k \in Nat : \A i \in 1..(n + 2) : i + k >= n + 2 => Agrees(i)}
<1>7. 0 \in P
  <2> SUFFICES ASSUME NEW i \in 1..(n + 2), i + 0 >= n + 2 PROVE Agrees(i)
    OBVIOUS
  <2>1. i > n /\ i..n = {}
    BY <1>1
  <2>2. rest[i] = FALSE
    BY <1>6, <2>1 DEF FindsAt
  <2>3. ~Found(i)
    BY <2>1
  <2> HIDE DEF Found
  <2> QED BY <2>2, <2>3
<1>8. ASSUME NEW k \in Nat, k \in P PROVE k + 1 \in P
  <2> SUFFICES ASSUME NEW i \in 1..(n + 2), i + (k + 1) >= n + 2, i <= n => outer[i]
               PROVE  rest[i] \in BOOLEAN /\ (rest[i] <=> Found(i))
    BY DEF Agrees
  <2>0. \A j \in 1..(n + 2) : j > i => Agrees(j)
    <3>1. \A j \in 1..(n + 2) : j > i => j + k >= n + 2
      BY <1>1
    <3> HIDE DEF Agrees
    <3> QED BY <1>8, <3>1
  <2>a. rest[i] = FindsAt(f, rest, i)
    BY <1>6
  <2>1. CASE i > n
    <3>1. i..n = {} /\ rest[i] = FALSE
      <4>1. FindsAt(f, rest, i) = FALSE
        BY <2>1 DEF FindsAt
      <4>2. i..n = {}
        BY <1>1, <2>1
      <4> QED BY <2>a, <4>1, <4>2
    <3>2. ~Found(i)
      BY <3>1
    <3> HIDE DEF Found
    <3> QED BY <3>1, <3>2
  <2>2. CASE i <= n /\ ~StartsInterface(f[i])
    <3>1. rest[i] = rest[i + 1]
      <4>0. ~(i > Len(f)) /\ ~StartsInterface(f[i])
        BY <1>1, <2>2
      <4>1. FindsAt(f, rest, i) = rest[i + 1]
        BY <4>0, Zenon DEF FindsAt
      <4> QED BY <2>a, <4>1
    <3>2. i + 1 \in 1..(n + 2) /\ i + 1 > i
      BY <1>1, <2>2
    <3>3. i + 1 <= n => outer[i + 1]
      <4>1. i + 1 <= n => i + 1 \in 1..n /\ (i + 1) - 1 = i
        BY <1>1
      <4> QED BY <1>6, <2>2, <4>1 DEF ReadsAt
    <3>4. Agrees(i + 1)
      BY <2>0, <3>2
    <3>5. \A j \in i..n : j = i \/ j \in (i + 1)..n
      BY <1>1
    <3>6. (i + 1)..n \subseteq i..n
      BY <1>1
    <3>7. Found(i) <=> Found(i + 1)
      BY <2>2, <3>5, <3>6
    <3> HIDE DEF Found
    <3> QED BY <3>1, <3>3, <3>4, <3>7
  <2>3. CASE i <= n /\ StartsInterface(f[i])
    <3>1. rest[i] = ((i < n /\ StartsRange(f[i + 1])) \/ rest[i + 2])
      <4>0. ~(i > Len(f)) /\ StartsInterface(f[i])
        BY <1>1, <2>3
      <4>1. FindsAt(f, rest, i) = ((i < n /\ StartsRange(f[i + 1])) \/ rest[i + 2])
        BY <4>0, Zenon DEF FindsAt
      <4> QED BY <2>a, <4>1
    <3>2. i + 2 \in 1..(n + 2) /\ i + 2 > i
      BY <1>1, <2>3
    <3>3. i + 1 <= n => ~outer[i + 1]
      <4>1. i + 1 <= n => i + 1 \in 1..n /\ (i + 1) - 1 = i /\ i + 1 # 1
        BY <1>1
      <4> QED BY <1>6, <2>3, <4>1 DEF ReadsAt
    <3>4. i + 2 <= n => outer[i + 2]
      <4>1. i + 2 <= n => i + 2 \in 1..n /\ (i + 2) - 1 = i + 1 /\ i + 1 <= n
        BY <1>1
      <4> QED BY <1>6, <3>3, <4>1 DEF ReadsAt
    <3>5. Agrees(i + 2)
      BY <2>0, <3>2
    <3>6. \A j \in i..n : j = i \/ (j = i + 1 /\ i + 1 <= n) \/ j \in (i + 2)..n
      BY <1>1
    <3>7. (i + 2)..n \subseteq i..n /\ i \in i..n
      BY <1>1, <2>3
    <3>8. Takes(i) <=> i < n /\ StartsRange(f[i + 1])
      BY <2>3
    <3>9. i + 1 <= n => ~Takes(i + 1)
      BY <3>3
    <3>10. Found(i) <=> Takes(i) \/ Found(i + 2)
      <4> HIDE DEF Takes
      <4> QED BY <3>6, <3>7, <3>9
    <3> HIDE DEF Found, Takes
    <3> QED BY <3>1, <3>4, <3>5, <3>8, <3>10
  <2> QED BY <1>1, <2>1, <2>2, <2>3
<1>9. rest[1] \in BOOLEAN /\ (rest[1] <=> Found(1))
  <2>1. Nat \subseteq P
    <3> HIDE DEF P
    <3> QED BY <1>7, <1>8, InductionOverNat
  <2>2. n + 1 \in P /\ 1 \in 1..(n + 2) /\ 1 + (n + 1) >= n + 2
    <3> HIDE DEF P
    <3> QED BY <1>1, <2>1
  <2>3. Agrees(1)
    <3> HIDE DEF Agrees
    <3> QED BY <2>2
  <2>4. 1 <= n => outer[1]
    <3>1. ReadsAt(f, outer, 1)
      BY DEF ReadsAt
    <3>2. 1 <= n => 1 \in 1..n
      BY <1>1
    <3> QED BY <1>6, <3>1, <3>2
  <2> HIDE DEF Found
  <2> QED BY <2>3, <2>4
<1>10. StopFindsInterface(f) \in BOOLEAN
  BY DEF StopFindsInterface
<1> HIDE DEF Found
<1> QED BY <1>2, <1>3, <1>9, <1>10, Zenon

\* On every file and however often it is edited.
THEOREM StopScanIsItsLoopAlways == Spec => []StopScanIsItsLoop
<1>1. EditsInv => StopScanIsItsLoop
  BY StopScanLoop DEF EditsInv, StopScanIsItsLoop
<1> QED BY <1>1, EditsAlways, PTL

-----------------------------------------------------------------------------
(* dns_only's loop, which FoldLeft runs from the greatest index of a set of *)
(* lines downwards.                                                         *)

Nothing == [out |-> << >>, iter |-> 0]

FoldsTo(f, fold, s) ==
    IF s = {} THEN Nothing ELSE CommentLine(fold[s \ {Max(s)}], f[Max(s)])

\* The greatest line of a set of lines that has it.
LEMMA GreatestLine ==
    ASSUME NEW k \in Nat, NEW s \in SUBSET (1..(k + 1)), k + 1 \in s
    PROVE  Max(s) = k + 1
<1>1. \A y \in s : k + 1 >= y
  OBVIOUS
<1>2. \A x \in s : (\A y \in s : x >= y) => x = k + 1
  <2> SUFFICES ASSUME NEW x \in s, \A y \in s : x >= y PROVE x = k + 1
    OBVIOUS
  <2>1. x >= k + 1 /\ k + 1 >= x /\ x \in Nat
    OBVIOUS
  <2> QED BY <2>1
<1> QED BY <1>1, <1>2 DEF Max

\* The function that the fold defines exists.
LEMMA FoldExists ==
    ASSUME NEW f, NEW n \in Nat
    PROVE  \E fold : fold = [s \in SUBSET (1..n) |-> FoldsTo(f, fold, s)]
<1> DEFINE Ok(k) == \E fold : \A s \in SUBSET (1..k) : fold[s] = FoldsTo(f, fold, s)
           P == {k \in Nat : Ok(k)}
<1>1. Ok(0)
  <2>1. \A fold, s : s \in SUBSET (1..0) => FoldsTo(f, fold, s) = Nothing
    BY DEF FoldsTo
  <2>2. \A s \in SUBSET (1..0) : [t \in SUBSET (1..0) |-> Nothing][s] = Nothing
    OBVIOUS
  <2> DEFINE none == [t \in SUBSET (1..0) |-> Nothing]
  <2> HIDE DEF none
  <2>3. \A s \in SUBSET (1..0) : none[s] = FoldsTo(f, none, s)
    BY <2>1, <2>2 DEF none
  <2> QED BY <2>3
<1>2. ASSUME NEW k \in Nat, Ok(k) PROVE Ok(k + 1)
  <2>1. PICK fold : \A s \in SUBSET (1..k) : fold[s] = FoldsTo(f, fold, s)
    BY <1>2
  <2> DEFINE more == [s \in SUBSET (1..(k + 1)) |->
                        IF k + 1 \in s THEN CommentLine(fold[s \ {k + 1}], f[k + 1])
                                       ELSE fold[s]]
  <2>2. \A s \in SUBSET (1..(k + 1)) :
          more[s] = IF k + 1 \in s THEN CommentLine(fold[s \ {k + 1}], f[k + 1]) ELSE fold[s]
    OBVIOUS
  <2>3. \A s \in SUBSET (1..(k + 1)) : k + 1 \notin s => s \in SUBSET (1..k)
    OBVIOUS
  <2>4. \A s \in SUBSET (1..k) : s \in SUBSET (1..(k + 1)) /\ k + 1 \notin s
    OBVIOUS
  <2> HIDE DEF more
  <2>5. \A s \in SUBSET (1..k) : more[s] = fold[s]
    BY <2>2, <2>4
  <2>6. ASSUME NEW s \in SUBSET (1..(k + 1)) PROVE more[s] = FoldsTo(f, more, s)
    <3>1. CASE k + 1 \in s
      <4>1. s # {} /\ Max(s) = k + 1 /\ s \ {k + 1} \in SUBSET (1..k)
        BY <3>1, GreatestLine
      <4>2. more[s \ {k + 1}] = fold[s \ {k + 1}]
        BY <2>5, <4>1
      <4> QED BY <2>2, <3>1, <4>1, <4>2 DEF FoldsTo
    <3>2. CASE k + 1 \notin s
      <4>1. s \in SUBSET (1..k) /\ s \ {Max(s)} \in SUBSET (1..k)
        BY <2>3, <3>2
      <4>2. more[s] = fold[s] /\ more[s \ {Max(s)}] = fold[s \ {Max(s)}]
        BY <2>5, <4>1
      <4> QED BY <2>1, <4>1, <4>2 DEF FoldsTo
    <3> QED BY <3>1, <3>2
  <2> QED BY <2>6
<1>3. Ok(n)
  <2> HIDE DEF Ok
  <2>1. 0 \in P /\ \A k \in Nat : k \in P => k + 1 \in P
    BY <1>1, <1>2
  <2>2. Nat \subseteq P
    <3> HIDE DEF P
    <3> QED BY <2>1, InductionOverNat
  <2> QED BY <2>2
<1>4. PICK fold : \A s \in SUBSET (1..n) : fold[s] = FoldsTo(f, fold, s)
  BY <1>3
<1> DEFINE only == [s \in SUBSET (1..n) |-> fold[s]]
<1>5. \A s \in SUBSET (1..n) : only[s] = fold[s]
  OBVIOUS
<1>6. only = [s \in SUBSET (1..n) |-> only[s]]
  OBVIOUS
<1> HIDE DEF only
<1>7. \A s \in SUBSET (1..n) : only[s] = FoldsTo(f, only, s)
  <2> SUFFICES ASSUME NEW s \in SUBSET (1..n) PROVE only[s] = FoldsTo(f, only, s)
    OBVIOUS
  <2>1. s \ {Max(s)} \in SUBSET (1..n)
    OBVIOUS
  <2>2. only[s \ {Max(s)}] = fold[s \ {Max(s)}]
    BY <1>5, <2>1
  <2> QED BY <1>4, <1>5, <2>2 DEF FoldsTo
<1>8. only = [s \in SUBSET (1..n) |-> FoldsTo(f, only, s)]
  BY <1>6, <1>7
<1> QED BY <1>8

\* iter counts the interfaces before a line, up to two.
LEMMA IterCounts ==
    ASSUME NEW f, NEW k \in Nat
    PROVE  /\ Iter(f, 1) = 0
           /\ Iter(f, k + 1) \in 0..2
           /\ Iter(f, k + 2) = IF HasInterface(f[k + 1]) /\ Iter(f, k + 1) < 2
                               THEN Iter(f, k + 1) + 1 ELSE Iter(f, k + 1)
<1> DEFINE T(i) == {j \in 1..(i - 1) : HasInterface(f[j])}
<1>1. ASSUME NEW i \in Nat PROVE IsFiniteSet(T(i)) /\ Cardinality(T(i)) \in Nat
  <2>1. IsFiniteSet(1..(i - 1))
    BY FS_Interval
  <2>2. IsFiniteSet(T(i))
    BY <2>1, FS_Subset
  <2> HIDE DEF T
  <2> QED BY <2>2, FS_CardinalityType
<1>2. \A i : Iter(f, i) = IF Cardinality(T(i)) < 2 THEN Cardinality(T(i)) ELSE 2
  BY DEF Iter
<1>3. T(1) = {}
  OBVIOUS
<1>4. HasInterface(f[k + 1]) => T(k + 2) = T(k + 1) \cup {k + 1}
  OBVIOUS
<1>5. ~HasInterface(f[k + 1]) => T(k + 2) = T(k + 1)
  <2> SUFFICES ASSUME ~HasInterface(f[k + 1]) PROVE T(k + 2) = T(k + 1)
    OBVIOUS
  <2>1. \A j : j \in 1..((k + 2) - 1) <=> j \in 1..((k + 1) - 1) \/ j = k + 1
    OBVIOUS
  <2> QED BY <2>1
<1>6. k + 1 \notin T(k + 1)
  OBVIOUS
<1> HIDE DEF T
<1>7. HasInterface(f[k + 1]) => Cardinality(T(k + 2)) = Cardinality(T(k + 1)) + 1
  BY <1>1, <1>4, <1>6, FS_AddElement
<1>8. Cardinality(T(1)) = 0
  BY <1>3, FS_EmptySet
<1>9. Cardinality(T(k + 1)) \in Nat
  BY <1>1
<1> DEFINE m == Cardinality(T(k + 1))
<1>10. /\ Iter(f, 1) = 0
       /\ Iter(f, k + 1) = IF m < 2 THEN m ELSE 2
       /\ HasInterface(f[k + 1]) => Iter(f, k + 2) = IF m + 1 < 2 THEN m + 1 ELSE 2
       /\ ~HasInterface(f[k + 1]) => Iter(f, k + 2) = Iter(f, k + 1)
  BY <1>2, <1>5, <1>7, <1>8
<1> HIDE DEF m
<1>11. m \in Nat
  BY <1>9 DEF m
<1> QED BY <1>10, <1>11

\* One pass of the loop, as a record.
LEMMA OnePass ==
    ASSUME NEW out, NEW iter, NEW line
    PROVE  CommentLine([out |-> out, iter |-> iter], line)
             = [out |-> Append(out, IF \/ HasInterface(line) /\ iter < 2
                                       \/ HasRange(line) /\ iter < 3
                                    THEN Comment(line) ELSE line),
                iter |-> IF HasInterface(line) /\ iter < 2 THEN iter + 1 ELSE iter]
<1> DEFINE acc == [out |-> out, iter |-> iter]
<1>1. /\ acc.out = out /\ acc.iter = iter
      /\ \A x : [acc EXCEPT !.out = Append(@, x)] = [out |-> Append(out, x), iter |-> iter]
  OBVIOUS
<1> HIDE DEF acc
<1>2. CASE HasInterface(line) /\ iter < 2
  BY <1>1, <1>2 DEF CommentLine, acc
<1>3. CASE ~(HasInterface(line) /\ iter < 2) /\ HasRange(line) /\ iter < 3
  BY <1>1, <1>3 DEF CommentLine, acc
<1>4. CASE ~(HasInterface(line) /\ iter < 2) /\ ~(HasRange(line) /\ iter < 3)
  BY <1>1, <1>4 DEF CommentLine, acc
<1> QED BY <1>2, <1>3, <1>4

\* A file and one line more.
LEMMA OneLineMore ==
    ASSUME NEW f \in Seq(Line), NEW k \in 0..(Len(f) - 1)
    PROVE  Append([i \in 1..k |-> f[i]], f[k + 1]) = [i \in 1..(k + 1) |-> f[i]]
<1> DEFINE s == [i \in 1..k |-> f[i]]
           t == [i \in 1..(k + 1) |-> f[i]]
<1>1. k \in Nat /\ k + 1 \in Nat /\ k + 1 \in 1..Len(f)
  OBVIOUS
<1>2. \A i \in 1..Len(f) : f[i] \in Line
  OBVIOUS
<1>3. s \in [1..k -> Line] /\ t \in [1..(k + 1) -> Line]
  BY <1>1, <1>2
<1>4. /\ \A i \in 1..k : s[i] = f[i]
      /\ \A i \in 1..(k + 1) : t[i] = f[i]
  OBVIOUS
<1> HIDE DEF s, t
<1>5. s \in Seq(Line) /\ t \in Seq(Line) /\ Len(s) = k /\ Len(t) = k + 1
  <2>1. s \in Seq(Line) /\ t \in Seq(Line)
    BY <1>1, <1>3, FunctionIsSeq
  <2>2. DOMAIN s = 1..k /\ DOMAIN t = 1..(k + 1)
    BY <1>3
  <2> QED BY <1>1, <2>1, <2>2
<1>6. /\ Append(s, f[k + 1]) \in Seq(Line) /\ Len(Append(s, f[k + 1])) = k + 1
      /\ Append(s, f[k + 1])[k + 1] = f[k + 1]
      /\ \A i \in 1..k : Append(s, f[k + 1])[i] = s[i]
  BY <1>1, <1>2, <1>5
<1>7. \A i \in 1..(k + 1) : Append(s, f[k + 1])[i] = t[i]
  BY <1>1, <1>4, <1>6
<1>8. Append(s, f[k + 1]) = t
  BY <1>1, <1>5, <1>6, <1>7, SameElements
<1> QED BY <1>8 DEF s, t

\* The closed form of dns_only is what its loop writes, for any file: after k
\* passes the loop has written the first k lines and counted their interfaces.
THEOREM DnsOnlyLoop ==
    ASSUME NEW f \in Seq(Line)
    PROVE  dns_only(f) = dns_onlyLoop(f)
<1> DEFINE n == Len(f)
           g == dns_only(f)
           fold == CHOOSE it : it = [s \in SUBSET (1..n) |-> FoldsTo(f, it, s)]
           State(k) == [out |-> [i \in 1..k |-> g[i]], iter |-> Iter(f, k + 1)]
           P == {k \in Nat : k <= n => fold[1..k] = State(k)}
<1>1. n \in Nat /\ DOMAIN f = 1..n
  OBVIOUS
<1>2. dns_onlyLoop(f) = fold[1..n].out
  <2>1. dns_onlyLoop(f)
          = (CHOOSE it : it = [s \in SUBSET DOMAIN f |->
                                 IF s = {} THEN [out |-> << >>, iter |-> 0]
                                 ELSE CommentLine(it[s \ {Max(s)}], f[Max(s)])])[DOMAIN f].out
    BY DEF dns_onlyLoop, FoldLeft, MapThenFoldSet
  <2> QED BY <1>1, <2>1 DEF FoldsTo, Nothing
<1>3. fold = [s \in SUBSET (1..n) |-> FoldsTo(f, fold, s)]
  <2>1. \E it : it = [s \in SUBSET (1..n) |-> FoldsTo(f, it, s)]
    BY <1>1, FoldExists
  <2> HIDE DEF n
  <2> QED BY <2>1
<1> HIDE DEF fold
<1>4. \A s \in SUBSET (1..n) : fold[s] = FoldsTo(f, fold, s)
  BY <1>3
<1>5. g \in Seq(Line) /\ Len(g) = n
  BY DnsOnlyLines
<1>6. 0 \in P
  <2>1. fold[1..0] = Nothing
    <3>1. 1..0 \in SUBSET (1..n) /\ 1..0 = {}
      OBVIOUS
    <3> QED BY <1>4, <3>1 DEF FoldsTo
  <2>2. Iter(f, 0 + 1) = 0
    BY IterCounts
  <2>3. [i \in 1..0 |-> g[i]] = << >>
    <3> HIDE DEF g
    <3> QED OBVIOUS
  <2> HIDE DEF g
  <2> QED BY <2>1, <2>2, <2>3 DEF Nothing
<1>7. ASSUME NEW k \in Nat, k \in P PROVE k + 1 \in P
  <2> SUFFICES ASSUME k + 1 <= n PROVE fold[1..(k + 1)] = State(k + 1)
    OBVIOUS
  <2>1. fold[1..k] = State(k)
    BY <1>1, <1>7
  <2>2. fold[1..(k + 1)] = CommentLine(fold[1..k], f[k + 1])
    <3>1. 1..(k + 1) \in SUBSET (1..n) /\ k + 1 \in 1..(k + 1) /\ 1..(k + 1) # {}
      <4>1. k + 1 \in 1..(k + 1)
        OBVIOUS
      <4>2. \A i \in 1..(k + 1) : i \in 1..n
        BY <1>1
      <4> QED BY <4>1, <4>2
    <3>2. (1..(k + 1)) \ {k + 1} = 1..k
      OBVIOUS
    <3>3. Max(1..(k + 1)) = k + 1
      BY <3>1, GreatestLine
    <3> QED BY <1>4, <3>1, <3>2, <3>3 DEF FoldsTo
  <2>3. g[k + 1] = IF \/ HasInterface(f[k + 1]) /\ Iter(f, k + 1) < 2
                      \/ HasRange(f[k + 1]) /\ Iter(f, k + 1) < 3
                   THEN Comment(f[k + 1]) ELSE f[k + 1]
    <3>1. k + 1 \in 1..Len(f)
      BY <1>1
    <3> QED BY <3>1 DEF dns_only
  <2>4. Append([i \in 1..k |-> g[i]], g[k + 1]) = [i \in 1..(k + 1) |-> g[i]]
    <3>1. k \in 0..(Len(g) - 1)
      BY <1>1, <1>5
    <3> HIDE DEF g
    <3> QED BY <1>5, <3>1, OneLineMore
  <2>5. Iter(f, (k + 1) + 1) = IF HasInterface(f[k + 1]) /\ Iter(f, k + 1) < 2
                               THEN Iter(f, k + 1) + 1 ELSE Iter(f, k + 1)
    <3>1. (k + 1) + 1 = k + 2
      OBVIOUS
    <3> QED BY <3>1, IterCounts
  <2> HIDE DEF g
  <2>6. CommentLine(State(k), f[k + 1])
          = [out |-> Append([i \in 1..k |-> g[i]], g[k + 1]), iter |-> Iter(f, (k + 1) + 1)]
    BY <2>3, <2>5, OnePass
  <2> QED BY <2>1, <2>2, <2>4, <2>6
<1>8. fold[1..n] = State(n)
  <2>1. Nat \subseteq P
    <3> HIDE DEF P
    <3> QED BY <1>6, <1>7, InductionOverNat
  <2> QED BY <1>1, <2>1
<1>9. [i \in 1..n |-> g[i]] = g
  <2>1. DOMAIN g = 1..n /\ g = [i \in DOMAIN g |-> g[i]]
    BY DEF dns_only
  <2> HIDE DEF g
  <2> QED BY <2>1
<1> QED BY <1>2, <1>8, <1>9

\* On every file and however often it is edited.
THEOREM DnsOnlyIsItsLoopAlways == Spec => []DnsOnlyIsItsLoop
<1>1. EditsInv => DnsOnlyIsItsLoop
  BY DnsOnlyLoop DEF EditsInv, DnsOnlyIsItsLoop
<1> QED BY <1>1, EditsAlways, PTL
=============================================================================
