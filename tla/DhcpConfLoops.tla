---------------------------- MODULE DhcpConfLoops ----------------------------
(***************************************************************************)
(* The loops that read configuration files, line by line as the C code     *)
(* runs them, next to the closed forms of DhcpConf that the other modules  *)
(* use and prove about.  A small machine edits a file repeatedly with      *)
(* dns_only, as repeated stops do, so that the two are compared on every   *)
(* short file, not only on those dhcpServerInit can write.                 *)
(***************************************************************************)
EXTENDS DhcpConf

CONSTANTS
    FileLines,   \* the lines files are made of
    MaxLength,   \* bound: lines of a file
    MaxEdits,    \* bound: edits of a file
    Unread       \* what an unread line buffer may hold

ASSUME FileLinesAssumption == FileLines \subseteq Line /\ Unread # {}
ASSUME BoundsAssumption == MaxLength \in Nat /\ MaxEdits \in Nat

VARIABLES
    file,     \* the installed configuration
    before,   \* it as it was before the first edit
    edits

-----------------------------------------------------------------------------

\* dns_only's while loop: the lines written so far and iter.
CommentLine(acc, line) ==
    IF HasInterface(line) /\ acc.iter < 2
      THEN [out |-> Append(acc.out, Comment(line)), iter |-> acc.iter + 1]
      ELSE IF HasRange(line) /\ acc.iter < 3
             THEN [acc EXCEPT !.out = Append(@, Comment(line))]
             ELSE [acc EXCEPT !.out = Append(@, line)]
dns_onlyLoop(f) == FoldLeft(CommentLine, [out |-> << >>, iter |-> 0], f).out

\* compareFiles' while loop at its n-th pair of fgets calls: a buffer keeps its
\* content when fgets returns NULL, and the loop ends when both do.
compareLoop(f1, f2, stack1, stack2) ==
    LET n == Max({Len(f1), Len(f2)})
        fgets(f, i, buffer) == IF i <= Len(f) THEN f[i] ELSE buffer
        pass[i \in 0..n] ==
          IF i = 0
            THEN [buff1 |-> stack1, buff2 |-> stack2, same |-> TRUE]
            ELSE LET b1 == fgets(f1, i, pass[i - 1].buff1)
                     b2 == fgets(f2, i, pass[i - 1].buff2)
                 IN  [buff1 |-> b1, buff2 |-> b2, same |-> pass[i - 1].same /\ b1 = b2]
    IN  pass[n].same

\* dhcpServerStop's while loop without an interface list: rest[i] is
\* bInterfaceFound at the end when the loop goes on reading at line i.
stopLoop(f) ==
    LET rest[i \in 1..(Len(f) + 2)] ==
          IF i > Len(f) THEN FALSE
          ELSE IF ~StartsInterface(f[i]) THEN rest[i + 1]
          ELSE (i < Len(f) /\ StartsRange(f[i + 1])) \/ rest[i + 2]
    IN  rest[1]

-----------------------------------------------------------------------------

Init ==
    /\ file \in SeqOf(FileLines, MaxLength)
    /\ before = file
    /\ edits = 0

Edit ==
    /\ edits < MaxEdits
    /\ file' = dns_only(file)
    /\ edits' = edits + 1
    /\ UNCHANGED before

Spec == Init /\ [][Edit]_<< file, before, edits >>

-----------------------------------------------------------------------------

\* The closed form of dns_only is what its loop writes.
DnsOnlyIsItsLoop == dns_only(file) = dns_onlyLoop(file)

\* The closed form of compareFiles is what its loop returns, for every content
\* of the uninitialised buffers and for files of different lengths.
CompareIsItsLoop ==
    \A s1, s2 \in Unread, n \in 0..Len(before) :
        LET shorter == SubSeq(before, 1, n) IN
        /\ compareFiles(file, shorter, s1, s2) = compareLoop(file, shorter, s1, s2)
        /\ compareFiles(shorter, file, s1, s2) = compareLoop(shorter, file, s1, s2)

\* The closed form of dhcpServerStop's scan is what its loop finds: an interface
\* line swallows the line after it, another interface line included.
StopScanIsItsLoop == StopFindsInterface(file) = stopLoop(file)

\* Once edited, a file serves no range, and dhcpServerStop finds no interface to
\* stop in it.  A stop of an already stopped server therefore comes without the
\* restart that dhcpServerStop makes itself; Stopv4s goes on to dns_only all the
\* same, and for the '#' that it adds dhcpServerStart restarts dnsmasq once.
EditedIsSilent == edits > 0 => ActiveRanges(file) = {} /\ ~StopFindsInterface(file)

\* compareFiles tells an edited file from the file before the edits, and only
\* those with nothing to comment out are the same.
EditIsSeen ==
    \A s1, s2 \in Unread :
        compareFiles(before, file, s1, s2) <=>
            edits = 0 \/ \A i \in DOMAIN before : ~HasInterface(before[i]) /\ ~HasRange(before[i])
=============================================================================
