-------------------------- MODULE LogFilterProofs --------------------------
(***************************************************************************)
(* The scan of filter_log_warnings() agrees with the declarative reading   *)
(* of its markers, for a log of any length.                                *)
(***************************************************************************)
EXTENDS LogFilter, SequenceTheorems, TLAPS

(* One more line leaves the windows of the lines before it as they were,   *)
(* and is itself ignored exactly when the scan says so.                    *)
LEMMA OneMoreLine ==
    ASSUME TypeOK, IgnoringIsWindow, NEW l \in Line, log' = Append(log, l),
           NEW n \in Nat, n = Len(log)
    PROVE  /\ log' \in Seq(Line) /\ Len(log') = n + 1 /\ n \in Nat
           /\ log'[n + 1] = l
           /\ \A i \in 1..n :
                  log'[i] = log[i] /\ (InWindow(log', i) <=> InWindow(log, i))
           /\ InWindow(log', n + 1) <=> Ignores(ignoring, l)
<1> DEFINE m == n + 1
<1>1. /\ log' \in Seq(Line) /\ Len(log') = m /\ n \in Nat
      /\ log'[m] = l /\ \A i \in 1..n : log'[i] = log[i]
    BY AppendProperties, LenProperties DEF TypeOK
<1>2. ASSUME NEW i \in 1..n PROVE InWindow(log', i) <=> InWindow(log, i)
  <2>1. \A k \in 1..i : k \in 1..n /\ log'[k] = log[k]
      BY <1>1, <1>2
  <2>2. \A s \in 1..i : \A k \in s..i : k \in 1..i
      BY <1>1, <1>2
  <2> QED BY <2>1, <2>2 DEF InWindow
<1>3. ASSUME Ignores(ignoring, l) PROVE InWindow(log', m)
  <2>1. ~l.stop /\ (ignoring \/ l.start)
      BY <1>3 DEF Ignores
  <2>2. CASE l.start
    <3>1. m \in 1..m /\ m..m = {m}
        BY <1>1
    <3> QED BY <3>1, <2>1, <2>2, <1>1 DEF InWindow
  <2>3. CASE ignoring
    <3>1. n > 0 /\ InWindow(log, n)
        BY <2>3 DEF IgnoringIsWindow
    <3>2. PICK s \in 1..n : log[s].start /\ \A k \in s..n : ~log[k].stop
        BY <3>1 DEF InWindow
    <3>3. s \in 1..m /\ log'[s].start
        BY <3>2, <1>1
    <3>4. ASSUME NEW k \in s..m PROVE ~log'[k].stop
      <4>1. k \in s..n \/ k = m
          BY <1>1, <3>2
      <4>2. \A j \in s..n : j \in 1..n
          BY <1>1, <3>2
      <4> QED BY <4>1, <4>2, <3>2, <2>1, <1>1
    <3> QED BY <3>3, <3>4 DEF InWindow
  <2> QED BY <2>1, <2>2, <2>3
<1>4. ASSUME InWindow(log', m) PROVE Ignores(ignoring, l)
  <2>1. PICK s \in 1..m : log'[s].start /\ \A k \in s..m : ~log'[k].stop
      BY <1>4 DEF InWindow
  <2>2. ~l.stop
      BY <2>1, <1>1
  <2>3. CASE s = m
      BY <2>1, <2>2, <2>3, <1>1 DEF Ignores
  <2>4. CASE s # m
    <3>1. s \in 1..n /\ n > 0 /\ \A k \in s..n : k \in s..m /\ k \in 1..n
        BY <2>4, <1>1
    <3>2. n \in 1..n
        BY <3>1, <1>1
    <3>3. log[s].start /\ \A k \in s..n : ~log[k].stop
        BY <2>1, <3>1, <1>1
    <3>4. InWindow(log, n)
        BY <3>1, <3>3 DEF InWindow
    <3> QED BY <3>1, <3>4, <2>2 DEF IgnoringIsWindow, Ignores
  <2> QED BY <2>3, <2>4
<1> QED BY <1>1, <1>2, <1>3, <1>4

LEMMA InitInv == Init => IndInv
<1> SUFFICES ASSUME Init PROVE IndInv
    OBVIOUS
<1>1. Len(log) = 0 /\ 1..0 = {}
    BY EmptySeq DEF Init
<1>2. TypeOK
    BY EmptySeq DEF Init, TypeOK
<1>3. IgnoringIsWindow /\ VerdictIsReference
    BY <1>1 DEF Init, IgnoringIsWindow, VerdictIsReference
<1> QED BY <1>2, <1>3 DEF IndInv

LEMMA ReadLineInv ==
    ASSUME NEW l \in Line PROVE IndInv /\ ReadLine(l) => IndInv'
<1> SUFFICES ASSUME IndInv, ReadLine(l) PROVE IndInv'
    OBVIOUS
<1>0. log' = Append(log, l) /\ TypeOK /\ IgnoringIsWindow /\ VerdictIsReference
    BY DEF ReadLine, IndInv
<1>n. PICK n \in Nat : n = Len(log)
    BY <1>0, LenProperties DEF TypeOK
<1>1. /\ log' \in Seq(Line) /\ Len(log') = n + 1 /\ n \in Nat
      /\ log'[n + 1] = l
      /\ \A i \in 1..n :
             log'[i] = log[i] /\ (InWindow(log', i) <=> InWindow(log, i))
      /\ InWindow(log', n + 1) <=> Ignores(ignoring, l)
    BY <1>0, <1>n, OneMoreLine
<1>2. /\ ignoring' = Ignores(ignoring, l) /\ eof' = eof
      /\ found' = (found \/ Reports(ignoring, l))
    BY <1>0 DEF ReadLine, TypeOK, Reports, Line
<1>3. written' \in Seq(Nat)
  <2>1. Copies(l) \in Seq(Nat)
    <3>1. l.hits \in Nat /\ n + 1 \in Nat
        BY <1>1, BoundsAssumption DEF Line
    <3>2. Copies(l) \in [1..l.hits -> Nat]
        BY <3>1, <1>n DEF Copies
    <3> QED BY <3>1, <3>2, SeqDef
  <2>2. written \o Copies(l) \in Seq(Nat)
      BY <1>0, <2>1, ConcatProperties DEF TypeOK
  <2> QED BY <1>0, <2>2 DEF ReadLine, TypeOK
<1>4. TypeOK'
    BY <1>0, <1>1, <1>2, <1>3 DEF TypeOK, Ignores, Reports, Line
<1>5. IgnoringIsWindow'
    BY <1>n, <1>1, <1>2 DEF IgnoringIsWindow
<1>6. VerdictIsReference'
  <2>1. \A i \in 1..n : Reportable(log', i) <=> Reportable(log, i)
      BY <1>1 DEF Reportable
  <2>2. Reportable(log', n + 1) <=> Reports(ignoring, l)
      BY <1>1 DEF Reportable, Reports
  <2>3. \A i \in 1..(n + 1) : i \in 1..n \/ i = n + 1
      BY <1>1
  <2>4. n + 1 \in 1..(n + 1) /\ \A i \in 1..n : i \in 1..(n + 1)
      BY <1>1
  <2>5. found <=> \E i \in 1..n : Reportable(log, i)
      BY <1>0, <1>n DEF VerdictIsReference
  <2>6. found' <=> \E i \in 1..(n + 1) : Reportable(log', i)
      BY <1>2, <2>1, <2>2, <2>3, <2>4, <2>5
  <2> QED BY <1>1, <2>6 DEF VerdictIsReference
<1> QED BY <1>4, <1>5, <1>6 DEF IndInv

LEMMA NextInv == IndInv /\ [Next]_vars => IndInv'
<1> SUFFICES ASSUME IndInv, [Next]_vars PROVE IndInv'
    OBVIOUS
<1>1. CASE \E l \in Line : ReadLine(l)
    BY <1>1, ReadLineInv
<1>2. CASE ReadEof \/ Finished \/ UNCHANGED vars
  <2>1. UNCHANGED <<log, ignoring, found, written>> /\ eof' \in BOOLEAN
      BY <1>2 DEF ReadEof, Finished, vars, IndInv, TypeOK
  <2>2. TypeOK'
      BY <2>1 DEF IndInv, TypeOK
  <2>3. IgnoringIsWindow' /\ VerdictIsReference'
      BY <2>1 DEF IndInv, IgnoringIsWindow, VerdictIsReference
  <2> QED BY <2>2, <2>3 DEF IndInv
<1> QED BY <1>1, <1>2 DEF Next

(* The inductive invariant of filter_log_warnings(), after any number of   *)
(* lines.                                                                  *)
THEOREM ScanInvariant == Spec => []IndInv
BY InitInv, NextInv, PTL DEF Spec

(* filter_log_warnings() returns what its markers and patterns mean. *)
THEOREM ScanIsReference == Spec => []VerdictIsReference
<1>1. IndInv => VerdictIsReference
    BY DEF IndInv
<1> QED BY <1>1, ScanInvariant, PTL

(* Where a line is added to the log, so are its copies to outfile, at the  *)
(* end; whether an earlier line is reportable does not change.             *)
LEMMA ReadLineWritten ==
    ASSUME NEW l \in Line PROVE IndInv /\ WrittenIsReference /\ ReadLine(l) => WrittenIsReference'
<1> SUFFICES ASSUME IndInv, WrittenIsReference, ReadLine(l) PROVE WrittenIsReference'
    OBVIOUS
<1>0. log' = Append(log, l) /\ TypeOK /\ IgnoringIsWindow
    BY DEF ReadLine, IndInv
<1>n. PICK n \in Nat : n = Len(log)
    BY <1>0, LenProperties DEF TypeOK
<1>w. PICK w \in Nat : w = Len(written)
    BY <1>0, LenProperties DEF TypeOK
<1>1. /\ Len(log') = n + 1
      /\ log'[n + 1] = l
      /\ \A i \in 1..n :
             log'[i] = log[i] /\ (InWindow(log', i) <=> InWindow(log, i))
      /\ InWindow(log', n + 1) <=> Ignores(ignoring, l)
    BY <1>0, <1>n, OneMoreLine
<1>2. \A i \in 1..n : Reportable(log', i) <=> Reportable(log, i)
    BY <1>1 DEF Reportable
<1>3. Reportable(log', n + 1) <=> Reports(ignoring, l)
    BY <1>1 DEF Reportable, Reports
<1>4. /\ {written[i] : i \in 1..w} = {i \in 1..n : Reportable(log, i)}
      /\ \A i, k \in 1..w : i <= k => written[i] <= written[k]
      /\ found <=> w > 0
  <2>1. written # <<>> <=> w > 0
      BY <1>0, <1>w, EmptySeq DEF TypeOK
  <2> QED BY <1>n, <1>w, <2>1 DEF WrittenIsReference
<1>5. \A i \in 1..w : written[i] \in 1..n
    BY <1>4
<1>6. CASE ~Reports(ignoring, l)
  <2>1. found' = found /\ written' = written
      BY <1>6 DEF ReadLine
  <2>2. {i \in 1..(n + 1) : Reportable(log', i)} = {i \in 1..n : Reportable(log, i)}
    <3>1. \A i \in 1..(n + 1) : i \in 1..n \/ i = n + 1
        OBVIOUS
    <3> QED BY <3>1, <1>2, <1>3, <1>6
  <2>3. written # <<>> <=> w > 0
      BY <1>0, <1>w, EmptySeq DEF TypeOK
  <2> QED BY <2>1, <2>2, <2>3, <1>1, <1>4, <1>w DEF WrittenIsReference
<1>7. CASE Reports(ignoring, l)
  <2>h. PICK h \in Nat : h = l.hits /\ h > 0
      BY <1>7, BoundsAssumption DEF Line, Reports
  <2>1. found' = TRUE /\ written' = written \o Copies(l)
      BY <1>7 DEF ReadLine
  <2>2. Copies(l) \in Seq(Nat) /\ Len(Copies(l)) = h /\ \A i \in 1..h : Copies(l)[i] = n + 1
    <3>1. Copies(l) = [i \in 1..h |-> n + 1]
        BY <1>n, <2>h DEF Copies
    <3>2. [i \in 1..h |-> n + 1] \in [1..h -> Nat]
        OBVIOUS
    <3>3. DOMAIN Copies(l) = 1..h /\ Copies(l) \in Seq(Nat)
        BY <3>1, <3>2, SeqDef
    <3> QED BY <3>1, <3>3, LenProperties
  <2>3. /\ written' \in Seq(Nat) /\ Len(written') = w + h
        /\ \A i \in 1..w : written'[i] = written[i]
        /\ \A i \in (w + 1)..(w + h) : written'[i] = n + 1
    <3>1. written \in Seq(Nat)
        BY <1>0 DEF TypeOK
    <3>2. /\ written' \in Seq(Nat) /\ Len(written') = w + h
          /\ \A i \in 1..(w + h) :
                 written'[i] = IF i <= w THEN written[i] ELSE Copies(l)[i - w]
        BY <2>1, <2>2, <3>1, <1>w, ConcatProperties
    <3>3. \A i \in (w + 1)..(w + h) : i - w \in 1..h /\ ~(i <= w) /\ i \in 1..(w + h)
        OBVIOUS
    <3>4. \A i \in 1..w : i <= w /\ i \in 1..(w + h)
        OBVIOUS
    <3> QED BY <2>2, <3>2, <3>3, <3>4
  <2>4. \A i \in 1..(w + h) : i \in 1..w \/ i \in (w + 1)..(w + h)
      OBVIOUS
  <2>5. \A i \in 1..(n + 1) : i \in 1..n \/ i = n + 1
      OBVIOUS
  <2>6. {written'[i] : i \in 1..(w + h)} = {i \in 1..(n + 1) : Reportable(log', i)}
    <3>1. ASSUME NEW i \in 1..(w + h)
          PROVE written'[i] \in 1..(n + 1) /\ Reportable(log', written'[i])
      <4>1. CASE i \in 1..w
        <5>1. written'[i] = written[i] /\ written[i] \in 1..n /\ Reportable(log, written[i])
            BY <4>1, <2>3, <1>4
        <5> QED BY <5>1, <1>2
      <4>2. CASE i \in (w + 1)..(w + h)
          BY <4>2, <2>3, <1>3, <1>7
      <4> QED BY <4>1, <4>2, <2>4
    <3>2. ASSUME NEW j \in 1..(n + 1), Reportable(log', j)
          PROVE \E i \in 1..(w + h) : written'[i] = j
      <4>1. CASE j \in 1..n
        <5>1. j \in {written[i] : i \in 1..w}
            BY <4>1, <3>2, <1>2, <1>4
        <5>2. PICK i \in 1..w : written[i] = j
            BY <5>1
        <5> QED BY <5>2, <2>3
      <4>2. CASE j = n + 1
        <5>1. w + 1 \in (w + 1)..(w + h) /\ w + 1 \in 1..(w + h)
            BY <2>h
        <5> QED BY <4>2, <5>1, <2>3
      <4> QED BY <4>1, <4>2, <2>5
    <3> QED BY <3>1, <3>2
  <2>7. ASSUME NEW i \in 1..(w + h), NEW k \in 1..(w + h), i <= k
        PROVE written'[i] <= written'[k]
    <3>1. CASE i \in 1..w /\ k \in 1..w
        BY <3>1, <2>7, <2>3, <1>4
    <3>2. CASE i \in 1..w /\ k \in (w + 1)..(w + h)
        BY <3>2, <2>3, <1>5
    <3>3. CASE i \in (w + 1)..(w + h) /\ k \in (w + 1)..(w + h)
        BY <3>3, <2>3
    <3> QED BY <3>1, <3>2, <3>3, <2>4, <2>7
  <2>8. written' # <<>>
      BY <2>3, <2>h, EmptySeq
  <2> QED BY <2>1, <2>3, <2>6, <2>7, <2>8, <1>1 DEF WrittenIsReference
<1> QED BY <1>6, <1>7

(* warnings.txt holds the reportable lines and no other, in log order. *)
THEOREM WrittenLinesAreReference == Spec => []WrittenIsReference
<1>1. Init => WrittenIsReference
  <2> SUFFICES ASSUME Init PROVE WrittenIsReference
      OBVIOUS
  <2>1. Len(log) = 0 /\ Len(written) = 0 /\ 1..0 = {} /\ written = <<>> /\ ~found
      BY EmptySeq DEF Init
  <2> QED BY <2>1 DEF WrittenIsReference
<1>2. IndInv /\ WrittenIsReference /\ [Next]_vars => WrittenIsReference'
  <2> SUFFICES ASSUME IndInv, WrittenIsReference, [Next]_vars PROVE WrittenIsReference'
      OBVIOUS
  <2>1. CASE \E l \in Line : ReadLine(l)
      BY <2>1, ReadLineWritten
  <2>2. CASE ReadEof \/ Finished \/ UNCHANGED vars
    <3>1. UNCHANGED <<log, found, written>>
        BY <2>2 DEF ReadEof, Finished, vars
    <3> QED BY <3>1 DEF WrittenIsReference
  <2> QED BY <2>1, <2>2 DEF Next
<1> QED BY <1>1, <1>2, ScanInvariant, PTL DEF Spec
=============================================================================
