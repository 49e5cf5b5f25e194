----------------------------- MODULE LogFilter -----------------------------
(***************************************************************************)
(* lib/utils.py, filter_log_warnings(): the verdict on a console log.      *)
(* Every boot and every remote selftest run ends with this one scan; the   *)
(* markers that ignore_warnings() (lib/pexpect_utils.py) puts around a     *)
(* test that provokes warnings switch the scan off and on.                 *)
(*                                                                         *)
(* A line is what the scan can tell of it: whether it carries a marker,    *)
(* whether a suppression of etc/filters.ini applies to it, and how many of *)
(* the strings and patterns match it.                                      *)
(***************************************************************************)
EXTENDS Integers, Sequences

CONSTANTS MaxHits,     \* most strings and patterns that match one line
          MaxLines     \* bound on the length of the log, for TLC

ASSUME BoundsAssumption == MaxHits \in Nat /\ MaxLines \in Nat

Line == [start : BOOLEAN, stop : BOOLEAN, suppressed : BOOLEAN, hits : 0..MaxHits]

VARIABLES log,         \* the lines read so far
          ignoring, found,
          written,     \* outfile: the numbers of the lines written to it
          eof          \* the end of the log was read

vars == <<log, ignoring, found, written, eof>>

Init ==
    /\ log = <<>>
    /\ ignoring = FALSE
    /\ found = FALSE
    /\ written = <<>>
    /\ eof = FALSE

(* Definitions named ...Defect are not part of the model: each is the next *)
(* definition with a plausible mistake, which the properties must tell     *)
(* from the code.                                                          *)
(* A stop marker wins over a start marker on the same line. *)
Ignores(was, l) == ~l.stop /\ (was \/ l.start)

Reports(was, l) == ~Ignores(was, l) /\ ~l.suppressed /\ l.hits > 0

CopiesDefect(l) == [i \in 1..l.hits |-> Len(log)]

(* `continue` ends the pass over one string, not over the line: a line is  *)
(* written once per string and pattern that matches it.                    *)
Copies(l) == [i \in 1..l.hits |-> Len(log) + 1]

ReadLine(l) ==
    /\ ~eof
    /\ Len(log) < MaxLines
    /\ log' = Append(log, l)
    /\ ignoring' = Ignores(ignoring, l)
    /\ IF Reports(ignoring, l)
       THEN found' = TRUE /\ written' = written \o Copies(l)
       ELSE UNCHANGED <<found, written>>
    /\ UNCHANGED eof

ReadEof ==
    /\ ~eof
    /\ eof' = TRUE
    /\ UNCHANGED <<log, ignoring, found, written>>

Finished == eof /\ UNCHANGED vars

Next == (\E l \in Line : ReadLine(l)) \/ ReadEof \/ Finished

Spec == Init /\ [][Next]_vars

-----------------------------------------------------------------------------
(* Every variable keeps its type. *)
TypeOK ==
    /\ log \in Seq(Line)
    /\ ignoring \in BOOLEAN
    /\ found \in BOOLEAN
    /\ written \in Seq(Nat)
    /\ eof \in BOOLEAN

(* What the markers mean, without the scan: line i of a log is ignored if  *)
(* some line up to it opens a window and no line from there to i closes    *)
(* one.                                                                    *)
InWindow(lines, i) ==
    \E s \in 1..i : lines[s].start /\ \A k \in s..i : ~lines[k].stop

Reportable(lines, i) ==
    lines[i].hits > 0 /\ ~lines[i].suppressed /\ ~InWindow(lines, i)

(* The verdict is that of the declarative reading: the log is bad exactly  *)
(* if it has a matching line that is neither suppressed nor in a window.   *)
(* A window that is never closed hides the rest of the log; a stop marker  *)
(* without a start, or a second start, changes nothing.                    *)
VerdictIsReference == found <=> \E i \in 1..Len(log) : Reportable(log, i)

(* warnings.txt holds the reportable lines and no other, in log order, and *)
(* is empty exactly when the log is good.                                  *)
WrittenIsReference ==
    /\ {written[i] : i \in 1..Len(written)} = {i \in 1..Len(log) : Reportable(log, i)}
    /\ \A i, k \in 1..Len(written) : i <= k => written[i] <= written[k]
    /\ found <=> written # <<>>

(* `ignoring` is membership of the last line in a window. *)
IgnoringIsWindow == ignoring <=> Len(log) > 0 /\ InWindow(log, Len(log))

IndInv == TypeOK /\ IgnoringIsWindow /\ VerdictIsReference
=============================================================================
