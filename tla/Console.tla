------------------------------ MODULE Console -------------------------------
(***************************************************************************)
(* lib/pexpect_utils.py, PexpectHelper: a script that talks to a console.  *)
(* Everything the other side prints is read into one buffer, in chunks of  *)
(* any size, and logged; an expect() ends at the earliest text that one of *)
(* its patterns matches, and bug patterns compete with what is waited for. *)
(*                                                                         *)
(* The state and the steps of one helper; a module that extends this one   *)
(* says what is sent when and what an expect() leads to.                   *)
(***************************************************************************)
EXTENDS Integers, Sequences

CONSTANT MaxNoise    \* bound on the kernel messages printed, for TLC

ASSUME NoiseAssumption == MaxNoise \in Nat

VARIABLES
    child,          \* none, alive, eof (exited, output still to be read), gone
    prompt_stack,   \* prompts, the innermost last
    bug_patterns,   \* whether expect() looks for them
    waiting,        \* the expect() in progress
    owed,           \* what the other side is going to print, in order
    buffer,         \* read and not matched yet
    log,            \* the log file: messages read, ignore markers sent
    skipped         \* which expects read past a bug; history only

consoleVars == <<child, prompt_stack, bug_patterns, waiting, owed, buffer, log, skipped>>

(* What matters in the output: a message that a bug pattern matches, one   *)
(* that the log filter matches, one that both match; the prompts of the    *)
(* shells ("home" and "away" are one shell in two directories); answers.   *)
Bugs == {"bug", "oops"}
Noise == Bugs \cup {"warning"}
Shells == {"home", "away", "xmon"}
Answers == {"freeing", "login", "password", "release", "not ok", "(qemu)"}
Items == Noise \cup Shells \cup Answers
Markers == {"ignore", "detect"}

(* A prompt pattern and the prompts it matches. *)
PromptMatches(p) == IF p = "anywhere" THEN {"home", "away"} ELSE {p}
Prompt == prompt_stack[Len(prompt_stack)]

Idle == [want |-> {}, eof |-> FALSE, bugs |-> FALSE, timed |-> FALSE, who |-> "nobody"]

ConsoleInit ==
    /\ child = "none"
    /\ prompt_stack = <<>>
    /\ bug_patterns = TRUE
    /\ waiting = Idle
    /\ owed = <<>>
    /\ buffer = <<>>
    /\ log = <<>>
    /\ skipped = {}

(* expect() as it is called: the patterns, whether bug patterns are added, *)
(* whether there is a timeout.                                             *)
Expect(who, want, bugs, timed) ==
    waiting' = [want |-> want, eof |-> FALSE, bugs |-> bugs, timed |-> timed, who |-> who]

(* wait_for_exit(): nothing but the end of the output is waited for. *)
WaitForExit(who, timed) ==
    waiting' = [want |-> {}, eof |-> TRUE, bugs |-> FALSE, timed |-> timed, who |-> who]

PushPrompt(p) == prompt_stack' = Append(prompt_stack, p)
PopPrompt == prompt_stack' = SubSeq(prompt_stack, 1, Len(prompt_stack) - 1)

-----------------------------------------------------------------------------
(* The other side. *)

NoiseCount == Len(SelectSeq(log, LAMBDA x : x \in Noise))

PrintNoise(k) ==
    /\ waiting # Idle
    /\ child = "alive"
    /\ NoiseCount < MaxNoise
    /\ buffer' = Append(buffer, k)
    /\ log' = Append(log, k)
    /\ UNCHANGED <<child, prompt_stack, bug_patterns, waiting, owed, skipped>>

PrintAnswer ==
    /\ waiting # Idle
    /\ child = "alive"
    /\ owed # <<>>
    /\ buffer' = Append(buffer, Head(owed))
    /\ owed' = Tail(owed)
    /\ UNCHANGED <<child, prompt_stack, bug_patterns, waiting, log, skipped>>

Exits ==
    /\ waiting # Idle
    /\ child = "alive"
    /\ child' = "eof"
    /\ UNCHANGED <<prompt_stack, bug_patterns, waiting, owed, buffer, log, skipped>>

-----------------------------------------------------------------------------
(* How an expect() ends. *)

(* Definitions named ...Defect are not part of the model. *)
RelevantDefect(i) == buffer[i] \in waiting.want
Relevant(i) == buffer[i] \in waiting.want \/ (waiting.bugs /\ buffer[i] \in Bugs)
Quiet == \A i \in DOMAIN buffer : ~Relevant(i)
FirstIs(n) == Relevant(n) /\ \A i \in 1..(n - 1) : ~Relevant(i)

Skips(n) == IF \E i \in 1..n : buffer[i] \in Bugs THEN {waiting} ELSE {}

(* The earliest match is one of the patterns of the caller. *)
Matched(n) ==
    /\ FirstIs(n)
    /\ buffer[n] \in waiting.want
    /\ buffer' = SubSeq(buffer, n + 1, Len(buffer))
    /\ skipped' = skipped \cup Skips(n)

(* The earliest match is a bug pattern: drain, terminate, raise. *)
BugSeen(n) ==
    /\ FirstIs(n)
    /\ buffer[n] \notin waiting.want
    /\ buffer' = <<>>
    /\ waiting' = Idle
    /\ child' = "gone"
    /\ UNCHANGED <<prompt_stack, bug_patterns, owed, log, skipped>>

TimedOut ==
    /\ waiting # Idle
    /\ waiting.timed
    /\ Quiet
    /\ child = "alive"
    /\ waiting' = Idle
    /\ child' = "gone"
    /\ UNCHANGED <<prompt_stack, bug_patterns, owed, buffer, log, skipped>>

(* pexpect.EOF in an expect() that does not wait for it. *)
SawEof ==
    /\ waiting # Idle
    /\ ~waiting.eof
    /\ Quiet
    /\ child = "eof"
    /\ waiting' = Idle
    /\ child' = "gone"
    /\ UNCHANGED <<prompt_stack, bug_patterns, owed, buffer, log, skipped>>

ExitSeen ==
    /\ waiting.eof
    /\ child = "eof"
    /\ waiting' = Idle
    /\ child' = "gone"
    /\ buffer' = <<>>
    /\ skipped' = skipped \cup Skips(Len(buffer))
    /\ UNCHANGED <<prompt_stack, bug_patterns, owed, log>>

=============================================================================
