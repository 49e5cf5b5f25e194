---------------------------- MODULE QemuSession -----------------------------
(***************************************************************************)
(* lib/qemu.py, qemu_main(), from the configuration to the verdict, with   *)
(* the callbacks of lib/qemu_callbacks.py and the dialogues of             *)
(* lib/pexpect_utils.py.  Composes QemuConfig (what there is to do),       *)
(* Console (how it is talked about with the guest) and LogFilter (what the *)
(* log says in the end).                                                   *)
(*                                                                         *)
(* A session is a list of steps.  A step sends something, after which the  *)
(* guest owes an answer, and waits in an expect().                         *)
(***************************************************************************)
EXTENDS QemuConfig, Console

CONSTANT Sessions(_)    \* the other options considered with each, see SessionType

Callbacks == {"sh", "cat_debugfs", "check_config", "set_timeout", "kasan_kunit",
              "lkdtm", "selftests", "selftests_nocheck", "xmon"}
SessionType ==
    [callbacks : Seq(Callbacks), no_timeout : BOOLEAN, interactive : BOOLEAN,
     net_tests : BOOLEAN, monitor : BOOLEAN]

(* no_timeout: pexpect_timeout is 0, by --gdb or by --pexpect-timeout.     *)
ASSUME SessionsAssumption == \A a \in Args : Sessions(a) \subseteq SessionType

VARIABLES
    opts,
    todo,        \* steps still to be taken, the one in progress first
    alarm,       \* SIGALRM is scheduled
    guest,       \* what the guest is: its release and whether tests fail
    result       \* of qemu_main(); "raised": exception, "exit": SIGALRM

sessionVars == <<opts, todo, alarm, guest, result>>
vars == <<confVars, consoleVars, sessionVars>>

NoFilter == [start |-> FALSE, stop |-> FALSE, suppressed |-> FALSE, hits |-> 0]
LineOf(x) ==
    CASE x = "ignore" -> [NoFilter EXCEPT !.start = TRUE]
      [] x = "detect" -> [NoFilter EXCEPT !.stop = TRUE]
      [] x = "bug" -> NoFilter
      [] OTHER -> [NoFilter EXCEPT !.hits = 1]
Lines == [i \in DOMAIN log |-> LineOf(log[i])]

Scan == INSTANCE LogFilter
    WITH MaxHits <- 1, MaxLines <- 0, log <- Lines, ignoring <- FALSE,
         found <- FALSE, written <- <<>>, eof <- FALSE

-----------------------------------------------------------------------------
(* The steps of each callback. *)
Steps(c) ==
    CASE c = "sh" -> <<"long">>
      [] c = "cat_debugfs" -> <<"cmd", "no_alarm", "long">>
      [] c = "check_config" -> <<"cmd">>
      [] c = "set_timeout" -> <<"set_alarm">>
      [] c = "kasan_kunit" -> <<"ignore", "provoke", "detect">>
      [] c = "lkdtm" -> <<"cmd", "trigger">>
      [] c = "selftests" -> <<"no_alarm", "cmd", "run_selftests", "grep">>
      [] c = "selftests_nocheck" -> <<"no_alarm", "cmd", "run_selftests">>
      [] c = "xmon" -> <<"xmon", "cmd", "xmon_exit">>

AllCallbacks(cs) ==
    LET f[i \in 0..Len(cs)] == IF i = 0 THEN <<>> ELSE f[i - 1] \o Steps(cs[i])
    IN  f[Len(cs)]

(* create_test_instance() fails for a test without a test.py; test_args is *)
(* an attribute only if it was given.                                      *)
TestSteps ==
    CASE args.cloud = None -> <<"enter_test", "raise">>
      [] args.cloud # None /\ (args.test = "generic" \/ ~args.test_args) ->
            <<"enter_test", "cmd", "raise">>
      [] OTHER -> <<"enter_test", "cmd", "cmd">>

SessionPlan ==
    <<"boot", "release", "cmd">>
    \o When(Known("modules"), "cmd") \o When(Known("selftests"), "cmd")
    \o When(opts.net_tests, "cmd")
    \o (IF args.mounts > 0 THEN <<"no_alarm", "cmd", "long">> ELSE <<>>)
    \o <<"cmd">> \o TestSteps
    \o AllCallbacks(opts.callbacks)
    \o (IF opts.monitor THEN <<"monitor", "quit">> ELSE <<"poweroff">>)

Unbounded == {"long", "run_selftests"}
TimedStep(s) == ~opts.no_timeout /\ s \notin Unbounded

Init ==
    /\ ConfInit
    /\ ConsoleInit
    /\ opts \in Sessions(args)
    /\ todo = <<>>
    /\ alarm = FALSE
    /\ guest \in [release : {"expected", "longer", "other"}, tests_fail : BOOLEAN]
    /\ result = "open"

-----------------------------------------------------------------------------
Configuring ==
    /\ result = "open"
    /\ Configure
    /\ result' = CASE conf_phase' = "refused" -> "FALSE"
                   [] conf_phase' = "raised" -> "raised"
                   [] OTHER -> "open"
    /\ UNCHANGED <<consoleVars, opts, todo, alarm, guest>>

RunInteractively ==
    /\ conf_phase = "ready" /\ child = "none" /\ result = "open"
    /\ opts.interactive
    /\ args.test # None
    /\ result' \in {"TRUE", "FALSE"}
    /\ UNCHANGED <<confVars, consoleVars, opts, todo, alarm, guest>>

(* test_output_dir is read here too, and may be unset where the defaults   *)
(* were given up: see DefaultsRaise.                                       *)
InteractiveRaises ==
    /\ conf_phase = "ready" /\ child = "none" /\ result = "open"
    /\ opts.interactive
    /\ args.test = None
    /\ result' = "raised"
    /\ UNCHANGED <<confVars, consoleVars, opts, todo, alarm, guest>>

AlarmAtStartDefect == FALSE
(* setup_timeout(10 * pexpect_timeout): 0 sets no alarm. *)
AlarmAtStart == ~opts.no_timeout

Spawn ==
    /\ conf_phase = "ready" /\ child = "none" /\ result = "open"
    /\ ~opts.interactive
    /\ prompt # None
    /\ alarm' = AlarmAtStart
    /\ child' = "alive"
    /\ PushPrompt(prompt)
    /\ todo' = SessionPlan
    /\ owed' = IF args.cloud = None THEN <<"freeing", "home">> ELSE <<"freeing", "login">>
    /\ UNCHANGED <<confVars, bug_patterns, waiting, buffer, log, skipped, opts, guest, result>>

(* Without defaults boot_func is None, like the prompt: it is called right *)
(* after the guest was started, which ends with the script.                *)
SpawnRaises ==
    /\ conf_phase = "ready" /\ child = "none" /\ result = "open"
    /\ ~opts.interactive
    /\ prompt = None
    /\ alarm' = AlarmAtStart
    /\ child' = "gone"
    /\ PushPrompt(prompt)
    /\ result' = "raised"
    /\ UNCHANGED <<confVars, bug_patterns, waiting, owed, buffer, log, skipped, opts, todo, guest>>

(* An expect() of the session; `now` is the shell the guest is then in. *)
ExpectPrompt(s, now) ==
    /\ owed' = Append(owed, now)
    /\ Expect(s, PromptMatches(Prompt), bug_patterns, TimedStep(s))

(* The guest stays where it is; the console knows by the prompts it owes.  *)
Here == IF args.test # None /\ ~\E i \in DOMAIN todo : todo[i] = "enter_test"
        THEN "away" ELSE "home"

Ready(s) ==
    /\ result = "open"
    /\ waiting = Idle
    /\ todo # <<>>
    /\ Head(todo) = s

Silent == UNCHANGED <<confVars, child, buffer, skipped, opts, todo, guest, result>>

(* standard_boot(): the prompt, "login:" or a kernel message comes first. *)
Boot ==
    /\ Ready("boot")
    /\ Expect("boot", PromptMatches(Prompt) \cup {"login", "freeing"}, bug_patterns,
              TimedStep("boot"))
    /\ UNCHANGED <<owed, prompt_stack, bug_patterns, log, alarm>>
    /\ Silent

Login ==
    /\ Ready("login")
    /\ Expect("login", {"login"}, bug_patterns, TimedStep("login"))
    /\ UNCHANGED <<owed, prompt_stack, bug_patterns, log, alarm>>
    /\ Silent

SendUser ==
    /\ Ready("user")
    /\ owed' = Append(owed, "password")
    /\ Expect("user", {"password"}, bug_patterns, TimedStep("user"))
    /\ UNCHANGED <<prompt_stack, bug_patterns, log, alarm>>
    /\ Silent

BootPrompt ==
    /\ Ready("prompt")
    /\ Expect("prompt", PromptMatches(Prompt), bug_patterns, TimedStep("prompt"))
    /\ UNCHANGED <<owed, prompt_stack, bug_patterns, log, alarm>>
    /\ Silent

SendPassword ==
    /\ Ready("password")
    /\ ExpectPrompt("password", "home")
    /\ UNCHANGED <<prompt_stack, bug_patterns, log, alarm>>
    /\ Silent

(* The expected release is a regular expression that is searched for: any  *)
(* release that begins like it will do.                                    *)
ReleaseMatches == guest.release \in {"expected", "longer"}
CheckRelease ==
    /\ Ready("release")
    /\ owed' = owed \o When(ReleaseMatches, "release") \o <<"home">>
    /\ Expect("release", {"release"}, bug_patterns, TimedStep("release"))
    /\ UNCHANGED <<prompt_stack, bug_patterns, log, alarm>>
    /\ Silent

SendCmd ==
    /\ Ready("cmd")
    /\ ExpectPrompt("cmd", IF Prompt = "xmon" THEN "xmon" ELSE Here)
    /\ UNCHANGED <<prompt_stack, bug_patterns, log, alarm>>
    /\ Silent

(* A command without a timeout: sh(), cat_debugfs(), a host command. *)
SendLong ==
    /\ Ready("long")
    /\ ExpectPrompt("long", Here)
    /\ UNCHANGED <<prompt_stack, bug_patterns, log, alarm>>
    /\ Silent

(* cd into the test's directory: the prompt changes with it. *)
EnterTest ==
    /\ Ready("enter_test")
    /\ ExpectPrompt("enter_test", "away")
    /\ UNCHANGED <<prompt_stack, bug_patterns, log, alarm>>
    /\ Silent

ClearAlarm ==
    /\ Ready("no_alarm")
    /\ alarm' = FALSE
    /\ todo' = Tail(todo)
    /\ UNCHANGED <<confVars, consoleVars, opts, guest, result>>

(* set_timeout(): to any time, 0 for none. *)
SetAlarm ==
    /\ Ready("set_alarm")
    /\ alarm' \in BOOLEAN
    /\ todo' = Tail(todo)
    /\ UNCHANGED <<confVars, consoleVars, opts, guest, result>>

Raise ==
    /\ Ready("raise")
    /\ result' = "raised"
    /\ child' = "gone"
    /\ UNCHANGED <<confVars, prompt_stack, bug_patterns, waiting, owed, buffer, log, skipped, opts, todo, alarm, guest>>

(* lkdtm() and the selftests pass an empty list of bug patterns. *)
Trigger ==
    /\ Ready("trigger")
    /\ owed' = Append(owed, Here)
    /\ Expect("trigger", PromptMatches(Prompt), FALSE, TimedStep("trigger"))
    /\ UNCHANGED <<prompt_stack, bug_patterns, log, alarm>>
    /\ Silent

RunSelftests ==
    /\ Ready("run_selftests")
    /\ owed' = Append(owed, Here)
    /\ Expect("run_selftests", PromptMatches(Prompt), FALSE, FALSE)
    /\ UNCHANGED <<prompt_stack, bug_patterns, log, alarm>>
    /\ Silent

GrepNotOk ==
    /\ Ready("grep")
    /\ owed' = owed \o When(guest.tests_fail, "not ok") \o <<Here>>
    /\ Expect("grep", {"not ok"} \cup PromptMatches(Prompt), bug_patterns, TimedStep("grep"))
    /\ UNCHANGED <<prompt_stack, bug_patterns, log, alarm>>
    /\ Silent

(* ignore_warnings(): what is sent is logged at once, before what the      *)
(* guest may still print.                                                  *)
IgnoreWarnings ==
    /\ Ready("ignore")
    /\ log' = Append(log, "ignore")
    /\ ExpectPrompt("ignore", Here)
    /\ UNCHANGED <<prompt_stack, bug_patterns, alarm>>
    /\ Silent

Provoke ==
    /\ Ready("provoke")
    /\ bug_patterns' = FALSE
    /\ owed' = Append(owed, Here)
    /\ Expect("provoke", PromptMatches(Prompt), FALSE, TimedStep("provoke"))
    /\ UNCHANGED <<prompt_stack, log, alarm>>
    /\ Silent

(* Definitions named ...Defect are not part of the model. *)
DetectWarningsDefect ==
    /\ Ready("detect")
    /\ log' = Append(log, "detect")
    /\ ExpectPrompt("detect", Here)
    /\ UNCHANGED <<prompt_stack, bug_patterns, alarm>>
    /\ Silent

DetectWarnings ==
    /\ Ready("detect")
    /\ bug_patterns' = TRUE
    /\ log' = Append(log, "detect")
    /\ owed' = Append(owed, Here)
    /\ Expect("detect", PromptMatches(Prompt), TRUE, TimedStep("detect"))
    /\ UNCHANGED <<prompt_stack, alarm>>
    /\ Silent

XmonEnter ==
    /\ Ready("xmon")
    /\ PushPrompt("xmon")
    /\ owed' = Append(owed, "xmon")
    /\ Expect("xmon", {"xmon"}, bug_patterns, TimedStep("xmon"))
    /\ UNCHANGED <<bug_patterns, log, alarm>>
    /\ Silent

XmonExitDefect ==
    /\ Ready("xmon_exit")
    /\ owed' = Append(owed, Here)
    /\ Expect("xmon_exit", PromptMatches(prompt_stack[Len(prompt_stack) - 1]),
              bug_patterns, TimedStep("xmon_exit"))
    /\ UNCHANGED <<prompt_stack, bug_patterns, log, alarm>>
    /\ Silent

XmonExit ==
    /\ Ready("xmon_exit")
    /\ PopPrompt
    /\ owed' = Append(owed, Here)
    /\ Expect("xmon_exit", PromptMatches(prompt_stack[Len(prompt_stack) - 1]),
              bug_patterns, TimedStep("xmon_exit"))
    /\ UNCHANGED <<bug_patterns, log, alarm>>
    /\ Silent

Monitor ==
    /\ Ready("monitor")
    /\ owed' = Append(owed, "(qemu)")
    /\ Expect("monitor", {"(qemu)"}, bug_patterns, TimedStep("monitor"))
    /\ UNCHANGED <<prompt_stack, bug_patterns, log, alarm>>
    /\ Silent

Shutdown ==
    /\ Ready("poweroff") \/ Ready("quit")
    /\ WaitForExit("shutdown", ~opts.no_timeout)
    /\ UNCHANGED <<owed, prompt_stack, bug_patterns, log, alarm>>
    /\ Silent
-----------------------------------------------------------------------------
(* What an expect() that matched leads to. *)
LoginConfigured == args.cloud # None

(* standard_boot() after its first match. *)
AfterBoot(item) ==
    CASE LoginConfigured /\ item = "login" -> <<"user", "password">>
      [] LoginConfigured /\ item # "login" -> <<"login", "user", "password">>
      [] ~LoginConfigured /\ item \in PromptMatches(Prompt) -> <<>>
      [] OTHER -> <<"prompt">>

After(item) ==
    CASE Head(todo) = "boot" -> AfterBoot(item)
      [] Head(todo) = "release" -> <<"prompt">>
      [] OTHER -> <<>>

CheckFailsDefect(item) == FALSE
CheckFails(item) == Head(todo) = "grep" /\ item = "not ok"

Proceed ==
    /\ result = "open"
    /\ \E n \in DOMAIN buffer :
          /\ Matched(n)
          /\ ~CheckFails(buffer[n])
          /\ todo' = After(buffer[n]) \o Tail(todo)
    /\ waiting' = Idle
    /\ UNCHANGED <<confVars, child, prompt_stack, bug_patterns, owed, log, opts, alarm, guest, result>>

(* A callback that returns False: neither shutdown nor filter. *)
CallbackFails ==
    /\ result = "open"
    /\ \E n \in DOMAIN buffer : Matched(n) /\ CheckFails(buffer[n])
    /\ result' = "FALSE"
    /\ waiting' = Idle
    /\ child' = "gone"
    /\ UNCHANGED <<confVars, prompt_stack, bug_patterns, owed, log, opts, todo, alarm, guest>>

ExpectRaises ==
    /\ result = "open"
    /\ (\E n \in DOMAIN buffer : BugSeen(n)) \/ TimedOut \/ SawEof
    /\ result' = "raised"
    /\ UNCHANGED <<confVars, opts, todo, alarm, guest>>

(* The whole log is filtered once the guest is gone. *)
Verdict == IF \E i \in DOMAIN Lines : Scan!Reportable(Lines, i) THEN "FALSE" ELSE "TRUE"

Filter ==
    /\ result = "open"
    /\ ExitSeen
    /\ result' = Verdict
    /\ todo' = Tail(todo)
    /\ UNCHANGED <<confVars, opts, alarm, guest>>

(* SIGALRM: sys.exit(1), wherever the script is. *)
Alarm ==
    /\ result = "open"
    /\ alarm
    /\ alarm' = FALSE
    /\ result' = "exit"
    /\ child' = "gone"
    /\ UNCHANGED <<confVars, prompt_stack, bug_patterns, waiting, owed, buffer, log, skipped, opts, todo, guest>>

Send ==
    \/ Boot \/ Login \/ SendUser \/ BootPrompt \/ SendPassword \/ CheckRelease
    \/ SendCmd \/ SendLong \/ EnterTest \/ ClearAlarm \/ SetAlarm \/ Raise \/ Trigger
    \/ RunSelftests \/ GrepNotOk \/ IgnoreWarnings \/ Provoke \/ DetectWarnings
    \/ XmonEnter \/ XmonExit \/ Monitor \/ Shutdown

Script ==
    Configuring \/ Spawn \/ SpawnRaises \/ InteractiveRaises \/ Send \/ Proceed \/ CallbackFails \/ ExpectRaises \/ Filter

Guest ==
    /\ (\E k \in Noise : PrintNoise(k)) \/ PrintAnswer \/ Exits
    /\ UNCHANGED <<confVars, sessionVars>>

Finished == result # "open" /\ UNCHANGED vars

Next == Script \/ RunInteractively \/ Guest \/ Alarm \/ Finished

Spec == Init /\ [][Next]_vars

(* The script runs on and signals arrive; nothing is asked of the guest,   *)
(* and nothing of the user of an interactive session.                      *)
FairSpec == Spec /\ WF_vars(Script) /\ WF_vars(Alarm)

-----------------------------------------------------------------------------
BootedOk == result = "TRUE" /\ ~opts.interactive

(* No guest is talked to with an input missing: apply_defaults() does not  *)
(* tell its caller that it gave up, and qemu_main() does not test for all  *)
(* that it tests for, but where the emulator is started nevertheless the   *)
(* session fails before it has sent or read anything.                      *)
MissingInputNeverTested ==
    child \in {"alive", "eof"} \/ BootedOk =>
        /\ Known("release") /\ ~args.empty
        /\ Known("vmlinux") /\ args.root_disks /\ args.mounts_ok
        /\ prompt # None

(* A session that reports success hides nothing: a text of a bug pattern   *)
(* was read past only by the waits that are told not to look for them (a   *)
(* provoked warning, a selftest run, the end of the output), and every     *)
(* line of the log that the filter matches lies in an ignore window.       *)
SuccessIsClean ==
    BootedOk =>
        /\ \A w \in skipped :
              ~w.bugs /\ w.who \in {"provoke", "trigger", "run_selftests", "shutdown"}
        /\ \A i \in DOMAIN Lines : Lines[i].hits > 0 => Scan!InWindow(Lines, i)

(* A session that reports success ran everything it was asked to run, in   *)
(* the kernel it was asked to boot, and no selftest whose result is looked *)
(* at failed in it.                                                        *)
VerdictHonoursTests ==
    BootedOk =>
        /\ todo = <<>>
        /\ guest.release # "other"
        /\ "selftests" \in {opts.callbacks[i] : i \in DOMAIN opts.callbacks} => ~guest.tests_fail

(* Bug patterns are off only while the log is inside an ignore window: the *)
(* two ways of not seeing a warning agree at every moment of the session.  *)
PatternsOffOnlyInWindow ==
    result = "open" /\ ~bug_patterns =>
        log # <<>> /\ Scan!InWindow(Lines, Len(Lines))

(* In a session on an image whose prompt does not name the directory, the  *)
(* shell that answers next is one that the innermost prompt can match,     *)
(* whatever the callbacks pushed and popped: no wait for a prompt is in    *)
(* vain.  The prompts of other images name the home directory and are not  *)
(* printed in that of a test.                                              *)
PromptFollowsShell ==
    result = "open" /\ owed # <<>> /\ waiting # Idle /\ args.cloud = "ubuntu" =>
        (owed[Len(owed)] \in Shells => owed[Len(owed)] \in PromptMatches(Prompt))

(* Sessions in which a wait without limit may come while there is no alarm:*)
(* --gdb or --pexpect-timeout 0, host mounts, and callbacks that switch it *)
(* off before or at an unbounded wait.                                     *)
Unlimited ==
    \/ opts.no_timeout \/ opts.interactive \/ args.mounts > 0
    \/ \E i \in DOMAIN opts.callbacks : \E k \in 1..i :
          /\ \E s \in Unbounded : \E j \in DOMAIN Steps(opts.callbacks[i]) :
                Steps(opts.callbacks[i])[j] = s
          /\ \E j \in DOMAIN Steps(opts.callbacks[k]) :
                Steps(opts.callbacks[k])[j] \in {"no_alarm", "set_alarm"}

(* Every other session ends, whatever the guest does: prints, falls        *)
(* silent, hangs, dies or floods the console.                              *)
SessionsEnd == <>(result # "open" \/ Unlimited)
=============================================================================
