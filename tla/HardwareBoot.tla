---------------------------- MODULE HardwareBoot ----------------------------
(***************************************************************************)
(* lib/boot_utils.py: the boot of a real machine.  BasicBoot.boot()        *)
(* installs the image where the machine's firmware, or petitboot and       *)
(* kexec, will fetch it, has the machine reboot by ssh or power control,   *)
(* and then has only ssh to tell which system it is talking to: the one    *)
(* that was asked to reboot may still be up and answering.                 *)
(*                                                                         *)
(* The machine, its firmware and its network are the environment.          *)
(***************************************************************************)
EXTENDS Integers, Sequences

CONSTANTS
    Scripts,       \* the boot scripts considered, see ScriptType
    NumWaits,      \* of wait_for_ssh(), 30 in the code
    NetworkTries,  \* 29 in the code
    MaxText,       \* bound on the console's text that is not consumed
    MaxCrashes     \* bound on the reboots nobody asked for

(* no console and no power control; one of them may be missing; both *)
Xcats == {"NoXcat", "OzXcatSerial", "PpmXcat"}
ScriptType ==
    [powernv : BOOLEAN, xcat : Xcats, release_path : BOOLEAN, same_release : BOOLEAN]

ASSUME ScriptsAssumption ==
    /\ Scripts \subseteq ScriptType
    /\ NumWaits \in Nat \ {0} /\ NetworkTries \in Nat \ {0}
    /\ MaxText \in Nat /\ MaxCrashes \in Nat

VARIABLES
    script, phase,
    tries,         \* iterations of the loop the phase is in
    check,         \* of check_petitboot(): its step and its attempts so far
    has_console,
    console,       \* pexpect's buffer: what was received and not consumed
    coming,        \* printed and not yet received
    result

text == <<console, coming>>
scriptVars == <<script, phase, tries, check, has_console, text, result>>

VARIABLES
    machine,       \* off, down, menu (petitboot), skiroot, host, dead
    kernel,        \* the host's: previous, other (neither), image
    logged_in,     \* the host shows a shell on its console, left open
    young,         \* booted within check_uptime()'s threshold
    pending,       \* asked to reboot, still up
    kexeced,
    crashes,
    late_reboot    \* went down after its release was looked at; history

machineVars == <<machine, kernel, logged_in, young, pending, kexeced, crashes, late_reboot>>
vars == <<scriptVars, machineVars>>

Phases == {"rsync", "log_console", "power_state", "firmware", "ssh_reboot", "on", "reset",
           "drain", "petitboot", "network", "wget", "initrd", "kexec_s", "kexec_l", "kexec_e",
           "login", "wait", "uptime", "release", "modules", "callbacks", "dmesg", "kmsg",
           "close", "done"}
NoCheck == [step |-> "none", attempts |-> 0]

Init ==
    /\ script \in Scripts
    /\ phase = "rsync"
    /\ tries = 0
    /\ check = NoCheck
    /\ has_console = FALSE
    /\ console = <<>> /\ coming = <<>>
    /\ result = "open"
    /\ machine \in {"off", "host"} \cup (IF script.powernv THEN {"menu", "skiroot"} ELSE {})
    /\ kernel = "previous"
    /\ logged_in \in {FALSE, machine = "host"}
    /\ young \in BOOLEAN
    /\ pending = FALSE
    /\ kexeced = FALSE
    /\ crashes = 0
    /\ late_reboot = FALSE

-----------------------------------------------------------------------------
(* How a phase ends. *)
Go(next) == phase' = next /\ tries' = 0 /\ UNCHANGED result
Again == tries' = tries + 1 /\ UNCHANGED <<phase, result>>
Ends(r) == result' = r /\ phase' = "done" /\ UNCHANGED tries
Quiet == UNCHANGED <<check, has_console, text>>
Alone == UNCHANGED <<script, machineVars>>

(* run_ssh(): the command's status, or TimeoutExpired, which nobody        *)
(* catches.  Only a machine that is up answers.                            *)
SshOk == machine = "host"
Ssh(next) ==
    \/ SshOk /\ Go(next)
    \/ Ends("FALSE")
    \/ Ends("raised")

HostShell == machine = "host" /\ logged_in

(* What the machine prints when it is given a key, or gets there. *)
Screen(m) == CASE m = "menu" -> <<"menu">>
               [] m = "skiroot" \/ (m = "host" /\ logged_in) -> <<"shell">>
               [] m = "host" /\ ~logged_in -> <<"login">>
               [] OTHER -> <<>>

(* Only PowernvBoot reads the console, up to the login prompt.             *)
AfterLogin == {"wait", "uptime", "release", "modules", "callbacks", "dmesg", "kmsg", "close"}
Prints(output) ==
    coming' = IF /\ script.powernv /\ has_console /\ phase \notin AfterLogin
                 /\ Len(console) + Len(coming) + Len(output) <= MaxText
              THEN coming \o output ELSE coming

Rsync ==
    /\ phase = "rsync"
    /\ Go("log_console") \/ Ends("raised")
    /\ Quiet /\ Alone

(* OzXcatSerial goes on without a console when it has no password for it.  *)
(* The machine may be printing its screen when the console is attached.    *)
LogConsole ==
    /\ phase = "log_console"
    /\ \/ /\ Go("power_state")
          /\ has_console' = (script.xcat # "NoXcat")
          /\ coming' \in {<<>>} \cup (IF script.powernv /\ has_console' THEN {Screen(machine)}
                                     ELSE {})
       \/ /\ script.xcat = "OzXcatSerial" /\ Go("power_state")
          /\ has_console' = FALSE /\ UNCHANGED coming
       \/ script.xcat # "NoXcat" /\ Ends("raised") /\ UNCHANGED <<has_console, coming>>
    /\ UNCHANGED <<check, console>> /\ Alone

AfterReboot == IF script.powernv THEN "drain" ELSE "wait"

(* Where each answer of get_power_state() leads; None without power        *)
(* control or if it fails, which is treated as a machine to be reset, like *)
(* any other answer; one without a colon is an exception.                  *)
PowerState ==
    /\ phase = "power_state"
    /\ \/ /\ script.xcat # "NoXcat"
          /\ machine # "off"
          /\ Go(IF script.powernv THEN "firmware" ELSE "ssh_reboot")
          /\ check' = IF script.powernv THEN [step |-> "poke", attempts |-> 1] ELSE check
       \/ script.xcat # "NoXcat" /\ machine = "off" /\ Go("on") /\ UNCHANGED check
       \/ Go("reset") /\ UNCHANGED check
       \/ script.xcat = "OzXcatSerial" /\ Ends("raised") /\ UNCHANGED check
    /\ UNCHANGED <<has_console, text>> /\ Alone

(* reboot_host(): by at(1) or else sysrq.  It may report failure and the   *)
(* machine reboot all the same.                                            *)
RebootHost ==
    /\ phase = "ssh_reboot"
    /\ \/ SshOk /\ pending' = TRUE /\ Go(AfterReboot)
       \/ /\ Go("reset") \/ Ends("raised")
          /\ pending' \in {pending, SshOk}
    /\ Quiet
    /\ UNCHANGED <<script, machine, kernel, logged_in, young, kexeced, crashes, late_reboot>>

(* set_power_state("on") and ("reset"): failures are only logged. *)
SetPowerState ==
    /\ phase \in {"on", "reset"}
    /\ Go(AfterReboot)
    /\ \/ script.xcat # "NoXcat" /\ machine' = "down" /\ pending' = FALSE
       \/ UNCHANGED <<machine, pending>>
    /\ kexeced' = FALSE
    /\ Quiet /\ UNCHANGED <<script, kernel, logged_in, young, crashes, late_reboot>>

-----------------------------------------------------------------------------
(* check_petitboot(): three attempts to get from whatever the console      *)
(* shows to a shell prompt, then `hostname` tells whose prompt it is.      *)
(* Each wait looks for text in all of pexpect's buffer: an answer that     *)
(* came after the wait it was for is found by a later one, of this check   *)
(* or of the next, the machine having been reset in between or not.        *)
(* The pattern "# $" matches a prompt only at the end of the buffer: a     *)
(* prompt that is followed by anything matches nothing and is left out.    *)
FirstShown(i, screens) == console[i] \in screens /\ \A k \in 1..(i - 1) : console[k] \notin screens
Rest(i) == SubSeq(console, i + 1, Len(console))
Unseen(screens) == \A i \in DOMAIN console : console[i] \notin screens
Prompt == console # <<>> /\ console[Len(console)] = "shell"

Checking(step) == phase \in {"firmware", "petitboot"} /\ check.step = step
Step(s) == check' = [check EXCEPT !.step = s] /\ UNCHANGED <<phase, tries, result>>
(* Definitions named ...Defect are not part of the model. *)
NextAttemptDefect == Step("poke")
NextAttempt ==
    /\ check' = IF check.attempts < 3
                THEN [step |-> "poke", attempts |-> check.attempts + 1]
                ELSE [check EXCEPT !.step = "hostname"]
    /\ UNCHANGED <<phase, tries, result>>

(* What the callers make of it: already in firmware or to be rebooted;     *)
(* three calls after a reboot.                                             *)
Returns(found) ==
    CASE phase = "firmware" /\ found -> Go("drain") /\ check' = NoCheck
      [] phase = "firmware" /\ ~found -> Go("ssh_reboot") /\ check' = NoCheck
      [] phase = "petitboot" /\ found -> Go("network") /\ check' = NoCheck
      [] phase = "petitboot" /\ ~found /\ tries < 2 ->
            Again /\ check' = [step |-> "poke", attempts |-> 1]
      [] OTHER -> Ends("FALSE") /\ check' = NoCheck

(* Writing to a console that is gone, and the end of its output, which     *)
(* check_petitboot() does not wait for, are exceptions.                    *)
Poke ==
    /\ Checking("poke")
    /\ \/ has_console /\ Prints(Screen(machine)) /\ Step("look")
       \/ Ends("raised") /\ UNCHANGED <<check, coming>>
    /\ UNCHANGED <<has_console, console>> /\ Alone

Seen == {"menu", "shell", "login"}
Texts == Seen \cup {"skiroot"}
(* `x` leaves the menu for the shell; a shell answers with its prompt.     *)
Look ==
    /\ Checking("look")
    /\ \/ /\ \E i \in DOMAIN console :
                /\ FirstShown(i, Seen)
                /\ console[i] \in {"menu", "shell"}
                /\ console' = Rest(i)
                /\ machine' = IF machine = "menu" /\ console[i] = "menu" THEN "skiroot"
                              ELSE machine
          /\ Prints(Screen(machine'))
          /\ Step("prompt")
       \/ /\ \E i \in DOMAIN console :
                FirstShown(i, Seen) /\ console[i] = "login" /\ console' = Rest(i)
          /\ Returns(FALSE) /\ UNCHANGED <<coming, machine>>
       \/ Unseen(Seen) /\ NextAttempt /\ UNCHANGED <<text, machine>>
       \/ Ends("raised") /\ UNCHANGED <<check, text, machine>>
    /\ UNCHANGED <<script, has_console, kernel, logged_in, young, pending, kexeced, crashes,
                   late_reboot>>

ExpectShell ==
    /\ Checking("prompt")
    /\ \/ Prompt /\ console' = <<>> /\ Step("hostname")
       \/ ~Prompt /\ NextAttempt /\ UNCHANGED console
       \/ Ends("raised") /\ UNCHANGED <<check, console>>
    /\ UNCHANGED <<has_console, coming>> /\ Alone

(* Sent even if no prompt was seen. *)
SendHostname ==
    /\ Checking("hostname")
    /\ \/ /\ Prints(IF machine = "skiroot" THEN <<"skiroot", "shell">> ELSE Screen(machine))
          /\ Step("skiroot")
       \/ Ends("raised") /\ UNCHANGED <<check, coming>>
    /\ UNCHANGED <<has_console, console>> /\ Alone

HostnameDefect ==
    /\ Checking("skiroot")
    /\ Returns(TRUE)
    /\ UNCHANGED <<has_console, text>> /\ Alone
Hostname ==
    /\ Checking("skiroot")
    /\ \/ /\ \E i \in DOMAIN console : FirstShown(i, {"skiroot"}) /\ console' = Rest(i)
          /\ Returns(TRUE)
       \/ Unseen({"skiroot"}) /\ Returns(FALSE) /\ UNCHANGED console
       \/ Ends("raised") /\ UNCHANGED <<check, console>>
    /\ UNCHANGED <<has_console, coming>> /\ Alone

(* drain() waits for a timeout; what was read meanwhile stays in the       *)
(* buffer of pexpect, which only a match or the end of output empties.     *)
Drain ==
    /\ phase = "drain"
    /\ IF has_console
       THEN Go("petitboot") /\ check' = [step |-> "poke", attempts |-> 1]
       ELSE Ends("raised") /\ UNCHANGED check
    /\ UNCHANGED <<has_console, text>> /\ Alone

(* A command for the petitboot shell, whose outcome is read from what it   *)
(* prints: only a shell prints it.                                         *)
InShell(now, ends) ==
    /\ phase = now
    /\ ((machine = "skiroot" \/ HostShell) /\ ends) \/ Ends("FALSE") \/ Ends("raised")
    /\ Quiet /\ Alone

GetNetwork ==
    InShell("network", Go("wget") \/ (tries + 1 < NetworkTries /\ Again))
Wget == InShell("wget", Go("initrd"))
(* Without an initrd, if one was asked for and is not there. *)
WgetInitrd == InShell("initrd", Go("kexec_s"))
KexecLoad ==
    \/ InShell("kexec_s", Go("kexec_e") \/ Go("kexec_l"))
    \/ InShell("kexec_l", Go("kexec_e"))

(* It follows a prompt, so that nothing older is left in the buffer.       *)
KexecExec ==
    /\ phase = "kexec_e"
    /\ Go("login")
    /\ IF machine = "skiroot" \/ HostShell THEN machine' = "down" /\ kexeced' = TRUE
       ELSE UNCHANGED <<machine, kexeced>>
    /\ console' = <<>> /\ coming' = <<>>
    /\ UNCHANGED <<script, check, has_console, kernel, logged_in, young, pending, crashes,
                   late_reboot>>

(* The login prompt; or an oops, a file system to be checked, a timeout.   *)
AwaitLogin ==
    /\ phase = "login"
    /\ \/ /\ \E i \in DOMAIN console : FirstShown(i, {"login"}) /\ console' = Rest(i)
          /\ Go("wait")
       \/ (Ends("FALSE") \/ Ends("raised")) /\ UNCHANGED console
    /\ UNCHANGED <<check, has_console, coming>> /\ Alone

-----------------------------------------------------------------------------
WaitForSsh ==
    /\ phase = "wait"
    /\ \/ SshOk /\ Go("uptime")
       \/ tries + 1 < NumWaits /\ Again
       \/ tries > 0 /\ Ends("FALSE")
       \/ Ends("raised")
    /\ Quiet /\ Alone

CheckUptime ==
    /\ phase = "uptime"
    /\ (young /\ Ssh("release")) \/ Ends("FALSE") \/ Ends("raised")
    /\ Quiet /\ Alone

ReleaseMatches == kernel = "image" \/ script.same_release
CheckReleaseDefect == phase = "release" /\ Ssh("modules") /\ Quiet /\ Alone
(* Only if --release-path is given. *)
CheckRelease ==
    /\ phase = "release"
    /\ IF script.release_path
       THEN (ReleaseMatches /\ Ssh("modules")) \/ Ends("FALSE") \/ Ends("raised")
       ELSE Go("modules")
    /\ Quiet /\ Alone

(* The modules and the host commands, the callbacks, dmesg and its filter. *)
Modules == phase = "modules" /\ Ssh("callbacks") /\ Quiet /\ Alone
Callbacks == phase = "callbacks" /\ (Go("dmesg") \/ Ends("FALSE")) /\ Quiet /\ Alone
Dmesg == phase = "dmesg" /\ Ssh("kmsg") /\ Quiet /\ Alone
(* The outcome of this command is not looked at, unless it times out. *)
Kmsg == phase = "kmsg" /\ (Go("close") \/ Ends("raised")) /\ Quiet /\ Alone
CloseConsole ==
    /\ phase = "close"
    /\ \/ (has_console \/ script.xcat = "NoXcat") /\ Ends("TRUE")
       \/ script.xcat # "NoXcat" /\ Ends("raised")
    /\ Quiet /\ Alone

-----------------------------------------------------------------------------
(* The machine. *)
Passive == UNCHANGED <<script, phase, tries, check, has_console, result>>

Late == phase \in {"modules", "callbacks", "dmesg", "kmsg", "close"}
GoesDown ==
    /\ pending /\ machine = "host"
    /\ machine' = "down"
    /\ pending' = FALSE
    /\ late_reboot' = (late_reboot \/ Late)
    /\ Passive /\ UNCHANGED <<text, kernel, logged_in, young, kexeced, crashes>>

FirmwareUp ==
    /\ machine = "down" /\ script.powernv /\ ~kexeced
    /\ machine' = "menu"
    /\ Prints(<<"menu">>)
    /\ Passive
    /\ UNCHANGED <<console, kernel, logged_in, young, pending, kexeced, crashes, late_reboot>>

(* By kexec; by firmware, from the network or from disk; by petitboot,     *)
(* which boots what is on disk when its countdown ends.  Nobody logs in on *)
(* its console: the machine is reserved for the boot.                      *)
ComesUp ==
    /\ machine = "menu" \/ (machine = "down" /\ (script.powernv => kexeced))
    /\ machine' = "host"
    /\ kernel' \in IF kexeced THEN {"image"}
                   ELSE IF script.powernv THEN {"other"} ELSE {"image", "other"}
    /\ logged_in' = FALSE
    /\ young' = TRUE
    /\ kexeced' = FALSE
    /\ Prints(<<"login">>)
    /\ Passive /\ UNCHANGED <<console, pending, crashes, late_reboot>>

Dies ==
    /\ machine \in {"down", "host"}
    /\ machine' = "dead"
    /\ Passive
    /\ UNCHANGED <<text, kernel, logged_in, young, pending, kexeced, crashes, late_reboot>>

Crash ==
    /\ machine = "host" /\ crashes < MaxCrashes
    /\ machine' = "down"
    /\ crashes' = crashes + 1
    /\ late_reboot' = (late_reboot \/ Late)
    /\ Passive /\ UNCHANGED <<text, kernel, logged_in, young, pending, kexeced>>

(* Of no consequence once the uptime was looked at. *)
Ages ==
    /\ machine = "host" /\ young
    /\ ~Late /\ phase # "release"
    /\ young' = FALSE
    /\ Passive
    /\ UNCHANGED <<text, machine, kernel, logged_in, pending, kexeced, crashes, late_reboot>>

(* It matters where the console is read. *)
Arrives ==
    /\ phase \in {"firmware", "petitboot", "login"}
    /\ coming # <<>>
    /\ console' = Append(IF Prompt THEN SubSeq(console, 1, Len(console) - 1) ELSE console,
                         Head(coming))
    /\ coming' = Tail(coming)
    /\ Passive /\ UNCHANGED machineVars

Machine ==
    /\ result = "open"
    /\ GoesDown \/ FirmwareUp \/ ComesUp \/ Dies \/ Crash \/ Ages \/ Arrives

Boot ==
    \/ Rsync \/ LogConsole \/ PowerState \/ RebootHost \/ SetPowerState
    \/ Poke \/ Look \/ ExpectShell \/ SendHostname \/ Hostname \/ Drain
    \/ GetNetwork \/ Wget \/ WgetInitrd \/ KexecLoad \/ KexecExec \/ AwaitLogin
    \/ WaitForSsh \/ CheckUptime \/ CheckRelease \/ Modules \/ Callbacks \/ Dmesg \/ Kmsg
    \/ CloseConsole

Finished == result # "open" /\ UNCHANGED vars

Next == Boot \/ Machine \/ Finished
Spec == Init /\ [][Next]_vars

(* The calls of other programs without a timeout: `getpassword`, those to  *)
(* power control, and the wait for the console's program when it is ended. *)
Unlimited ==
    \/ phase = "log_console" /\ script.xcat = "OzXcatSerial"
    \/ phase \in {"power_state", "on", "reset", "close"} /\ script.xcat # "NoXcat"

(* Every ssh and every wait on the console has a timeout.  Nothing is      *)
(* asked of the machine, nor of the calls that have no limit.              *)
FairSpec == Spec /\ WF_vars(~Unlimited /\ Boot)

-----------------------------------------------------------------------------
(* Every variable keeps its type. *)
TypeOK ==
    /\ script \in Scripts
    /\ phase \in Phases
    /\ tries \in 0..(NumWaits + NetworkTries)
    /\ check \in [step : {"none", "poke", "look", "prompt", "hostname", "skiroot"},
                attempts : 0..3]
    /\ has_console \in BOOLEAN
    /\ console \in Seq(Texts) /\ coming \in Seq(Texts)
    /\ result \in {"open", "TRUE", "FALSE", "raised"}
    /\ machine \in {"off", "down", "menu", "skiroot", "host", "dead"}
    /\ kernel \in {"previous", "other", "image"}
    /\ {logged_in, young, pending, kexeced, late_reboot} \subseteq BOOLEAN
    /\ crashes \in 0..MaxCrashes

(* A boot that reports success ran the image it installed.  If not, then   *)
(* the kernel that ran cannot be told from the image by its release, or    *)
(* no release was given, and it was booted within the last five minutes;   *)
(* or the machine went down only after the release was looked at.          *)
SuccessAccounted ==
    result = "TRUE" =>
        \/ kernel = "image"
        \/ late_reboot
        \/ young /\ (script.release_path => script.same_release)

(* The commands meant for petitboot's shell, kexec the last of them, are   *)
(* never given to a shell of the host that was left open on the console,   *)
(* though the host's prompt looks the same, the machine may be asked to    *)
(* reboot and stay up, and the `skiroot` that tells them apart may have    *)
(* been printed for an earlier check.                                      *)
ForPetitboot == {"network", "wget", "initrd", "kexec_s", "kexec_l", "kexec_e"}
KexecNotOnHost == phase \in ForPetitboot => ~HostShell

(* A boot ends, whatever the machine does, unless a call without a timeout *)
(* hangs.                                                                  *)
BootEnds == <>[](result # "open" \/ Unlimited)
=============================================================================
