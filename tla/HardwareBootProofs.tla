------------------------- MODULE HardwareBootProofs -------------------------
(***************************************************************************)
(* Proofs about the boot of a real machine, for any set of boot scripts    *)
(* and any numbers of attempts: whose shell it gives the commands for      *)
(* kexec, and what its success says of the kernel that is running.         *)
(***************************************************************************)
EXTENDS HardwareBoot, SequenceTheorems, TLAPS

(* After the uptime was looked at the machine is young for good, as Ages   *)
(* has no consequence then; after the release was, it runs the image, or   *)
(* went down since, unless no release tells the image from another kernel. *)
Checked == phase \in {"release"} \cup {"modules", "callbacks", "dmesg", "kmsg", "close"}
Compared == Late \/ result = "TRUE"
NoRelease == script.release_path => script.same_release

YoungInv == Checked \/ result = "TRUE" => young
ReleaseInv ==
    Compared =>
        late_reboot \/ NoRelease \/ (kernel = "image" /\ machine \in {"host", "dead"})
ResultInv == result # "open" => phase = "done"

SuccessInv == YoungInv /\ ReleaseInv /\ ResultInv

-----------------------------------------------------------------------------
Steps == {"none", "poke", "look", "prompt", "hostname", "skiroot"}

LEMMA ScreenType ==
    ASSUME NEW S, Seen \subseteq S
    PROVE  \A m : Screen(m) \in Seq(S)
<1>1. <<>> \in Seq(S) /\ \A x \in S : <<x>> \in Seq(S)
    OBVIOUS
<1> QED BY <1>1 DEF Screen, Seen

LEMMA RestType ==
    ASSUME NEW S, console \in Seq(S), NEW i \in DOMAIN console
    PROVE  Rest(i) \in Seq(S)
<1>1. i \in Nat /\ i <= Len(console) /\ Len(console) \in Nat
    BY LenProperties
<1> QED BY <1>1, SubSeqProperties DEF Rest

LEMMA PrintsType ==
    ASSUME NEW S, coming \in Seq(S), NEW output \in Seq(S), Prints(output)
    PROVE  coming' \in Seq(S)
BY DEF Prints

LEMMA ArrivesType ==
    ASSUME NEW S, console \in Seq(S), coming \in Seq(S), Arrives
    PROVE  console' \in Seq(S) /\ coming' \in Seq(S)
<1> DEFINE kept == IF Prompt THEN SubSeq(console, 1, Len(console) - 1) ELSE console
<1>1. kept \in Seq(S)
  <2>1. ASSUME Prompt PROVE SubSeq(console, 1, Len(console) - 1) \in Seq(S)
    <3>1. Len(console) \in Nat /\ Len(console) - 1 <= Len(console)
        BY LenProperties
    <3> QED BY <3>1, SubSeqProperties
  <2> QED BY <2>1
<1>2. coming # <<>> /\ coming' = Tail(coming) /\ console' = Append(kept, Head(coming))
    BY DEF Arrives
<1>3. Head(coming) \in S /\ Tail(coming) \in Seq(S)
    BY <1>2
<1> HIDE DEF kept
<1> QED BY <1>1, <1>2, <1>3

LEMMA TypeInit == Init => TypeOK
<1> SUFFICES ASSUME Init PROVE TypeOK
    OBVIOUS
<1>1. {logged_in, young, pending, kexeced, late_reboot} \subseteq BOOLEAN
    BY Zenon DEF Init
<1>2. console \in Seq(Texts) /\ coming \in Seq(Texts) /\ check \in [step : Steps, attempts : 0..3]
    BY DEF Init, NoCheck, Steps
<1>3. machine \in {"off", "down", "menu", "skiroot", "host", "dead"}
    BY DEF Init
<1>4. tries \in 0..(NumWaits + NetworkTries) /\ crashes \in 0..MaxCrashes
    BY ScriptsAssumption DEF Init
<1>5. /\ script \in Scripts /\ phase \in Phases /\ has_console \in BOOLEAN
      /\ result \in {"open", "TRUE", "FALSE", "raised"} /\ kernel \in {"previous", "other", "image"}
    BY DEF Init, Phases
<1> QED BY Zenon, <1>1, <1>2, <1>3, <1>4, <1>5 DEF TypeOK, Steps

(* What is in the buffer and on its way is of any set that has the answers *)
(* to every key, and the name of petitboot if petitboot is asked.          *)
LEMMA TextNext ==
    ASSUME NEW S, Seen \subseteq S, machine = "skiroot" => "skiroot" \in S,
           console \in Seq(S), coming \in Seq(S), [Next]_vars
    PROVE  console' \in Seq(S) /\ coming' \in Seq(S)
<1>e. /\ <<>> \in Seq(S) /\ <<"menu">> \in Seq(S) /\ <<"login">> \in Seq(S)
      /\ machine = "skiroot" => <<"skiroot", "shell">> \in Seq(S)
    BY DEF Seen
<1>r. \A i \in DOMAIN console : Rest(i) \in Seq(S)
    BY RestType
<1>p. \A output \in Seq(S) : Prints(output) => coming' \in Seq(S)
    BY PrintsType
<1>1. CASE UNCHANGED text
    BY <1>1 DEF text
<1>2. CASE LogConsole
    BY <1>2, <1>e, ScreenType DEF LogConsole
<1>3. CASE Poke
    BY <1>3, <1>p, ScreenType DEF Poke
<1>4. CASE Look
  <2>1. console' \in Seq(S)
      BY <1>4, <1>r DEF Look, text
  <2>2. coming' = coming \/ Prints(Screen(machine'))
      BY <1>4 DEF Look, text
  <2> QED BY <2>1, <2>2, <1>p, ScreenType
<1>5. CASE ExpectShell
    BY <1>5, <1>e DEF ExpectShell
<1>6. CASE SendHostname
  <2>1. console' = console
      BY <1>6 DEF SendHostname
  <2>2. \/ coming' = coming
        \/ Prints(IF machine = "skiroot" THEN <<"skiroot", "shell">> ELSE Screen(machine))
      BY <1>6 DEF SendHostname
  <2> QED BY <2>1, <2>2, <1>e, <1>p, ScreenType
<1>7. CASE Hostname
    BY <1>7, <1>r DEF Hostname
<1>8. CASE KexecExec
    BY <1>8, <1>e DEF KexecExec
<1>9. CASE AwaitLogin
    BY <1>9, <1>r DEF AwaitLogin
<1>10. CASE FirmwareUp
    BY <1>10, <1>e, <1>p DEF FirmwareUp
<1>11. CASE ComesUp
    BY <1>11, <1>e, <1>p DEF ComesUp
<1>12. CASE Arrives
    BY <1>12, ArrivesType
<1>13. CASE Rsync \/ PowerState \/ RebootHost \/ SetPowerState \/ Drain
    BY <1>13, <1>1 DEF Rsync, PowerState, RebootHost, SetPowerState, Drain, Quiet, text
<1>14. CASE GetNetwork \/ Wget \/ WgetInitrd \/ KexecLoad
    BY <1>14, <1>1 DEF GetNetwork, Wget, WgetInitrd, KexecLoad, InShell, Quiet, text
<1>15. CASE WaitForSsh \/ CheckUptime \/ CheckRelease \/ Modules \/ Callbacks \/ Dmesg \/ Kmsg
            \/ CloseConsole
    BY <1>15, <1>1 DEF WaitForSsh, CheckUptime, CheckRelease, Modules, Callbacks, Dmesg, Kmsg,
       CloseConsole, Quiet, text
<1>16. CASE GoesDown \/ Dies \/ Crash \/ Ages
    BY <1>16, <1>1 DEF GoesDown, Dies, Crash, Ages, text
<1>17. CASE UNCHANGED vars
    BY <1>17, <1>1 DEF vars, scriptVars, text
<1> QED BY <1>2, <1>3, <1>4, <1>5, <1>6, <1>7, <1>8, <1>9, <1>10, <1>11, <1>12, <1>13, <1>14,
         <1>15, <1>16, <1>17 DEF Next, Boot, Machine, Finished

LEMMA TypeNext == TypeOK /\ [Next]_vars => TypeOK'
<1> SUFFICES ASSUME TypeOK, [Next]_vars PROVE TypeOK'
    OBVIOUS
<1> USE ScriptsAssumption DEF Steps
<1>0. console' \in Seq(Texts) /\ coming' \in Seq(Texts)
    BY TextNext, Zenon DEF TypeOK, Texts
<1>1. CASE Rsync
    BY <1>1, <1>0 DEF TypeOK, Phases, Rsync, Go, Ends, Quiet, Alone, machineVars
<1>2. CASE LogConsole
  <2>1. has_console' \in BOOLEAN
    <3>1. (script.xcat # "NoXcat") \in BOOLEAN
        OBVIOUS
    <3> QED BY Zenon, <1>2, <3>1 DEF TypeOK, LogConsole
  <2> QED BY <1>0, <1>2, <2>1 DEF TypeOK, Phases, LogConsole, Go, Ends, Alone, machineVars
<1>3. CASE RebootHost
  <2>1. {logged_in, young, pending, kexeced, late_reboot}' \subseteq BOOLEAN
      BY Zenon, <1>3 DEF TypeOK, RebootHost, SshOk
  <2> QED BY <1>0, <1>3, <2>1 DEF TypeOK, Phases, RebootHost, Go, Ends, Quiet, AfterReboot
<1>4. CASE Poke
    BY <1>4, <1>0 DEF TypeOK, Phases, Poke, Checking, Step, Ends, Alone, machineVars
<1>5. CASE Look
  <2>1. machine' \in {"off", "down", "menu", "skiroot", "host", "dead"}
      BY <1>5 DEF TypeOK, Look
  <2>2. /\ phase' \in Phases /\ tries' \in 0..(NumWaits + NetworkTries)
        /\ check' \in [step : Steps, attempts : 0..3]
        /\ result' \in {"open", "TRUE", "FALSE", "raised"}
    <3>1. CASE Step("prompt")
        BY <3>1 DEF TypeOK, Step
    <3>2. CASE Returns(FALSE)
        BY <3>2 DEF TypeOK, Phases, Returns, Go, Again, Ends, NoCheck
    <3>3. CASE NextAttempt
        BY <3>3 DEF TypeOK, NextAttempt
    <3>4. CASE Ends("raised") /\ UNCHANGED check
        BY <3>4 DEF TypeOK, Phases, Ends
    <3> QED BY <1>5, <3>1, <3>2, <3>3, <3>4 DEF Look
  <2>3. UNCHANGED <<script, has_console, kernel, logged_in, young, pending, crashes, late_reboot,
                    kexeced>>
      BY <1>5 DEF Look
  <2> QED BY <1>0, <2>1, <2>2, <2>3 DEF TypeOK
<1>6. CASE ExpectShell
    BY <1>6, <1>0 DEF TypeOK, Phases, ExpectShell, Checking, Step, NextAttempt, Ends, Alone,
       machineVars
<1>7a. CASE SendHostname
    BY <1>7a, <1>0 DEF TypeOK, Phases, SendHostname, Checking, Step, Ends, Alone, machineVars
<1>7. CASE Hostname
    BY <1>7, <1>0 DEF TypeOK, Phases, Hostname, Checking, Returns, Go, Again, Ends, NoCheck,
       Alone, machineVars
<1>8. CASE Drain
    BY <1>8, <1>0 DEF TypeOK, Phases, Drain, Go, Ends, Alone, machineVars
<1>9. CASE GetNetwork
    BY <1>9, <1>0 DEF TypeOK, Phases, GetNetwork, InShell, Go, Again, Ends, Quiet, Alone,
       machineVars
<1>10. CASE Wget
    BY <1>10, <1>0 DEF TypeOK, Phases, Wget, InShell, Go, Ends, Quiet, Alone, machineVars
<1>11. CASE WgetInitrd
    BY <1>11, <1>0 DEF TypeOK, Phases, WgetInitrd, InShell, Go, Ends, Quiet, Alone, machineVars
<1>12. CASE KexecLoad
    BY <1>12, <1>0 DEF TypeOK, Phases, KexecLoad, InShell, Go, Ends, Quiet, Alone, machineVars
<1>13. CASE KexecExec
  <2>1. machine' \in {"off", "down", "menu", "skiroot", "host", "dead"}
      BY <1>13 DEF TypeOK, KexecExec
  <2>2. {logged_in, young, pending, kexeced, late_reboot}' \subseteq BOOLEAN
      BY Zenon, <1>13 DEF TypeOK, KexecExec
  <2> QED BY <1>13, <1>0, <2>1, <2>2 DEF TypeOK, Phases, KexecExec, Go
<1>14. CASE AwaitLogin
    BY <1>14, <1>0 DEF TypeOK, Phases, AwaitLogin, Go, Ends, Quiet, Alone, machineVars
<1>15. CASE WaitForSsh
    BY <1>15, <1>0 DEF TypeOK, Phases, WaitForSsh, Go, Again, Ends, Quiet, Alone, machineVars
<1>16. CASE CheckUptime
    BY <1>16, <1>0 DEF TypeOK, Phases, CheckUptime, Ssh, Go, Ends, Quiet, Alone, machineVars
<1>17. CASE CheckRelease
    BY <1>17, <1>0 DEF TypeOK, Phases, CheckRelease, Ssh, ReleaseMatches, SshOk, Go, Ends, Quiet,
       Alone, machineVars
<1>18. CASE Modules
    BY <1>18, <1>0 DEF TypeOK, Phases, Modules, Ssh, Go, Ends, Quiet, Alone, machineVars
<1>19. CASE Callbacks
    BY <1>19, <1>0 DEF TypeOK, Phases, Callbacks, Go, Ends, Quiet, Alone, machineVars
<1>20. CASE Dmesg
    BY <1>20, <1>0 DEF TypeOK, Phases, Dmesg, Ssh, Go, Ends, Quiet, Alone, machineVars
<1>21. CASE Kmsg
    BY <1>21, <1>0 DEF TypeOK, Phases, Kmsg, Go, Ends, Quiet, Alone, machineVars
<1>22. CASE CloseConsole
    BY <1>22, <1>0 DEF TypeOK, Phases, CloseConsole, Ends, Quiet, Alone, machineVars
<1>23. CASE PowerState
    BY <1>23, <1>0 DEF TypeOK, Phases, PowerState, Go, Ends, Alone, machineVars, NoCheck
<1>24. CASE SetPowerState
  <2>1. {logged_in, young, pending, kexeced, late_reboot}' \subseteq BOOLEAN
      BY Zenon, <1>24 DEF TypeOK, SetPowerState
  <2> QED BY <1>0, <1>24, <2>1 DEF TypeOK, Phases, SetPowerState, Go, Quiet, AfterReboot
<1>25. CASE GoesDown
  <2>1. {logged_in, young, pending, kexeced, late_reboot}' \subseteq BOOLEAN
      BY Zenon, <1>25 DEF TypeOK, GoesDown, Passive
  <2> QED BY <1>0, <1>25, <2>1 DEF TypeOK, GoesDown, Passive
<1>26. CASE FirmwareUp
    BY <1>26, <1>0 DEF TypeOK, Phases, FirmwareUp, Passive
<1>27. CASE ComesUp
  <2>1. {logged_in, young, pending, kexeced, late_reboot}' \subseteq BOOLEAN
      BY Zenon, <1>27 DEF TypeOK, ComesUp, Passive
  <2>2. kernel' \in {"previous", "other", "image"}
      BY <1>27, <1>0 DEF TypeOK, ComesUp
  <2> QED BY <1>0, <1>27, <2>1, <2>2 DEF TypeOK, ComesUp, Passive
<1>28. CASE Dies
    BY <1>28, <1>0 DEF TypeOK, Phases, Dies, Passive
<1>29. CASE Crash
    BY <1>29, <1>0 DEF TypeOK, Phases, Crash, Passive
<1>30. CASE Ages
  <2>1. {logged_in, young, pending, kexeced, late_reboot}' \subseteq BOOLEAN
      BY Zenon, <1>30 DEF TypeOK, Ages, Passive
  <2> QED BY <1>0, <1>30, <2>1 DEF TypeOK, Ages, Passive
<1>30a. CASE Arrives
    BY <1>30a, <1>0 DEF TypeOK, Arrives, Passive, machineVars
<1>31. CASE UNCHANGED vars
    BY <1>31, <1>0 DEF TypeOK, Phases, vars, scriptVars, machineVars
<1> QED BY <1>1, <1>2, <1>3, <1>4, <1>5, <1>6, <1>7, <1>7a, <1>8, <1>9, <1>10, <1>11, <1>12, <1>13,
         <1>14, <1>15, <1>16, <1>17, <1>18, <1>19, <1>20, <1>21, <1>22, <1>23, <1>24, <1>25,
         <1>26, <1>27, <1>28, <1>29, <1>30, <1>30a, <1>31 DEF Next, Boot, Machine,
         Finished

(* Every variable of the boot keeps its type.                              *)
THEOREM TypeCorrect == Spec => []TypeOK
BY TypeInit, TypeNext, PTL DEF Spec

-----------------------------------------------------------------------------
(* While the host shows a shell, no `skiroot` was printed: petitboot       *)
(* starts hosts that nobody is logged in on.                               *)
HostInv == HostShell => console \in Seq(Seen) /\ coming \in Seq(Seen) /\ phase \notin ForPetitboot

LEMMA HostShellStays == [Next]_vars /\ HostShell' => HostShell
<1> SUFFICES ASSUME [Next]_vars, HostShell' PROVE HostShell
    OBVIOUS
<1>1. CASE UNCHANGED <<machine, logged_in>>
    BY <1>1 DEF HostShell
<1>2. CASE Rsync \/ LogConsole \/ PowerState \/ RebootHost \/ SetPowerState
    BY <1>1, <1>2 DEF Rsync, LogConsole, PowerState, RebootHost, SetPowerState, Alone, machineVars,
       HostShell
<1>3. CASE Look
    BY <1>1, <1>3 DEF Look, HostShell
<1>4. CASE Poke \/ ExpectShell \/ SendHostname \/ Hostname \/ Drain
    BY <1>1, <1>4 DEF Poke, ExpectShell, SendHostname, Hostname, Drain, Alone, machineVars
<1>5. CASE GetNetwork \/ Wget \/ WgetInitrd \/ KexecLoad \/ AwaitLogin
    BY <1>1, <1>5 DEF GetNetwork, Wget, WgetInitrd, KexecLoad, InShell, AwaitLogin, Alone, machineVars
<1>6. CASE KexecExec
    BY <1>1, <1>6 DEF KexecExec, HostShell
<1>7. CASE WaitForSsh \/ CheckUptime \/ CheckRelease \/ Modules \/ Callbacks \/ Dmesg \/ Kmsg
           \/ CloseConsole
    BY <1>1, <1>7 DEF WaitForSsh, CheckUptime, CheckRelease, Modules, Callbacks, Dmesg, Kmsg,
       CloseConsole, Alone, machineVars
<1>8. CASE GoesDown \/ FirmwareUp \/ ComesUp \/ Dies \/ Crash
    BY <1>8 DEF GoesDown, FirmwareUp, ComesUp, Dies, Crash, HostShell
<1>9. CASE Ages \/ Arrives \/ UNCHANGED vars
    BY <1>1, <1>9 DEF Ages, Arrives, vars, machineVars
<1> QED BY <1>2, <1>3, <1>4, <1>5, <1>6, <1>7, <1>8, <1>9 DEF Next, Boot, Machine, Finished

LEMMA HostNext == HostInv /\ [Next]_vars => HostInv'
<1> SUFFICES ASSUME HostInv, [Next]_vars, HostShell'
             PROVE  (console \in Seq(Seen) /\ coming \in Seq(Seen) /\ phase \notin ForPetitboot)'
    BY DEF HostInv
<1>0. /\ HostShell /\ machine = "host"
      /\ console \in Seq(Seen) /\ coming \in Seq(Seen) /\ phase \notin ForPetitboot
    BY HostShellStays DEF HostInv, HostShell
<1>t. console' \in Seq(Seen) /\ coming' \in Seq(Seen)
    BY <1>0, TextNext, Zenon
<1> SUFFICES phase' \notin ForPetitboot
    BY <1>t
<1> USE DEF ForPetitboot
<1>1. CASE UNCHANGED phase
    BY <1>0, <1>1
<1>2. CASE Rsync \/ LogConsole \/ PowerState \/ RebootHost \/ SetPowerState \/ Drain
    BY <1>2 DEF Rsync, LogConsole, PowerState, RebootHost, SetPowerState, Drain, Go, Ends, AfterReboot
<1>3. CASE Poke \/ ExpectShell \/ SendHostname
    BY <1>0, <1>3 DEF Poke, ExpectShell, SendHostname, Step, NextAttempt, Ends
<1>4. CASE Look
    BY <1>0, <1>4 DEF Look, Step, NextAttempt, Returns, Go, Again, Ends
<1>5. CASE Hostname
  <2>1. \A i \in DOMAIN console : console[i] # "skiroot"
      BY <1>0 DEF Seen
  <2>2. Returns(FALSE) \/ Ends("raised")
      BY <1>5, <2>1 DEF Hostname, FirstShown
  <2> QED BY <1>0, <2>2 DEF Returns, Go, Again, Ends
<1>6. CASE GetNetwork \/ Wget \/ WgetInitrd \/ KexecLoad \/ KexecExec
    BY <1>0, <1>6 DEF GetNetwork, Wget, WgetInitrd, KexecLoad, KexecExec, InShell
<1>7. CASE AwaitLogin
    BY <1>7 DEF AwaitLogin, Go, Ends
<1>8. CASE WaitForSsh \/ CheckUptime \/ CheckRelease
    BY <1>0, <1>8 DEF WaitForSsh, CheckUptime, CheckRelease, Ssh, Go, Again, Ends
<1>9. CASE Modules \/ Callbacks \/ Dmesg \/ Kmsg \/ CloseConsole
    BY <1>9 DEF Modules, Callbacks, Dmesg, Kmsg, CloseConsole, Ssh, Go, Ends
<1>10. CASE GoesDown \/ FirmwareUp \/ ComesUp \/ Dies \/ Crash \/ Ages \/ Arrives
    BY <1>1, <1>10 DEF GoesDown, FirmwareUp, ComesUp, Dies, Crash, Ages, Arrives, Passive
<1>11. CASE UNCHANGED vars
    BY <1>1, <1>11 DEF vars, scriptVars
<1> QED BY <1>2, <1>3, <1>4, <1>5, <1>6, <1>7, <1>8, <1>9, <1>10, <1>11 DEF Next, Boot, Machine,
         Finished

(* The commands for petitboot are not given to a shell of the host, for    *)
(* any bounds: that a late `skiroot` may answer a later check does not     *)
(* matter, as the systems petitboot starts show no shell.                  *)
THEOREM KexecNotOnHostHolds == Spec => []KexecNotOnHost
<1>1. Init => HostInv
    BY DEF Init, HostInv, HostShell, ForPetitboot
<1>2. HostInv => KexecNotOnHost
    BY DEF HostInv, KexecNotOnHost
<1> QED BY <1>1, <1>2, HostNext, PTL DEF Spec

-----------------------------------------------------------------------------
LEMMA SuccessNext == TypeOK /\ SuccessInv /\ [Next]_vars => SuccessInv'
<1> SUFFICES ASSUME TypeOK, SuccessInv, [Next]_vars PROVE SuccessInv'
    OBVIOUS
<1> USE DEF SuccessInv, YoungInv, ReleaseInv, ResultInv, Checked, Compared, Late, NoRelease
<1>1. CASE Rsync
    BY <1>1 DEF TypeOK, Rsync, Go, Ends, Quiet, Alone, machineVars
<1>2. CASE LogConsole
    BY <1>2 DEF TypeOK, LogConsole, Go, Ends, Alone, machineVars
<1>3. CASE RebootHost
    BY <1>3 DEF TypeOK, RebootHost, Go, Ends, Quiet, AfterReboot, SshOk
<1>4. CASE Poke
    BY <1>4 DEF TypeOK, Poke, Checking, Step, Ends, Alone, machineVars
<1>5. CASE Look
    BY <1>5 DEF TypeOK, Look, Checking, Step, NextAttempt, Returns, Go, Again, Ends,
       NoCheck
<1>6. CASE ExpectShell
    BY <1>6 DEF TypeOK, ExpectShell, Checking, Step, NextAttempt, Ends, Alone, machineVars
<1>7a. CASE SendHostname
    BY <1>7a DEF TypeOK, SendHostname, Checking, Step, Ends, Alone, machineVars
<1>7. CASE Hostname
    BY <1>7 DEF TypeOK, Hostname, Checking, Returns, Go, Again, Ends, NoCheck, Alone,
       machineVars
<1>8. CASE Drain
    BY <1>8 DEF TypeOK, Drain, Go, Ends, Alone, machineVars
<1>9. CASE GetNetwork
    BY <1>9 DEF TypeOK, GetNetwork, InShell, Go, Again, Ends, Quiet, Alone, machineVars
<1>10. CASE Wget
    BY <1>10 DEF TypeOK, Wget, InShell, Go, Ends, Quiet, Alone, machineVars
<1>11. CASE WgetInitrd
    BY <1>11 DEF TypeOK, WgetInitrd, InShell, Go, Ends, Quiet, Alone, machineVars
<1>12. CASE KexecLoad
    BY <1>12 DEF TypeOK, KexecLoad, InShell, Go, Ends, Quiet, Alone, machineVars
<1>13. CASE KexecExec
    BY <1>13 DEF TypeOK, KexecExec, Go
<1>14. CASE AwaitLogin
    BY <1>14 DEF TypeOK, AwaitLogin, Go, Ends, Quiet, Alone, machineVars
<1>15. CASE WaitForSsh
    BY <1>15 DEF TypeOK, WaitForSsh, Go, Again, Ends, Quiet, Alone, machineVars
<1>16. CASE CheckUptime
    BY <1>16 DEF TypeOK, CheckUptime, Ssh, Go, Ends, Quiet, Alone, machineVars
<1>17. CASE CheckRelease
    BY <1>17 DEF TypeOK, CheckRelease, Ssh, ReleaseMatches, SshOk, Go, Ends, Quiet, Alone,
       machineVars
<1>18. CASE Modules
    BY <1>18 DEF TypeOK, Modules, Ssh, Go, Ends, Quiet, Alone, machineVars
<1>19. CASE Callbacks
    BY <1>19 DEF TypeOK, Callbacks, Go, Ends, Quiet, Alone, machineVars
<1>20. CASE Dmesg
    BY <1>20 DEF TypeOK, Dmesg, Ssh, Go, Ends, Quiet, Alone, machineVars
<1>21. CASE Kmsg
    BY <1>21 DEF TypeOK, Kmsg, Go, Ends, Quiet, Alone, machineVars
<1>22. CASE CloseConsole
    BY <1>22 DEF TypeOK, CloseConsole, Ends, Quiet, Alone, machineVars
<1>23. CASE PowerState
    BY <1>23 DEF TypeOK, PowerState, Go, Ends, Alone, machineVars, NoCheck
<1>24. CASE SetPowerState
    BY <1>24 DEF TypeOK, SetPowerState, Go, Quiet, AfterReboot
<1>25. CASE result = "open" /\ GoesDown
  <2>1. late_reboot => late_reboot'
      BY Zenon, <1>25 DEF GoesDown
  <2>2. Late => late_reboot'
      BY Zenon, <1>25 DEF GoesDown
  <2>3. UNCHANGED <<phase, result, kernel, young, script>> /\ machine = "host" /\ machine' = "down"
      BY <1>25 DEF GoesDown, Passive
  <2> QED BY <1>25, <2>1, <2>2, <2>3
<1>26. CASE FirmwareUp
    BY <1>26 DEF TypeOK, FirmwareUp, Passive
<1>27. CASE ComesUp
    BY <1>27 DEF TypeOK, ComesUp, Passive
<1>28. CASE Dies
    BY <1>28 DEF TypeOK, Dies, Passive
<1>29. CASE result = "open" /\ Crash
  <2>1. late_reboot => late_reboot'
      BY Zenon, <1>29 DEF Crash
  <2>2. Late => late_reboot'
      BY Zenon, <1>29 DEF Crash
  <2>3. UNCHANGED <<phase, result, kernel, young, script>> /\ machine = "host" /\ machine' = "down"
      BY <1>29 DEF Crash, Passive
  <2> QED BY <1>29, <2>1, <2>2, <2>3
<1>30. CASE result = "open" /\ Ages
  <2>1. ~Late /\ ~Checked /\ UNCHANGED <<phase, result, kernel, machine, late_reboot, script>>
      BY <1>30 DEF Ages, Passive, Late
  <2> QED BY <1>30, <2>1
<1>30a. CASE Arrives
    BY <1>30a DEF TypeOK, Arrives, Passive, machineVars
<1>31. CASE UNCHANGED vars
    BY <1>31 DEF TypeOK, vars, scriptVars, machineVars
<1> QED BY <1>1, <1>2, <1>3, <1>4, <1>5, <1>6, <1>7, <1>7a, <1>8, <1>9, <1>10, <1>11, <1>12, <1>13,
         <1>14, <1>15, <1>16, <1>17, <1>18, <1>19, <1>20, <1>21, <1>22, <1>23, <1>24, <1>25,
         <1>26, <1>27, <1>28, <1>29, <1>30, <1>30a, <1>31 DEF Next, Boot, Machine,
         Finished

(* A boot that reports success ran the image, unless its release or its    *)
(* uptime could not tell, or the machine went down afterwards.             *)
THEOREM SuccessAccountedHolds == Spec => []SuccessAccounted
<1>1. Init => SuccessInv
    BY DEF Init, SuccessInv, YoungInv, ReleaseInv, ResultInv, Checked, Compared, Late
<1>2. SuccessInv => SuccessAccounted
    BY DEF SuccessInv, YoungInv, ReleaseInv, SuccessAccounted, Compared, NoRelease
<1> QED BY TypeCorrect, <1>1, <1>2, SuccessNext, PTL DEF Spec
=============================================================================
