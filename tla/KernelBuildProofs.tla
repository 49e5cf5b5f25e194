------------------------- MODULE KernelBuildProofs --------------------------
(***************************************************************************)
(* What a status of 0 says of a kernel build, what its directory holds at  *)
(* any moment and which build the shared link names, for any number of     *)
(* builds side by side.                                                    *)
(***************************************************************************)
EXTENDS KernelBuild, TLAPS

Ending == {"exit", "link", "done"}
Configured == {"make", "modules", "post_clean"} \cup Ending
Fatal == {"cp", "olddefconfig", "make", "sparse", "modules"}
ToMerge(b) == {"base"} \cup (IF option[b].merge THEN {"merge"} ELSE {})

(* What is known of one build at each of its steps. *)
ConfigInv(b) ==
    /\ pc[b] \in {"pre_clean", "config", "merge"} => rc[b] = 0
    /\ rc[b] = 0 => failed[b] \cap Fatal = {}
    /\ option[b].config = "custom" => "base" \notin config[b]
    /\ option[b].config # "custom" /\ pc[b] = "merge" =>
          config[b] = {"base"} \/ "defconfig" \in failed[b]
    /\ option[b].config # "custom" /\ pc[b] = "mod2yes" =>
          config[b] = ToMerge(b) \/ failed[b] \cap {"defconfig", "merge"} # {}
    /\ option[b].config # "custom" /\ pc[b] \in Configured /\ rc[b] = 0 =>
          config[b] = Asked(b) \/ failed[b] \cap {"defconfig", "merge", "mod2yes"} # {}

KernelInv(b) ==
    /\ pc[b] \in {"modules", "post_clean"} /\ rc[b] = 0 => vmlinux[b] = config[b]
    /\ pc[b] \in Ending /\ rc[b] = 0 =>
          vmlinux[b] = config[b] \/ (vmlinux[b] = Absent /\ option[b].post_clean)

ArchiveInv(b) ==
    archive[b] \in {Absent, Old} \/ (pc[b] \in {"post_clean"} \cup Ending /\ rc[b] = 0)

(* And of the link: who removed it knows that it is gone or made again by  *)
(* a build that succeeded; it is not left dangling by all of them.         *)
LinkInv ==
    /\ link \in Builds => link = first_link \/ link \in Succeeded
    /\ \A b \in Builds : pc[b] = "link" =>
          rc[b] = 0 /\ ("rm" \in failed[b] \/ link \in Succeeded \cup {Nothing})
    /\ \/ link = first_link /\ Succeeded = {}
       \/ link \in Succeeded
       \/ \E b \in Builds : pc[b] = "link"
       \/ \E b \in Succeeded : failed[b] \cap {"rm", "ln"} # {}

BuildInv(b) == ConfigInv(b) /\ KernelInv(b) /\ ArchiveInv(b)
IndInv == TypeOK /\ (\A b \in Builds : BuildInv(b)) /\ LinkInv

-----------------------------------------------------------------------------
LEMMA InitInv == Init => IndInv
<1> SUFFICES ASSUME Init PROVE IndInv
    OBVIOUS
<1>1. TypeOK
    BY DEF Init, TypeOK, Configs, Absent, Old, Parts, Nothing
<1>2. ASSUME NEW b \in Builds PROVE BuildInv(b)
    BY <1>2 DEF Init, BuildInv, ConfigInv, KernelInv, ArchiveInv, Configured, Ending, Absent, Old
<1>3. LinkInv
    BY DEF Init, LinkInv, Succeeded, At
<1> QED BY <1>1, <1>2, <1>3 DEF IndInv

(* A step of one build other than the last two does not concern the link.  *)
LEMMA LinkUntouched ==
    ASSUME TypeOK, LinkInv, NEW b \in Builds, pc[b] \notin {"link", "done"},
           NEW s \in {"config", "merge", "mod2yes", "make", "modules", "post_clean", "exit"},
           Goto(b, s), UNCHANGED linkVars,
           \A c \in Builds \ {b} : rc'[c] = rc[c] /\ failed'[c] = failed[c]
    PROVE  LinkInv'
<1>1. \A c \in Builds : pc'[c] = IF c = b THEN s ELSE pc[c]
    BY DEF Goto, TypeOK
<1>2. \A c \in Builds :
        /\ pc'[c] = "link" <=> pc[c] = "link"
        /\ pc[c] \in {"link", "done"} => rc'[c] = rc[c] /\ failed'[c] = failed[c]
        /\ pc'[c] = "done" <=> pc[c] = "done"
    BY <1>1
<1>3. Succeeded' = Succeeded
    BY <1>2 DEF Succeeded, At
<1>4. link' = link /\ first_link' = first_link
    BY DEF linkVars
<1> QED BY <1>2, <1>3, <1>4 DEF LinkInv, Succeeded, At

(* One build's step leaves the others where they are.                      *)
Others(b) ==
    /\ option' = option
    /\ \A c \in Builds \ {b} :
          /\ pc'[c] = pc[c] /\ rc'[c] = rc[c] /\ failed'[c] = failed[c]
          /\ config'[c] = config[c] /\ vmlinux'[c] = vmlinux[c] /\ archive'[c] = archive[c]

LEMMA OneBuild ==
    ASSUME IndInv, NEW b \in Builds, Others(b), BuildInv(b)'
    PROVE  \A c \in Builds : BuildInv(c)'
BY DEF IndInv, Others, BuildInv, ConfigInv, KernelInv, ArchiveInv, Asked, ToMerge

(* What Fail and an assignment to one build's place do.                    *)
LEMMA FailStep ==
    ASSUME failed \in [Builds -> SUBSET Commands], NEW b \in Builds,
           NEW S, S \subseteq Commands, Fail(b, S)
    PROVE  /\ failed' \in [Builds -> SUBSET Commands]
           /\ failed'[b] = failed[b] \cup S
           /\ \A c \in Builds \ {b} : failed'[c] = failed[c]
BY DEF Fail

LEMMA ConfigValues ==
    /\ Absent \in Configs /\ {} \in Configs /\ {"base"} \in Configs
    /\ Absent # Old /\ Absent # {} /\ Absent # {"base"}
    /\ \A c \in Configs \ {Absent} : c \cup {"merge"} \in Configs
    /\ \A c \in Configs : (c \ Absent) \cup {"mod2yes"} \in Configs
BY DEF Configs, Parts, Absent, Old

LEMMA PreCleanInv ==
    ASSUME IndInv, NEW b \in Builds, PreClean(b)
    PROVE  IndInv'
<1> USE DEF IndInv, TypeOK
<1>1. /\ failed' \in [Builds -> SUBSET Commands] /\ failed[b] \subseteq failed'[b]
      /\ \A c \in Builds \ {b} : failed'[c] = failed[c]
    BY FailStep DEF PreClean, Clean, dirVars, Commands
<1>2. pc' \in [Builds -> {"pre_clean", "config", "merge", "mod2yes", "make", "modules",
                          "post_clean", "exit", "link", "done"}]
    BY DEF PreClean, Clean, Goto
<1>3. rc' \in [Builds -> {0, 1}]
    BY DEF PreClean, Clean, Exit
<1>4. config' \in [Builds -> Configs]
    BY ConfigValues DEF PreClean, Clean, dirVars
<1>5. vmlinux' \in [Builds -> Configs]
    BY ConfigValues DEF PreClean, Clean, dirVars
<1>6. archive' \in [Builds -> Configs \cup {Broken}]
    BY DEF PreClean, Clean, dirVars
<1>7. option' = option /\ UNCHANGED linkVars
    BY DEF PreClean, Clean
<1>8. TypeOK'
    BY <1>1, <1>2, <1>3, <1>4, <1>5, <1>6, <1>7 DEF linkVars
<1>9. Others(b)
    BY <1>1, <1>7 DEF Others, PreClean, Clean, Goto, Exit, dirVars
<1>10. /\ pc[b] = "pre_clean" /\ pc'[b] = "config"
       /\ rc'[b] = rc[b] /\ config'[b] = config[b] /\ archive'[b] = archive[b]
    BY DEF PreClean, Clean, Goto, At, dirVars
<1>11. failed'[b] = failed[b] \/ failed'[b] = failed[b] \cup {"clean"}
    BY DEF PreClean, Clean, Fail, Goto, Exit, dirVars
<1>12. BuildInv(b)'
    BY <1>1, <1>3, <1>7, <1>10, <1>11, ConfigValues DEF BuildInv, ConfigInv, KernelInv, ArchiveInv, Asked,
       ToMerge, Fatal, Configured, Ending
<1>13. \A c \in Builds : BuildInv(c)'
    BY <1>9, <1>12, OneBuild
<1>14. \E s \in {"config", "merge", "mod2yes", "make", "modules", "post_clean", "exit"} : Goto(b, s)
    BY DEF PreClean
<1>15. LinkInv'
    BY <1>7, <1>9, <1>10, <1>14, LinkUntouched DEF Others
<1> QED BY <1>8, <1>13, <1>15

LEMMA ConfigureInv ==
    ASSUME IndInv, NEW b \in Builds, Configure(b)
    PROVE  IndInv'
<1> USE DEF IndInv, TypeOK
<1>1. /\ failed' \in [Builds -> SUBSET Commands] /\ failed[b] \subseteq failed'[b]
      /\ \A c \in Builds \ {b} : failed'[c] = failed[c]
    BY FailStep DEF Configure, dirVars, Commands
<1>2. pc' \in [Builds -> {"pre_clean", "config", "merge", "mod2yes", "make", "modules",
                          "post_clean", "exit", "link", "done"}]
    BY DEF Configure, Goto
<1>3. rc' \in [Builds -> {0, 1}]
    BY DEF Configure, Exit
<1>4. config' \in [Builds -> Configs]
    BY ConfigValues DEF Configure, dirVars
<1>5. vmlinux' \in [Builds -> Configs]
    BY ConfigValues DEF Configure, dirVars
<1>6. archive' \in [Builds -> Configs \cup {Broken}]
    BY DEF Configure, dirVars
<1>7. option' = option /\ UNCHANGED linkVars
    BY DEF Configure
<1>8. TypeOK'
    BY <1>1, <1>2, <1>3, <1>4, <1>5, <1>6, <1>7 DEF linkVars
<1>9. Others(b)
    BY <1>1, <1>7 DEF Others, Configure, Goto, Exit, dirVars
<1>10. /\ pc[b] = "config" /\ pc'[b] = "merge"
       /\ rc'[b] = rc[b] /\ archive'[b] = archive[b]
       /\ option[b].config # "custom" /\ config'[b] = {"base"}
    BY DEF Configure, Goto, At, dirVars
<1>11. failed'[b] = failed[b]
    BY DEF Configure, Fail, Goto, Exit, dirVars
<1>12. BuildInv(b)'
    BY <1>1, <1>3, <1>7, <1>10, <1>11, ConfigValues DEF BuildInv, ConfigInv, KernelInv, ArchiveInv, Asked,
       ToMerge, Fatal, Configured, Ending
<1>13. \A c \in Builds : BuildInv(c)'
    BY <1>9, <1>12, OneBuild
<1>14. \E s \in {"config", "merge", "mod2yes", "make", "modules", "post_clean", "exit"} : Goto(b, s)
    BY DEF Configure
<1>15. LinkInv'
    BY <1>7, <1>9, <1>10, <1>14, LinkUntouched DEF Others
<1> QED BY <1>8, <1>13, <1>15

LEMMA ConfigureFailsInv ==
    ASSUME IndInv, NEW b \in Builds, ConfigureFails(b)
    PROVE  IndInv'
<1> USE DEF IndInv, TypeOK
<1>1. /\ failed' \in [Builds -> SUBSET Commands] /\ failed[b] \subseteq failed'[b]
      /\ \A c \in Builds \ {b} : failed'[c] = failed[c]
    BY FailStep DEF ConfigureFails, dirVars, Commands
<1>2. pc' \in [Builds -> {"pre_clean", "config", "merge", "mod2yes", "make", "modules",
                          "post_clean", "exit", "link", "done"}]
    BY DEF ConfigureFails, Goto
<1>3. rc' \in [Builds -> {0, 1}]
    BY DEF ConfigureFails, Exit
<1>4. config' \in [Builds -> Configs]
    BY ConfigValues DEF ConfigureFails, dirVars
<1>5. vmlinux' \in [Builds -> Configs]
    BY ConfigValues DEF ConfigureFails, dirVars
<1>6. archive' \in [Builds -> Configs \cup {Broken}]
    BY DEF ConfigureFails, dirVars
<1>7. option' = option /\ UNCHANGED linkVars
    BY DEF ConfigureFails
<1>8. TypeOK'
    BY <1>1, <1>2, <1>3, <1>4, <1>5, <1>6, <1>7 DEF linkVars
<1>9. Others(b)
    BY <1>1, <1>7 DEF Others, ConfigureFails, Goto, Exit, dirVars
<1>10. /\ pc[b] = "config" /\ config'[b] = config[b] /\ archive'[b] = archive[b]
       /\ option[b].config # "custom"
    BY DEF ConfigureFails, Goto, At, dirVars
<1>11. \/ failed'[b] = failed[b] \cup {"cp"} /\ rc'[b] = 1 /\ pc'[b] = "exit"
       \/ failed'[b] = failed[b] \cup {"defconfig"} /\ rc'[b] = rc[b] /\ pc'[b] = "merge"
    BY DEF ConfigureFails, Fail, Goto, Exit, dirVars
<1>12. BuildInv(b)'
    BY <1>1, <1>3, <1>7, <1>10, <1>11, ConfigValues DEF BuildInv, ConfigInv, KernelInv, ArchiveInv, Asked,
       ToMerge, Fatal, Configured, Ending
<1>13. \A c \in Builds : BuildInv(c)'
    BY <1>9, <1>12, OneBuild
<1>14. \E s \in {"config", "merge", "mod2yes", "make", "modules", "post_clean", "exit"} : Goto(b, s)
    BY DEF ConfigureFails
<1>15. LinkInv'
    BY <1>7, <1>9, <1>10, <1>14, LinkUntouched DEF Others
<1> QED BY <1>8, <1>13, <1>15

LEMMA MakeNoTargetInv ==
    ASSUME IndInv, NEW b \in Builds, MakeNoTarget(b)
    PROVE  IndInv'
<1> USE DEF IndInv, TypeOK
<1>1. /\ failed' \in [Builds -> SUBSET Commands] /\ failed[b] \subseteq failed'[b]
      /\ \A c \in Builds \ {b} : failed'[c] = failed[c]
    BY FailStep DEF MakeNoTarget, LinkKernel, LinkFails, dirVars, Commands
<1>2. pc' \in [Builds -> {"pre_clean", "config", "merge", "mod2yes", "make", "modules",
                          "post_clean", "exit", "link", "done"}]
    BY DEF MakeNoTarget, LinkKernel, LinkFails, Goto
<1>3. rc' \in [Builds -> {0, 1}]
    BY DEF MakeNoTarget, LinkKernel, LinkFails, Exit
<1>4. config' \in [Builds -> Configs]
    BY ConfigValues DEF MakeNoTarget, LinkKernel, LinkFails, dirVars
<1>5. vmlinux' \in [Builds -> Configs]
  <2>1. CASE LinkKernel(b)
      BY <2>1 DEF LinkKernel
  <2>2. CASE LinkFails(b, "no target")
    <3>1. PICK left \in {vmlinux[b], Absent} : vmlinux' = [vmlinux EXCEPT ![b] = left]
        BY <2>2, Zenon DEF LinkFails
    <3> QED BY <3>1, ConfigValues
  <2> QED BY <2>1, <2>2 DEF MakeNoTarget
<1>6. archive' \in [Builds -> Configs \cup {Broken}]
    BY DEF MakeNoTarget, LinkKernel, LinkFails, dirVars
<1>7. option' = option /\ UNCHANGED linkVars
    BY DEF MakeNoTarget, LinkKernel, LinkFails
<1>8. TypeOK'
    BY <1>1, <1>2, <1>3, <1>4, <1>5, <1>6, <1>7 DEF linkVars
<1>9. Others(b)
    BY <1>1, <1>7 DEF Others, MakeNoTarget, LinkKernel, LinkFails, Goto, Exit, dirVars
<1>10. /\ pc[b] = "config" /\ pc'[b] = "merge"
       /\ rc'[b] = rc[b] /\ config'[b] = config[b] /\ archive'[b] = archive[b]
       /\ option[b].config = "custom"
    BY DEF MakeNoTarget, LinkKernel, LinkFails, Goto, At, dirVars
<1>11. failed'[b] = failed[b] \/ failed'[b] = failed[b] \cup {"no target"}
    BY DEF MakeNoTarget, LinkKernel, LinkFails, Fail, Goto, Exit, dirVars
<1>12. BuildInv(b)'
    BY <1>1, <1>3, <1>7, <1>10, <1>11, ConfigValues DEF BuildInv, ConfigInv, KernelInv, ArchiveInv, Asked,
       ToMerge, Fatal, Configured, Ending
<1>13. \A c \in Builds : BuildInv(c)'
    BY <1>9, <1>12, OneBuild
<1>14. \E s \in {"config", "merge", "mod2yes", "make", "modules", "post_clean", "exit"} : Goto(b, s)
    BY DEF MakeNoTarget
<1>15. LinkInv'
    BY <1>7, <1>9, <1>10, <1>14, LinkUntouched DEF Others
<1> QED BY <1>8, <1>13, <1>15

LEMMA MergeInv ==
    ASSUME IndInv, NEW b \in Builds, Merge(b)
    PROVE  IndInv'
<1> USE DEF IndInv, TypeOK
<1>1. \E bad \in SUBSET {"merge", "olddefconfig"} :
        /\ Fail(b, bad) \/ (failed' = failed /\ bad = {})
        /\ config' = [config EXCEPT ![b] = IF option[b].merge THEN Merged(@, bad) ELSE @]
        /\ rc' = rc \/ rc' = [rc EXCEPT ![b] = IF "olddefconfig" \in bad THEN 1 ELSE 0]
        /\ "olddefconfig" \in bad => rc'[b] = 1
        /\ option[b].merge /\ config[b] = Absent => "merge" \in bad
  <2>1. CASE ~option[b].merge
    <3>1. failed' = failed /\ config' = config /\ rc' = rc
        BY <2>1, Zenon DEF Merge
    <3>2. config' = [config EXCEPT ![b] = IF option[b].merge THEN Merged(@, {}) ELSE @]
        BY <2>1, <3>1
    <3> WITNESS {} \in SUBSET {"merge", "olddefconfig"}
    <3> QED BY <2>1, <3>1, <3>2
  <2>2. CASE option[b].merge
    <3>1. PICK bad \in SUBSET {"merge", "olddefconfig"} :
            /\ config[b] = Absent => "merge" \in bad
            /\ config' = [config EXCEPT ![b] = Merged(@, bad)]
            /\ Fail(b, bad)
            /\ Exit(b, IF "olddefconfig" \in bad THEN 1 ELSE 0)
        BY <2>2 DEF Merge
    <3> QED BY <2>2, <3>1 DEF Exit
  <2> QED BY <2>1, <2>2
<1>2. PICK bad \in SUBSET {"merge", "olddefconfig"} :
        /\ Fail(b, bad) \/ (failed' = failed /\ bad = {})
        /\ config' = [config EXCEPT ![b] = IF option[b].merge THEN Merged(@, bad) ELSE @]
        /\ rc' = rc \/ rc' = [rc EXCEPT ![b] = IF "olddefconfig" \in bad THEN 1 ELSE 0]
        /\ "olddefconfig" \in bad => rc'[b] = 1
        /\ option[b].merge /\ config[b] = Absent => "merge" \in bad
    BY <1>1
<1>3. /\ failed' \in [Builds -> SUBSET Commands] /\ failed'[b] = failed[b] \cup bad
      /\ \A c \in Builds \ {b} : failed'[c] = failed[c]
  <2>1. bad \subseteq Commands
      BY DEF Commands
  <2> QED BY <1>2, <2>1, FailStep
<1>4. pc' = [pc EXCEPT ![b] = "mod2yes"] /\ pc[b] = "merge" /\ Goto(b, "mod2yes")
    BY DEF Merge, Goto, At
<1>5. option' = option /\ vmlinux' = vmlinux /\ archive' = archive /\ UNCHANGED linkVars
    BY DEF Merge
<1>6. Merged(config[b], bad) \in Configs
    BY ConfigValues DEF Merged
<1>7. config' \in [Builds -> Configs]
    BY <1>2, <1>6
<1>8. TypeOK'
    BY <1>2, <1>3, <1>4, <1>5, <1>7 DEF linkVars
<1>9. Others(b)
    BY <1>2, <1>3, <1>4, <1>5 DEF Others
<1>10. config'[b] = IF option[b].merge THEN Merged(config[b], bad) ELSE config[b]
    BY <1>2
<1>11. /\ pc[b] = "merge" /\ pc'[b] = "mod2yes" /\ rc[b] = 0
       /\ rc'[b] = 0 => "olddefconfig" \notin bad
    BY <1>2, <1>4 DEF BuildInv, ConfigInv
<1>12. BuildInv(b)'
  <2>1. ConfigInv(b)'
    <3>1. rc'[b] = 0 => failed'[b] \cap Fatal = {}
        BY <1>3, <1>11 DEF BuildInv, ConfigInv, Fatal
    <3>2. option[b].config = "custom" => "base" \notin config'[b]
        BY <1>10, ConfigValues DEF BuildInv, ConfigInv, Merged, Absent
    <3>3. option[b].config # "custom" =>
            config'[b] = ToMerge(b) \/ failed'[b] \cap {"defconfig", "merge"} # {}
        BY <1>2, <1>3, <1>10, <1>11, ConfigValues DEF BuildInv, ConfigInv, Merged, ToMerge
    <3> QED BY <1>5, <1>11, <3>1, <3>2, <3>3 DEF ConfigInv, Configured, Ending, ToMerge
  <2> QED BY <1>5, <1>11, <2>1 DEF BuildInv, KernelInv, ArchiveInv, Ending
<1>13. \A c \in Builds : BuildInv(c)'
    BY <1>9, <1>12, OneBuild
<1>14. LinkInv'
    BY <1>4, <1>5, <1>9, LinkUntouched DEF Others
<1> QED BY <1>8, <1>13, <1>14

LEMMA Mod2YesInv ==
    ASSUME IndInv, NEW b \in Builds, Mod2Yes(b)
    PROVE  IndInv'
<1> USE DEF IndInv, TypeOK
<1>1. /\ failed' \in [Builds -> SUBSET Commands] /\ failed[b] \subseteq failed'[b]
      /\ \A c \in Builds \ {b} : failed'[c] = failed[c]
    BY FailStep DEF Mod2Yes, dirVars, Commands
<1>2. pc' \in [Builds -> {"pre_clean", "config", "merge", "mod2yes", "make", "modules",
                          "post_clean", "exit", "link", "done"}]
    BY DEF Mod2Yes, Goto
<1>3. rc' \in [Builds -> {0, 1}]
    BY DEF Mod2Yes, Exit
<1>4. config' \in [Builds -> Configs]
    BY ConfigValues DEF Mod2Yes, dirVars
<1>5. vmlinux' \in [Builds -> Configs]
    BY ConfigValues DEF Mod2Yes, dirVars
<1>6. archive' \in [Builds -> Configs \cup {Broken}]
    BY DEF Mod2Yes, dirVars
<1>7. option' = option /\ UNCHANGED linkVars
    BY DEF Mod2Yes
<1>8. TypeOK'
    BY <1>1, <1>2, <1>3, <1>4, <1>5, <1>6, <1>7 DEF linkVars
<1>9. Others(b)
    BY <1>1, <1>7 DEF Others, Mod2Yes, Goto, Exit, dirVars
<1>10. /\ pc[b] = "mod2yes" /\ pc'[b] = "make"
       /\ rc'[b] = rc[b] /\ archive'[b] = archive[b]
    BY DEF Mod2Yes, Goto, At, dirVars
<1>11. \/ failed'[b] = failed[b] /\ ~option[b].mod2yes /\ config'[b] = config[b]
       \/ failed'[b] = failed[b] /\ option[b].mod2yes /\ config'[b] = (config[b] \ Absent) \cup {"mod2yes"}
       \/ failed'[b] = failed[b] \cup {"mod2yes"} /\ config'[b] = config[b]
    BY DEF Mod2Yes, Fail, Goto, Exit, dirVars
<1>12. BuildInv(b)'
  <2>1. option[b].config = "custom" => "base" \notin config'[b]
      BY <1>11 DEF BuildInv, ConfigInv
  <2>2. rc'[b] = 0 => failed'[b] \cap Fatal = {}
      BY <1>10, <1>11 DEF BuildInv, ConfigInv, Fatal
  <2>3. option[b].config # "custom" =>
          config'[b] = Asked(b) \/ failed'[b] \cap {"defconfig", "merge", "mod2yes"} # {}
    <3> SUFFICES ASSUME option[b].config # "custom", failed'[b] \cap {"defconfig", "merge", "mod2yes"} = {}
                 PROVE  config'[b] = Asked(b)
        OBVIOUS
    <3>1. failed'[b] = failed[b] /\ failed[b] \cap {"defconfig", "merge"} = {}
        BY <1>11
    <3>2. config[b] = ToMerge(b)
        BY <1>10, <3>1 DEF BuildInv, ConfigInv
    <3>3. ToMerge(b) \ Absent = ToMerge(b)
        BY DEF ToMerge, Absent
    <3> QED BY <1>11, <3>1, <3>2, <3>3 DEF Asked, ToMerge
  <2>4. Asked(b)' = Asked(b)
      BY <1>7 DEF Asked
  <2> QED BY <1>7, <1>10, <2>1, <2>2, <2>3, <2>4 DEF BuildInv, ConfigInv, KernelInv, ArchiveInv,
             Configured, Ending
<1>13. \A c \in Builds : BuildInv(c)'
    BY <1>9, <1>12, OneBuild
<1>14. \E s \in {"config", "merge", "mod2yes", "make", "modules", "post_clean", "exit"} : Goto(b, s)
    BY DEF Mod2Yes
<1>15. LinkInv'
    BY <1>7, <1>9, <1>10, <1>14, LinkUntouched DEF Others
<1> QED BY <1>8, <1>13, <1>15

LEMMA MakeInv ==
    ASSUME IndInv, NEW b \in Builds, Make(b)
    PROVE  IndInv'
<1> USE DEF IndInv, TypeOK
<1>1. /\ failed' \in [Builds -> SUBSET Commands] /\ failed[b] \subseteq failed'[b]
      /\ \A c \in Builds \ {b} : failed'[c] = failed[c]
    BY FailStep DEF Make, LinkKernel, LinkFails, dirVars, Commands
<1>2. pc' \in [Builds -> {"pre_clean", "config", "merge", "mod2yes", "make", "modules",
                          "post_clean", "exit", "link", "done"}]
    BY DEF Make, LinkKernel, LinkFails, Goto
<1>3. rc' \in [Builds -> {0, 1}]
    BY DEF Make, LinkKernel, LinkFails, Exit
<1>4. config' \in [Builds -> Configs]
    BY ConfigValues DEF Make, LinkKernel, LinkFails, dirVars
<1>5. vmlinux' \in [Builds -> Configs]
    BY ConfigValues DEF Make, LinkKernel, LinkFails, dirVars
<1>6. archive' \in [Builds -> Configs \cup {Broken}]
    BY DEF Make, LinkKernel, LinkFails, dirVars
<1>7. option' = option /\ UNCHANGED linkVars
    BY DEF Make, LinkKernel, LinkFails
<1>8. TypeOK'
    BY <1>1, <1>2, <1>3, <1>4, <1>5, <1>6, <1>7 DEF linkVars
<1>9. Others(b)
    BY <1>1, <1>7 DEF Others, Make, LinkKernel, LinkFails, Goto, Exit, dirVars
<1>10. /\ pc[b] = "make" /\ pc'[b] = "modules"
       /\ config'[b] = config[b] /\ archive'[b] = archive[b]
    BY DEF Make, LinkKernel, LinkFails, Goto, At, dirVars
<1>11. \/ rc'[b] # 0
       \/ failed'[b] = failed[b] /\ rc[b] = 0 /\ vmlinux'[b] = config[b]
    BY DEF Make, LinkKernel, LinkFails, Fail, Goto, Exit, dirVars
<1>12. BuildInv(b)'
    BY <1>1, <1>3, <1>7, <1>10, <1>11, ConfigValues DEF BuildInv, ConfigInv, KernelInv, ArchiveInv, Asked,
       ToMerge, Fatal, Configured, Ending
<1>13. \A c \in Builds : BuildInv(c)'
    BY <1>9, <1>12, OneBuild
<1>14. \E s \in {"config", "merge", "mod2yes", "make", "modules", "post_clean", "exit"} : Goto(b, s)
    BY DEF Make
<1>15. LinkInv'
    BY <1>7, <1>9, <1>10, <1>14, LinkUntouched DEF Others
<1> QED BY <1>8, <1>13, <1>15

LEMMA ModulesInv ==
    ASSUME IndInv, NEW b \in Builds, Modules(b)
    PROVE  IndInv'
<1> USE DEF IndInv, TypeOK
<1>1. /\ failed' \in [Builds -> SUBSET Commands] /\ failed[b] \subseteq failed'[b]
      /\ \A c \in Builds \ {b} : failed'[c] = failed[c]
    BY FailStep DEF Modules, Archived, dirVars, Commands
<1>2. pc' \in [Builds -> {"pre_clean", "config", "merge", "mod2yes", "make", "modules",
                          "post_clean", "exit", "link", "done"}]
    BY DEF Modules, Archived, Goto
<1>3. rc' \in [Builds -> {0, 1}]
    BY DEF Modules, Archived, Exit
<1>4. config' \in [Builds -> Configs]
    BY ConfigValues DEF Modules, Archived, dirVars
<1>5. vmlinux' \in [Builds -> Configs]
    BY ConfigValues DEF Modules, Archived, dirVars
<1>6. archive' \in [Builds -> Configs \cup {Broken}]
    BY DEF Modules, Archived, dirVars
<1>7. option' = option /\ UNCHANGED linkVars
    BY DEF Modules, Archived
<1>8. TypeOK'
    BY <1>1, <1>2, <1>3, <1>4, <1>5, <1>6, <1>7 DEF linkVars
<1>9. Others(b)
    BY <1>1, <1>7 DEF Others, Modules, Archived, Goto, Exit, dirVars
<1>10. /\ pc[b] = "modules" /\ pc'[b] = "post_clean"
       /\ config'[b] = config[b] /\ vmlinux'[b] = vmlinux[b]
    BY DEF Modules, Archived, Goto, At, dirVars
<1>11. \/ rc'[b] # 0 /\ archive'[b] = archive[b]
       \/ rc'[b] = 0 /\ rc[b] = 0 /\ failed'[b] = failed[b]
       \/ rc'[b] = 0 /\ rc[b] = 0 /\ failed'[b] = failed[b] \cup {"tar"}
    BY DEF Modules, Archived, Fail, Goto, Exit, dirVars
<1>12. BuildInv(b)'
    BY <1>1, <1>3, <1>7, <1>10, <1>11, ConfigValues DEF BuildInv, ConfigInv, KernelInv, ArchiveInv, Asked,
       ToMerge, Fatal, Configured, Ending
<1>13. \A c \in Builds : BuildInv(c)'
    BY <1>9, <1>12, OneBuild
<1>14. \E s \in {"config", "merge", "mod2yes", "make", "modules", "post_clean", "exit"} : Goto(b, s)
    BY DEF Modules
<1>15. LinkInv'
    BY <1>7, <1>9, <1>10, <1>14, LinkUntouched DEF Others
<1> QED BY <1>8, <1>13, <1>15

LEMMA PostCleanInv ==
    ASSUME IndInv, NEW b \in Builds, PostClean(b)
    PROVE  IndInv'
<1> USE DEF IndInv, TypeOK
<1>1. /\ failed' \in [Builds -> SUBSET Commands] /\ failed[b] \subseteq failed'[b]
      /\ \A c \in Builds \ {b} : failed'[c] = failed[c]
    BY FailStep DEF PostClean, Clean, dirVars, Commands
<1>2. pc' \in [Builds -> {"pre_clean", "config", "merge", "mod2yes", "make", "modules",
                          "post_clean", "exit", "link", "done"}]
    BY DEF PostClean, Clean, Goto
<1>3. rc' \in [Builds -> {0, 1}]
    BY DEF PostClean, Clean, Exit
<1>4. config' \in [Builds -> Configs]
    BY ConfigValues DEF PostClean, Clean, dirVars
<1>5. vmlinux' \in [Builds -> Configs]
    BY ConfigValues DEF PostClean, Clean, dirVars
<1>6. archive' \in [Builds -> Configs \cup {Broken}]
    BY DEF PostClean, Clean, dirVars
<1>7. option' = option /\ UNCHANGED linkVars
    BY DEF PostClean, Clean
<1>8. TypeOK'
    BY <1>1, <1>2, <1>3, <1>4, <1>5, <1>6, <1>7 DEF linkVars
<1>9. Others(b)
    BY <1>1, <1>7 DEF Others, PostClean, Clean, Goto, Exit, dirVars
<1>10. /\ pc[b] = "post_clean" /\ pc'[b] = "exit"
       /\ rc'[b] = rc[b] /\ config'[b] = config[b] /\ archive'[b] = archive[b]
    BY DEF PostClean, Clean, Goto, At, dirVars
<1>11. \/ failed'[b] = failed[b] /\ vmlinux'[b] = vmlinux[b]
       \/ failed'[b] = failed[b] /\ vmlinux'[b] = Absent /\ option[b].post_clean
       \/ failed'[b] = failed[b] \cup {"clean"} /\ vmlinux'[b] = vmlinux[b]
    BY DEF PostClean, Clean, Fail, Goto, Exit, dirVars
<1>12. BuildInv(b)'
    BY <1>1, <1>3, <1>7, <1>10, <1>11, ConfigValues DEF BuildInv, ConfigInv, KernelInv, ArchiveInv, Asked,
       ToMerge, Fatal, Configured, Ending
<1>13. \A c \in Builds : BuildInv(c)'
    BY <1>9, <1>12, OneBuild
<1>14. \E s \in {"config", "merge", "mod2yes", "make", "modules", "post_clean", "exit"} : Goto(b, s)
    BY DEF PostClean
<1>15. LinkInv'
    BY <1>7, <1>9, <1>10, <1>14, LinkUntouched DEF Others
<1> QED BY <1>8, <1>13, <1>15

(* The last two steps touch nothing of a build but its pc and what failed. *)
LEMMA RemoveLinkInv ==
    ASSUME IndInv, NEW b \in Builds, RemoveLink(b)
    PROVE  IndInv'
<1>1. TypeOK'
  <2>1. failed' \in [Builds -> SUBSET Commands]
      BY FailStep DEF RemoveLink, Commands, IndInv, TypeOK
  <2>2. pc' \in [Builds -> {"pre_clean", "config", "merge", "mod2yes", "make", "modules",
                            "post_clean", "exit", "link", "done"}]
      BY DEF IndInv, TypeOK, RemoveLink, Goto
  <2>3. link' \in Builds \cup {Nothing, "earlier"}
      BY DEF IndInv, TypeOK, RemoveLink
  <2>4. strays' \in [Builds \cup {"earlier"} -> SUBSET Builds]
      BY DEF IndInv, TypeOK, RemoveLink, Nothing
  <2> QED BY <2>1, <2>2, <2>3, <2>4 DEF IndInv, TypeOK, RemoveLink, dirVars
<1>2. ASSUME NEW c \in Builds PROVE BuildInv(c)'
    BY <1>2 DEF IndInv, TypeOK, BuildInv, ConfigInv, KernelInv, ArchiveInv, Asked, ToMerge, Fatal,
       Configured, Ending, RemoveLink, At, Goto, Fail, dirVars
<1>3. pc[b] = "exit" /\ rc' = rc /\ first_link' = first_link
    BY DEF RemoveLink, At
<1>4. \A c \in Builds \ {b} : pc'[c] = pc[c] /\ failed'[c] = failed[c]
    BY DEF IndInv, TypeOK, RemoveLink, Goto, Fail
<1>5. LinkInv'
  <2>1. CASE rc[b] # 0
    <3>1. pc'[b] = "done" /\ link' = link
        BY <2>1 DEF IndInv, TypeOK, RemoveLink, Goto
    <3>2. Succeeded' = Succeeded
        BY <1>3, <1>4, <2>1, <3>1 DEF Succeeded, At
    <3> QED BY <1>3, <1>4, <2>1, <3>1, <3>2 DEF IndInv, LinkInv, Succeeded, At
  <2>2. CASE rc[b] = 0
    <3>1. pc'[b] = "link" /\ (link' = Nothing \/ (link' = link /\ "rm" \in failed'[b]))
        BY <2>2 DEF IndInv, TypeOK, RemoveLink, Goto, Fail
    <3>2. Succeeded' = Succeeded
        BY <1>3, <1>4, <3>1 DEF Succeeded, At
    <3>3. Nothing \notin Builds
        BY BuildsAssumption
    <3> QED BY <1>3, <1>4, <2>2, <3>1, <3>2, <3>3 DEF IndInv, LinkInv
  <2> QED BY <2>1, <2>2
<1> QED BY <1>1, <1>2, <1>5 DEF IndInv

LEMMA MakeLinkInv ==
    ASSUME IndInv, NEW b \in Builds, MakeLink(b)
    PROVE  IndInv'
<1>1. TypeOK'
  <2>1. failed' \in [Builds -> SUBSET Commands]
      BY FailStep DEF MakeLink, Commands, IndInv, TypeOK
  <2>2. pc' \in [Builds -> {"pre_clean", "config", "merge", "mod2yes", "make", "modules",
                            "post_clean", "exit", "link", "done"}]
      BY DEF IndInv, TypeOK, MakeLink, Goto
  <2>3. link' \in Builds \cup {Nothing, "earlier"}
      BY DEF IndInv, TypeOK, MakeLink
  <2>4. strays' \in [Builds \cup {"earlier"} -> SUBSET Builds]
      BY DEF IndInv, TypeOK, MakeLink, Nothing
  <2> QED BY <2>1, <2>2, <2>3, <2>4 DEF IndInv, TypeOK, MakeLink, dirVars
<1>2. ASSUME NEW c \in Builds PROVE BuildInv(c)'
    BY <1>2 DEF IndInv, TypeOK, BuildInv, ConfigInv, KernelInv, ArchiveInv, Asked, ToMerge, Fatal,
       Configured, Ending, MakeLink, At, Goto, Fail, dirVars
<1>3. /\ pc[b] = "link" /\ pc'[b] = "done" /\ rc' = rc /\ first_link' = first_link
      /\ \A c \in Builds \ {b} : pc'[c] = pc[c]
    BY DEF IndInv, TypeOK, MakeLink, At, Goto
<1>4. rc[b] = 0
    BY <1>3 DEF IndInv, LinkInv
<1>5. Succeeded' = Succeeded \cup {b}
    BY <1>3, <1>4 DEF Succeeded, At
<1>6. \A c \in Builds : failed[c] \subseteq failed'[c]
    BY DEF IndInv, TypeOK, MakeLink, Fail
<1>7. \/ link' = link
      \/ link = Nothing /\ link' = b
    BY DEF MakeLink
<1>8. link' \in Succeeded' \/ failed'[b] \cap {"rm", "ln"} # {}
  <2>1. CASE "rm" \in failed[b]
      BY <1>6, <2>1
  <2>2. CASE link \in Succeeded
      BY <1>5, <1>7, <2>2
  <2>3. CASE link = Nothing
      BY <1>5, <2>3 DEF MakeLink, Fail, IndInv, TypeOK
  <2> QED BY <1>3, <2>1, <2>2, <2>3 DEF IndInv, LinkInv
<1>9. LinkInv'
    BY <1>3, <1>5, <1>6, <1>7, <1>8 DEF IndInv, LinkInv
<1> QED BY <1>1, <1>2, <1>9 DEF IndInv

LEMMA NextInv == IndInv /\ [Next]_vars => IndInv'
<1> SUFFICES ASSUME IndInv, [Next]_vars PROVE IndInv'
    OBVIOUS
<1>1. ASSUME NEW b \in Builds, PreClean(b) PROVE IndInv'
    BY <1>1, PreCleanInv
<1>2. ASSUME NEW b \in Builds, Configure(b) PROVE IndInv'
    BY <1>2, ConfigureInv
<1>3. ASSUME NEW b \in Builds, ConfigureFails(b) PROVE IndInv'
    BY <1>3, ConfigureFailsInv
<1>4. ASSUME NEW b \in Builds, MakeNoTarget(b) PROVE IndInv'
    BY <1>4, MakeNoTargetInv
<1>5. ASSUME NEW b \in Builds, Merge(b) PROVE IndInv'
    BY <1>5, MergeInv
<1>6. ASSUME NEW b \in Builds, Mod2Yes(b) PROVE IndInv'
    BY <1>6, Mod2YesInv
<1>7. ASSUME NEW b \in Builds, Make(b) PROVE IndInv'
    BY <1>7, MakeInv
<1>8. ASSUME NEW b \in Builds, Modules(b) PROVE IndInv'
    BY <1>8, ModulesInv
<1>9. ASSUME NEW b \in Builds, PostClean(b) PROVE IndInv'
    BY <1>9, PostCleanInv
<1>10. ASSUME NEW b \in Builds, RemoveLink(b) PROVE IndInv'
    BY <1>10, RemoveLinkInv
<1>11. ASSUME NEW b \in Builds, MakeLink(b) PROVE IndInv'
    BY <1>11, MakeLinkInv
<1>12. CASE UNCHANGED vars
    BY <1>12 DEF vars, dirVars, linkVars, IndInv, TypeOK, BuildInv, ConfigInv, KernelInv, ArchiveInv,
       LinkInv, Succeeded, At, Asked, ToMerge
<1> QED BY <1>1, <1>2, <1>3, <1>4, <1>5, <1>6, <1>7, <1>8, <1>9, <1>10, <1>11, <1>12 DEF Next, Finished

(* What is known of each build and of the link holds in every reachable    *)
(* state of any number of builds.                                          *)
THEOREM IndInvHolds == Spec => []IndInv
BY InitInv, NextInv, PTL DEF Spec

(* Every variable of the kernel builds keeps its type.                     *)
THEOREM TypeCorrect == Spec => []TypeOK
<1>1. IndInv => TypeOK
    BY DEF IndInv
<1> QED BY IndInvHolds, <1>1, PTL

(* A build that exits with 0 linked the kernel of its .config, which is    *)
(* the one asked for unless a step whose status is not looked at failed,   *)
(* and never that of a custom configuration.                               *)
THEOREM OkIsTheKernelAskedForHolds == Spec => []OkIsTheKernelAskedFor
<1>1. IndInv => OkIsTheKernelAskedFor
    BY DEF IndInv, BuildInv, ConfigInv, KernelInv, OkIsTheKernelAskedFor, Succeeded, At, Fatal,
       Configured, Ending
<1> QED BY IndInvHolds, <1>1, PTL

(* Whenever the directory is looked at, new modules are not beside another *)
(* kernel than the one they were installed with.                           *)
THEOREM ModulesNotAheadHolds == Spec => []ModulesNotAhead
<1>1. IndInv => ModulesNotAhead
    BY DEF IndInv, BuildInv, KernelInv, ArchiveInv, ModulesNotAhead, Ending
<1> QED BY IndInvHolds, <1>1, PTL

(* However the builds' rm -f and ln -s interleave and fail, and whatever   *)
(* latest-kernel named before, it is put on no build but one that          *)
(* succeeded, and on one if there is one and rm and ln worked.             *)
THEOREM LatestIsOkHolds == Spec => []LatestIsOk
<1>1. IndInv => LatestIsOk
    BY DEF IndInv, LinkInv, LatestIsOk, Succeeded, At
<1> QED BY IndInvHolds, <1>1, PTL
=============================================================================
