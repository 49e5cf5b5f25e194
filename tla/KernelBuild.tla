---------------------------- MODULE KernelBuild -----------------------------
(***************************************************************************)
(* build/scripts/build.sh and container-build.sh, for the kernel task:     *)
(* builds that run side by side, each in an output directory of its own,   *)
(* with a symlink to the latest kernel that all of them replace.  Whether  *)
(* a command fails is up to the environment; what is modelled is which of  *)
(* the failures the scripts look at and what is left behind.               *)
(***************************************************************************)
EXTENDS Naturals

CONSTANTS Builds,    \* each with its own output directory
          Options    \* of a build, see OptionType

OptionType ==
    [config : {"defconfig", "existing", "custom"}, merge : BOOLEAN, mod2yes : BOOLEAN,
     sparse : BOOLEAN, modules : BOOLEAN, pre_clean : BOOLEAN, post_clean : BOOLEAN]

ASSUME OptionsAssumption == Options \subseteq OptionType

VARIABLES
    option,      \* of each build
    pc, rc,
    config,      \* .config
    vmlinux,     \* the .config it was linked from
    archive,     \* the .config of the modules in it
    failed,      \* the commands that failed: history
    link,        \* what latest-kernel names: a build's directory, "earlier", "none"
    first_link,  \* what it named before these builds: history
    strays       \* links that ended up inside a directory

dirVars == <<config, vmlinux, archive>>
linkVars == <<link, first_link, strays>>
vars == <<option, pc, rc, dirVars, failed, linkVars>>

(* A .config is told by what went into it: the one asked for ("base"),     *)
(* the fragments, mod2yesconfig; "old" is one an earlier build left.       *)
Parts == {"old", "base", "merge", "mod2yes"}
Absent == {"absent"}
Broken == {"broken"}
Old == {"old"}
Configs == {Absent} \cup SUBSET Parts

Nothing == "none"
ASSUME BuildsAssumption == {Nothing, "earlier"} \cap Builds = {}

(* The directories may hold anything of earlier builds, and latest-kernel  *)
(* name one of them, that is going to be built in again or not.            *)
Init ==
    /\ option \in [Builds -> Options]
    /\ pc = [b \in Builds |-> "pre_clean"]
    /\ rc = [b \in Builds |-> 0]
    /\ config \in [Builds -> {Absent, Old}]
    /\ vmlinux \in [Builds -> {Absent, Old}]
    /\ archive \in [Builds -> {Absent, Old}]
    /\ failed = [b \in Builds |-> {}]
    /\ link \in Builds \cup {Nothing, "earlier"}
    /\ first_link = link
    /\ strays = [d \in Builds \cup {"earlier"} |-> {}]

-----------------------------------------------------------------------------
At(b, step) == pc[b] = step
Goto(b, step) == pc' = [pc EXCEPT ![b] = step]
Exit(b, status) == rc' = [rc EXCEPT ![b] = status]
Fail(b, commands) == failed' = [failed EXCEPT ![b] = @ \cup commands]

(* make clean; its status is not looked at. *)
Clean(b, asked) ==
    \/ ~asked /\ UNCHANGED <<vmlinux, failed>>
    \/ asked /\ vmlinux' = [vmlinux EXCEPT ![b] = Absent] /\ UNCHANGED failed
    \/ asked /\ Fail(b, {"clean"}) /\ UNCHANGED vmlinux

PreClean(b) ==
    /\ At(b, "pre_clean")
    /\ Goto(b, "config")
    /\ Clean(b, option[b].pre_clean)
    /\ UNCHANGED <<option, rc, config, archive, linkVars>>

Configure(b) ==
    /\ At(b, "config")
    /\ option[b].config # "custom"
    /\ Goto(b, "merge")
    /\ config' = [config EXCEPT ![b] = {"base"}]
    /\ UNCHANGED <<option, rc, vmlinux, archive, failed, linkVars>>

(* Definitions named ...Defect are not part of the model. *)
ConfigureFailsDefect(b) ==
    /\ At(b, "config")
    /\ option[b].config # "custom"
    /\ Goto(b, "merge")
    /\ Fail(b, {IF option[b].config = "existing" THEN "cp" ELSE "defconfig"})
    /\ UNCHANGED <<option, rc, dirVars, linkVars>>
(* Only the copy of an existing .config is fatal. *)
ConfigureFails(b) ==
    /\ At(b, "config")
    /\ \/ option[b].config = "existing" /\ Fail(b, {"cp"}) /\ Exit(b, 1) /\ Goto(b, "exit")
       \/ option[b].config = "defconfig" /\ Fail(b, {"defconfig"}) /\ Goto(b, "merge") /\ UNCHANGED rc
    /\ UNCHANGED <<option, dirVars, linkVars>>

LinkKernel(b) == config[b] # Absent /\ vmlinux' = [vmlinux EXCEPT ![b] = config[b]]
LinkFails(b, command) ==
    /\ \E left \in {vmlinux[b], Absent} : vmlinux' = [vmlinux EXCEPT ![b] = left]
    /\ Fail(b, {command})

(* build.sh mounts a custom .config but passes neither CUSTOM_CONFIG nor a *)
(* DEFCONFIG, and what should make the .config is `make` without a target: *)
(* it builds with the .config that is there.                               *)
MakeNoTarget(b) ==
    /\ At(b, "config")
    /\ option[b].config = "custom"
    /\ Goto(b, "merge")
    /\ (LinkKernel(b) /\ UNCHANGED failed) \/ LinkFails(b, "no target")
    /\ UNCHANGED <<option, rc, config, archive, linkVars>>

(* What merge_config.sh and olddefconfig make of a .config, when those in  *)
(* bad fail.  olddefconfig writes one where none is.                       *)
Merged(c, bad) ==
    IF c # Absent THEN IF "merge" \in bad THEN c ELSE c \cup {"merge"}
    ELSE IF "olddefconfig" \in bad THEN Absent ELSE {}

(* rc is the status of the whole if statement: that of olddefconfig, or 0  *)
(* without a MERGE_CONFIG.                                                 *)
Merge(b) ==
    /\ At(b, "merge")
    /\ Goto(b, "mod2yes")
    /\ \/ ~option[b].merge /\ UNCHANGED <<rc, config, failed>>
       \/ /\ option[b].merge
          /\ \E bad \in SUBSET {"merge", "olddefconfig"} :
                /\ config[b] = Absent => "merge" \in bad
                /\ config' = [config EXCEPT ![b] = Merged(@, bad)]
                /\ Fail(b, bad)
                /\ Exit(b, IF "olddefconfig" \in bad THEN 1 ELSE 0)
    /\ UNCHANGED <<option, vmlinux, archive, linkVars>>

(* Done, and its status ignored, whatever rc is. *)
Mod2Yes(b) ==
    /\ At(b, "mod2yes")
    /\ Goto(b, "make")
    /\ \/ ~option[b].mod2yes /\ UNCHANGED <<config, failed>>
       \/ /\ option[b].mod2yes
          /\ config' = [config EXCEPT ![b] = (@ \ Absent) \cup {"mod2yes"}]
          /\ UNCHANGED failed
       \/ option[b].mod2yes /\ Fail(b, {"mod2yes"}) /\ UNCHANGED config
    /\ UNCHANGED <<option, rc, vmlinux, archive, linkVars>>

(* make needs a .config; with SPARSE its log is looked at afterwards. *)
Make(b) ==
    /\ At(b, "make")
    /\ Goto(b, "modules")
    /\ \/ rc[b] # 0 /\ UNCHANGED <<rc, vmlinux, failed>>
       \/ rc[b] = 0 /\ LinkKernel(b) /\ UNCHANGED <<rc, failed>>
       \/ rc[b] = 0 /\ option[b].sparse /\ LinkKernel(b) /\ Fail(b, {"sparse"}) /\ Exit(b, 1)
       \/ rc[b] = 0 /\ LinkFails(b, "make") /\ Exit(b, 1)
    /\ UNCHANGED <<option, config, archive, linkVars>>

Archived(b) ==
    \/ UNCHANGED <<rc, archive, failed>>
    \/ /\ option[b].modules
       /\ \/ Fail(b, {"modules"}) /\ Exit(b, 1) /\ UNCHANGED archive
          \/ archive' = [archive EXCEPT ![b] = config[b]] /\ UNCHANGED <<rc, failed>>
          \/ archive' = [archive EXCEPT ![b] = Broken] /\ Fail(b, {"tar"}) /\ UNCHANGED rc
ModulesDefect(b) ==
    /\ At(b, "modules")
    /\ Goto(b, "post_clean")
    /\ Archived(b)
    /\ UNCHANGED <<option, config, vmlinux, linkVars>>
(* modules_install and the archive, if modules are asked for and the       *)
(* .config has any; what an earlier build left stays there if not.         *)
Modules(b) ==
    /\ At(b, "modules")
    /\ Goto(b, "post_clean")
    /\ IF rc[b] = 0 THEN Archived(b) ELSE UNCHANGED <<rc, archive, failed>>
    /\ UNCHANGED <<option, config, vmlinux, linkVars>>

PostClean(b) ==
    /\ At(b, "post_clean")
    /\ Goto(b, "exit")
    /\ Clean(b, option[b].post_clean)
    /\ UNCHANGED <<option, rc, config, archive, linkVars>>

-----------------------------------------------------------------------------
(* build.sh, when the container has exited; it exits with the container's  *)
(* status, whether rm and ln succeed or not.                               *)
RemoveLinkDefect(b) ==
    /\ At(b, "exit")
    /\ Goto(b, "link")
    /\ link' = Nothing /\ UNCHANGED failed
    /\ UNCHANGED <<option, rc, dirVars, first_link, strays>>
RemoveLink(b) ==
    /\ At(b, "exit")
    /\ \/ rc[b] # 0 /\ Goto(b, "done") /\ UNCHANGED <<link, failed>>
       \/ rc[b] = 0 /\ Goto(b, "link") /\ link' = Nothing /\ UNCHANGED failed
       \/ rc[b] = 0 /\ Goto(b, "link") /\ Fail(b, {"rm"}) /\ UNCHANGED link
    /\ UNCHANGED <<option, rc, dirVars, first_link, strays>>

(* ln -s, where another build has put its link meanwhile or an old one     *)
(* could not be removed, makes a link inside the directory that one names. *)
MakeLink(b) ==
    /\ At(b, "link")
    /\ Goto(b, "done")
    /\ \/ Fail(b, {"ln"}) /\ UNCHANGED <<link, strays>>
       \/ link = Nothing /\ link' = b /\ UNCHANGED <<failed, strays>>
       \/ /\ link # Nothing
          /\ strays' = [strays EXCEPT ![link] = @ \cup {b}]
          /\ UNCHANGED <<failed, link>>
    /\ UNCHANGED <<option, rc, dirVars, first_link>>

Finished == (\A b \in Builds : At(b, "done")) /\ UNCHANGED vars

Next ==
    \/ \E b \in Builds :
          \/ PreClean(b) \/ Configure(b) \/ ConfigureFails(b) \/ MakeNoTarget(b) \/ Merge(b)
          \/ Mod2Yes(b) \/ Make(b) \/ Modules(b) \/ PostClean(b) \/ RemoveLink(b) \/ MakeLink(b)
    \/ Finished

Spec == Init /\ [][Next]_vars

-----------------------------------------------------------------------------
Commands == {"clean", "cp", "defconfig", "no target", "merge", "olddefconfig", "mod2yes", "make",
             "sparse", "modules", "tar", "rm", "ln"}

(* Every variable keeps its type. *)
TypeOK ==
    /\ option \in [Builds -> Options]
    /\ pc \in [Builds -> {"pre_clean", "config", "merge", "mod2yes", "make", "modules",
                          "post_clean", "exit", "link", "done"}]
    /\ rc \in [Builds -> {0, 1}]
    /\ config \in [Builds -> Configs] /\ vmlinux \in [Builds -> Configs]
    /\ archive \in [Builds -> Configs \cup {Broken}]
    /\ failed \in [Builds -> SUBSET Commands]
    /\ {link, first_link} \subseteq Builds \cup {Nothing, "earlier"}
    /\ strays \in [Builds \cup {"earlier"} -> SUBSET Builds]

Succeeded == {b \in Builds : At(b, "done") /\ rc[b] = 0}
Asked(b) == {"base"} \cup (IF option[b].merge THEN {"merge"} ELSE {})
                     \cup (IF option[b].mod2yes THEN {"mod2yes"} ELSE {})

(* A build that exits with 0 has linked the kernel of its .config (and may *)
(* have removed it again with POST_CLEAN): no kernel of an earlier build   *)
(* is taken for its own, and no failed copy, link, check or installation   *)
(* goes unnoticed.  The .config is the one asked for, unless a defconfig,  *)
(* merge_config.sh or mod2yesconfig failed, whose status is not looked at; *)
(* or it was asked to be a custom one, which is never used.                *)
OkIsTheKernelAskedFor ==
    \A b \in Succeeded :
        /\ failed[b] \cap {"cp", "olddefconfig", "make", "sparse", "modules"} = {}
        /\ vmlinux[b] = config[b] \/ (vmlinux[b] = Absent /\ option[b].post_clean)
        /\ IF option[b].config = "custom" THEN "base" \notin config[b]
           ELSE config[b] = Asked(b) \/ failed[b] \cap {"defconfig", "merge", "mod2yes"} # {}

(* At no moment, when a build is killed between two commands or its kernel *)
(* is taken while it runs, are there new modules beside an older kernel or *)
(* the remains of a failed link.  The opposite, a new kernel beside the    *)
(* modules archive of an earlier one, happens: when the link or            *)
(* modules_install fails late, or no modules are asked for any more.       *)
ModulesNotAhead ==
    \A b \in Builds :
        archive[b] \in {Absent, Old} \/ vmlinux[b] = config[b]
            \/ (vmlinux[b] = Absent /\ option[b].post_clean)

(* README.md:32: "The kernel will be in .../latest-kernel/vmlinux".  Once  *)
(* no build is running, and however their ends were interleaved, the link  *)
(* names the directory of a build that succeeded, if there is one and rm   *)
(* and ln did not fail, and is left alone if there is none.  A build that  *)
(* fails is never put there; but one whose directory the link named before *)
(* has already spoilt what it names.                                       *)
LatestIsOk ==
    /\ link \in Builds => link = first_link \/ link \in Succeeded
    /\ (\A b \in Builds : At(b, "done")) =>
          \/ link = first_link /\ Succeeded = {}
          \/ link \in Succeeded
          \/ \E b \in Succeeded : failed[b] \cap {"rm", "ln"} # {}
=============================================================================
