----------------------------- MODULE EnvLookup ------------------------------
(***************************************************************************)
(* lib/utils.py, get_vmlinux(), get_tarball(), get_expected_release(): the *)
(* kernel, its release and its tarballs are looked for one by one, in the  *)
(* build tree $KBUILD_OUTPUT and in the current directory, and not in the  *)
(* same order.  The three must describe one kernel.  QemuConfig starts     *)
(* with these lookups.                                                     *)
(***************************************************************************)
Trees == {"env", "cwd"}
Files == {"vmlinux", "config_release", "release", "modules", "selftests"}
Nowhere == "none"

VARIABLES env_set,    \* KBUILD_OUTPUT is set
          holds,      \* the files of each tree
          found       \* where each was found; "open" before it was looked for

Lookups == {"vmlinux", "release", "modules", "selftests"}

LookupInit == found = [l \in Lookups |-> "open"]

Has(tree, file) == (tree = "env" => env_set) /\ file \in holds[tree]

FirstOf(a, ta, b, tb) == IF a THEN ta ELSE IF b THEN tb ELSE Nowhere

GetVmlinux == FirstOf(Has("env", "vmlinux"), "env", Has("cwd", "vmlinux"), "cwd")

(* The current directory comes first, unlike for vmlinux. *)
GetTarball(f) == FirstOf(Has("cwd", f), "cwd", Has("env", f), "env")

GetExpectedReleaseDefect ==
    FirstOf(Has("cwd", "config_release"), "cwd", Has("env", "config_release"), "env")
(* include/config/kernel.release of either tree, then ./kernel.release;    *)
(* kernel.release on top of $KBUILD_OUTPUT is not a candidate.             *)
GetExpectedRelease ==
    FirstOf(Has("env", "config_release"), "env",
            Has("cwd", "config_release") \/ Has("cwd", "release"), "cwd")

Lookup ==
    /\ found' = [l \in Lookups |->
                    CASE l = "vmlinux" -> GetVmlinux
                      [] l = "release" -> GetExpectedRelease
                      [] OTHER -> GetTarball(l)]
    /\ UNCHANGED <<env_set, holds>>

-----------------------------------------------------------------------------
(* Kernel and release come from different trees only where one of the two  *)
(* is missing in the build tree; a build tree in ngci's own layout, with   *)
(* kernel.release on top, is such a tree.  What is given on the command    *)
(* line is not looked for.                                                 *)
ReleaseIsOfKernel ==
    found["vmlinux"] \in Trees /\ found["release"] \in Trees
        /\ found["vmlinux"] # found["release"] =>
            /\ env_set
            /\ {"vmlinux", "config_release"} \cap holds["env"] # {}
            /\ ~({"vmlinux", "config_release"} \subseteq holds["env"])

(* README.md:188 promises that a tarball put into the current directory is *)
(* detected: it wins over one of the build tree the kernel comes from, and *)
(* none is missed.                                                         *)
TarballInCwdWins ==
    \A f \in {"modules", "selftests"} : found[f] \notin {"open", "given"} =>
        /\ found[f] = "cwd" <=> f \in holds["cwd"]
        /\ found[f] = Nowhere <=> \A t \in Trees : ~Has(t, f)
=============================================================================
