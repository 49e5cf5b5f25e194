------------------------------ MODULE SuiteDef ------------------------------
(***************************************************************************)
(* lib/ngci.py, TestSuite and the classes of its members: what a suite     *)
(* function of etc/tests.py defines by a series of add_...() calls, before *)
(* anything is built.  Kernels are found again by name, boots by the name  *)
(* of their directory, and the lists of configuration fragments given to   *)
(* them are Python lists, which the callers share.                         *)
(***************************************************************************)
EXTENDS Integers, Sequences, FiniteSets

CONSTANTS Programs,    \* the series of calls considered, see Calls
          Qemus        \* of the suite: versions, "host" or a path

(* A defconfig: the base name, a + suffix, whether it is in a directory.   *)
Defconfigs == [base : {"pseries", "powernv", "g5", "mpc885"}, plus : BOOLEAN, slash : BOOLEAN]
Images == {"korg@5.5.0", "korg@8.5.0", "fedora"}
(* merge_config: a list written in the call, or one that is shared. *)
Shared == <<"powernv_configs">>
Fragments == {"powernv", "lockdep-y", "btf-n"}
Merges == {<<>>, <<"lockdep-y">>, Shared}
Kernels == [defconfig : Defconfigs, image : Images, merge : Merges, clang : BOOLEAN]
Boots == [name : {"host", "qemu"}, defconfig : Defconfigs, image : Images, cmdline : BOOLEAN]

KernelCall(k) == [call |-> "kernel", kernel |-> k]
BootCall(b) == [call |-> "boot", boot |-> b]
AppendCall(x) == [call |-> "append", item |-> x]
Calls == [call : {"kernel"}, kernel : Kernels] \cup [call : {"boot"}, boot : Boots]
            \cup [call : {"append"}, item : Fragments]

ASSUME ProgramsAssumption == Programs \subseteq Seq(Calls)

VARIABLES
    todo,              \* calls to come
    powernv_configs,   \* the shared list, as it is now
    kernels, boots,    \* by key
    outcome

vars == <<todo, powernv_configs, kernels, boots, outcome>>

Init ==
    /\ todo \in Programs
    /\ powernv_configs = <<"powernv">>
    /\ kernels = <<>>
    /\ boots = <<>>
    /\ outcome = "open"

-----------------------------------------------------------------------------
Name(k) == <<k.defconfig, k.image>>

(* defconfig_subarch(): by prefix or by base name. *)
Subarch(d) == CASE d.base = "powernv" -> "ppc64le"
                [] d.base \in {"pseries", "g5"} -> "ppc64"
                [] OTHER -> "ppc"

(* A list is what it holds when it is looked at. *)
Contents(merge) == IF merge = Shared THEN powernv_configs ELSE merge

SameKernel(a, b) ==
    /\ Name(a) = Name(b)
    /\ Contents(a.merge) = Contents(b.merge)
    /\ a.clang = b.clang

Put(f, key, x) == [i \in DOMAIN f \cup {key} |-> IF i = key THEN x ELSE f[i]]
Raises == outcome' = "raised" /\ UNCHANGED <<powernv_configs, kernels, boots>>

(* Definitions named ...Defect are not part of the model. *)
AddKernelDefect(k) ==
    /\ kernels' = Put(kernels, Name(k), k)
    /\ UNCHANGED <<powernv_configs, boots, outcome>>

(* A second kernel of a name replaces the first, if they are equal. *)
AddKernel(k) ==
    IF Name(k) \in DOMAIN kernels /\ ~SameKernel(kernels[Name(k)], k)
    THEN Raises
    ELSE /\ kernels' = Put(kernels, Name(k), k)
         /\ UNCHANGED <<powernv_configs, boots, outcome>>

(* dir_name() of a boot: qemu boots have the version in it. *)
QemuDir(q) == IF q = "/path" THEN "custom-hash" ELSE q
BootKey(b, q) == <<b.name, IF b.name = "qemu" THEN QemuDir(q) ELSE "none", Name(b)>>

(* add_boot(), or add_qemu_boot() for every qemu: a boot of an unknown     *)
(* kernel is a KeyError.                                                   *)
AddBoot(b) ==
    LET qs == IF b.name = "qemu" THEN Qemus ELSE {"none"}
        keys == {BootKey(b, q) : q \in qs}
    IN  IF \/ Name(b) \notin DOMAIN kernels
           \/ \E key \in keys : key \in DOMAIN boots /\ boots[key].cmdline # b.cmdline
        THEN Raises
        ELSE /\ boots' = [key \in DOMAIN boots \cup keys |->
                            IF key \in keys
                            THEN [cmdline |-> b.cmdline, kernel_build |-> kernels[Name(b)]]
                            ELSE boots[key]]
             /\ UNCHANGED <<powernv_configs, kernels, outcome>>

(* etc/tests.py:286-289: cfgs = powernv_configs; cfgs.append('btf-n'). *)
AppendToShared(x) ==
    /\ powernv_configs' = Append(powernv_configs, x)
    /\ UNCHANGED <<kernels, boots, outcome>>

Do ==
    /\ outcome = "open"
    /\ todo # <<>>
    /\ todo' = Tail(todo)
    /\ CASE Head(todo).call = "kernel" -> AddKernel(Head(todo).kernel)
         [] Head(todo).call = "boot" -> AddBoot(Head(todo).boot)
         [] Head(todo).call = "append" -> AppendToShared(Head(todo).item)

Return ==
    /\ outcome = "open"
    /\ todo = <<>>
    /\ outcome' = "suite"
    /\ UNCHANGED <<todo, powernv_configs, kernels, boots>>

Finished == outcome # "open" /\ UNCHANGED vars

Next == Do \/ Return \/ Finished
Spec == Init /\ [][Next]_vars

-----------------------------------------------------------------------------
(* Where the kernel is built and looked for. *)
(* dir_name(): the / of a defconfig becomes _, nothing else changes. *)
DirName(k) == <<[k.defconfig EXCEPT !.slash = FALSE], Subarch(k.defconfig), k.image>>

(* get_output_dir() of build/scripts/lib.sh, for a kernel. *)
OutputDir(k) ==
    LET d == [k.defconfig EXCEPT !.slash = FALSE]
    IN  <<IF k.clang /\ ~d.plus THEN [d EXCEPT !.plus = TRUE] ELSE d,
          Subarch(k.defconfig), k.image>>

(* filter_matches(): the first filter that has an opinion decides.  A      *)
(* filter excludes or includes, and matches the name or not.               *)
Filters == [excludes : BOOLEAN, matches : BOOLEAN]
FilterMatchesDefect(fs) == \E i \in DOMAIN fs : fs[i].matches /\ ~fs[i].excludes
FilterMatches(fs) ==
    LET f[i \in 1..(Len(fs) + 1)] ==
            IF i > Len(fs) THEN FALSE
            ELSE IF ~fs[i].matches THEN f[i + 1] ELSE ~fs[i].excludes
    IN  f[1]

(* image_at_least(): is an image at least as new as one of the versions    *)
(* there are of its name, <<>> being no version, which is the latest.      *)
(* Versions have up to three parts, of one or two digits; the dots are     *)
(* taken out and what is left is one number.                               *)
Versions == UNION {[1..n -> 0..99] : n \in 1..3}
Base(n) == IF n < 10 THEN 10 ELSE 100
NumberDefect(v) == CASE Len(v) = 1 -> v[1]
                     [] Len(v) = 2 -> v[1] + v[2]
                     [] Len(v) = 3 -> v[1] + v[2] + v[3]
Number(v) == CASE Len(v) = 1 -> v[1]
               [] Len(v) = 2 -> v[1] * Base(v[2]) + v[2]
               [] Len(v) = 3 -> (v[1] * Base(v[2]) + v[2]) * Base(v[3]) + v[3]

AtLeast(image, versions) ==
    \E i \in DOMAIN versions :
        /\ versions[i].name = image.name
        /\ image.version # <<>> => Number(image.version) >= Number(versions[i].version)

-----------------------------------------------------------------------------
(* The tests of one qemu boot share its console log: setup() of each adds  *)
(* its callbacks between two markers, and its run.sh judges the lines from *)
(* the one that matches its start marker to the one that matches its end   *)
(* marker.  A marker is matched as a text: that of a name which is the     *)
(* beginning of another's matches there too.                               *)
TestNames == {"qemu-selftests", "qemu-selftests-powerpc", "qemu-test-kasan"}
Matches(name, other) == name = other \/ (name = "qemu-selftests" /\ other = "qemu-selftests-powerpc")

(* The log of a boot with these tests, each with its result. *)
TestLines(t) == <<[mark |-> "starting", name |-> t.name],
                  [mark |-> t.result, name |-> "output"],
                  [mark |-> "end", name |-> t.name]>>
Console(tests) ==
    LET f[i \in 0..Len(tests)] == IF i = 0 THEN <<>> ELSE f[i - 1] \o TestLines(tests[i])
    IN  f[Len(tests)]

ExtractedDefect(log, name) == DOMAIN log
(* awk '/starting-name/, /end-name/': line i is in a range if the last     *)
(* start up to it is not followed by an end before it.                     *)
Extracted(log, name) ==
    {i \in DOMAIN log :
        \E s \in 1..i : /\ log[s].mark = "starting" /\ Matches(name, log[s].name)
                        /\ \A e \in s..(i - 1) :
                              ~(log[e].mark = "end" /\ Matches(name, log[e].name))}

(* The run.sh of selftests greps what is extracted for "not ok"; that of a *)
(* qemu-test-... only extracts.                                            *)
Judges(name) == name # "qemu-test-kasan"
RunShPasses(log, name) ==
    Judges(name) => \A i \in Extracted(log, name) : log[i].mark # "not ok"

-----------------------------------------------------------------------------
Appended == powernv_configs # <<"powernv">>

(* What a boot will boot is built as the suite function said when it added *)
(* the boot, however many functions add kernels and boots of the same name *)
(* to one suite: nothing is replaced by something different.  Where a      *)
(* shared list was appended to meanwhile (Appended) kernels that are equal *)
(* by their lists are so only by name: see BtfOffOnlyFor550.               *)
BootsGetTheirKernel ==
    \A key \in DOMAIN boots :
        LET k == boots[key].kernel_build IN
        Name(k) \in DOMAIN kernels /\ (~Appended => SameKernel(k, kernels[Name(k)]))

(* etc/tests.py:288: "BTF causes build errors with 5.5.0, disable it": it  *)
(* is disabled for no other image.                                         *)
BtfOffOnlyFor550 ==
    \A n \in DOMAIN kernels :
        \A i \in DOMAIN Contents(kernels[n].merge) :
            Contents(kernels[n].merge)[i] = "btf-n" => kernels[n].image = "korg@5.5.0"

(* ngci.py:121: dir_name() "has to match get_output_dir() in lib.sh", or   *)
(* ngci looks for artifacts in a directory nothing is built in.            *)
DirNameMatchesOutputDir ==
    \A n \in DOMAIN kernels : DirName(kernels[n]) = OutputDir(kernels[n])

Defined == outcome = "suite"

(* Of the suite that was defined, filters in any number and order let pass *)
(* a name exactly if a filter for it is not preceded by one against it;    *)
(* excluding filters alone select nothing.                                 *)
FilterIsReference ==
    Defined => \A fs \in UNION {[1..n -> Filters] : n \in 0..3} :
        FilterMatches(fs) <=>
            \E i \in DOMAIN fs :
                /\ fs[i].matches /\ ~fs[i].excludes
                /\ \A k \in 1..i : ~(fs[k].matches /\ fs[k].excludes)

(* Versions in their order, part by part, when they have the same shape:   *)
(* as many parts, and as many digits in all but the first.                 *)
Later(v, w) ==
    v = w \/ \E i \in DOMAIN v : v[i] > w[i] /\ \A k \in 1..(i - 1) : v[k] = w[k]
Alike(v, w) == Len(v) = Len(w) /\ \A i \in 2..Len(v) : Base(v[i]) = Base(w[i])

(* The weight of the first part: the digits behind it. *)
Weight(v) == CASE Len(v) = 1 -> 1
               [] Len(v) = 2 -> Base(v[2])
               [] Len(v) = 3 -> Base(v[2]) * Base(v[3])

(* Some versions, of two parts and with two digits among them, and the     *)
(* lists the suite functions ask for.                                      *)
SomeVersions == {<<5, 5, 0>>, <<5, 10, 0>>, <<8, 5, 0>>, <<8, 5>>, <<9, 5>>, <<12, 1, 0>>, <<13, 0, 0>>,
                 <<12, 0, 10>>, <<14>>, <<31>>, <<36>>, <<4>>}
SomeImages == [name : {"korg", "fedora", "ubuntu"}, version : SomeVersions \cup {<<>>}]
SomeLists == {<<[name |-> "fedora", version |-> <<31>>], [name |-> "korg", version |-> <<8, 5, 0>>]>>,
              <<[name |-> "fedora", version |-> <<36>>], [name |-> "korg", version |-> <<12, 1, 0>>]>>}

(* An image passes for new enough as its name and version say, as long as  *)
(* the versions of its name are of its shape.  Where they are not, an      *)
(* older release passes only with more digits behind its first part, and   *)
(* a newer one is refused only with fewer: korg@5.10.0 passes for 8.5.0    *)
(* and korg@9.5 does not.                                                  *)
VersionsCompare ==
    Defined => \A image \in SomeImages, versions \in SomeLists :
        LET v == image.version
            asked == {versions[i].version : i \in {n \in DOMAIN versions : versions[n].name = image.name}}
            passes == AtLeast(image, versions)
        IN  /\ v = <<>> => (passes <=> asked # {})
            /\ v # <<>> /\ (\A w \in asked : Alike(v, w)) => (passes <=> \E w \in asked : Later(v, w))
            /\ v # <<>> /\ passes => \E w \in asked : v[1] >= w[1] \/ Weight(v) > Weight(w)
            /\ v # <<>> /\ ~passes => \A w \in asked : v[1] <= w[1] \/ Weight(v) < Weight(w)

(* Whatever tests run in one boot, in any order, the verdict on each of    *)
(* the selftests is that of its own output and no other's, as long as no   *)
(* name is the beginning of another.  A qemu-test-... passes whatever it   *)
(* printed.                                                                *)
SomeTests == [name : TestNames, result : {"ok", "not ok"}]
VerdictIsOwn ==
    Defined => \A tests \in UNION {[1..n -> SomeTests] : n \in 1..2} :
        (\A i, k \in DOMAIN tests : i # k => ~Matches(tests[i].name, tests[k].name)) =>
            \A i \in DOMAIN tests :
                RunShPasses(Console(tests), tests[i].name) <=>
                    (Judges(tests[i].name) => tests[i].result = "ok")
=============================================================================
