----------------------------- MODULE QemuConfig -----------------------------
(***************************************************************************)
(* lib/qemu.py: what QemuConfig makes of its arguments before anything     *)
(* boots.  configure_from_args(), apply_defaults(), prepare_cloud_image()  *)
(* and cmd() each read attributes an earlier one may not have set, and     *)
(* hand out drives, PCI buses and prompts that the guest side of the       *)
(* session must agree with.                                                *)
(***************************************************************************)
EXTENDS Integers, Sequences, EnvLookup

CONSTANTS
    Args,         \* the command lines considered, see ArgType
    Places(_)     \* and where each is given: the trees and KBUILD_OUTPUT

None == "none"
(* Which of the three its file name contains; "other": none of them.       *)
Clouds == {None, "ubuntu", "fedora", "debian", "other"}
Tests == {None, "own", "generic"}   \* own: tests/<name>/test.py exists

(* empty: the kernel.release that is read says nothing.  preset: the       *)
(* script sets qemu_cmd, and it or --mem-size sets mem, as apply_defaults()*)
(* would (qemu-ppc64e, qemu-e500mc, qemu-g5).                              *)
ArgType ==
    [given : SUBSET Lookups, empty : BOOLEAN, root_disks : BOOLEAN, preset : BOOLEAN,
     cloud : Clouds, initrd : BOOLEAN,
     mounts : Nat, mounts_ok : BOOLEAN, test : Tests, test_args : BOOLEAN]

PlaceType == [env_set : BOOLEAN, holds : [Trees -> SUBSET Files]]

ASSUME ArgsAssumption ==
    Args \subseteq ArgType /\ \A a \in Args : Places(a) \subseteq PlaceType

VARIABLES
    args, conf_phase,
    disks,        \* contents of the drives, in command line order
    drive_of,     \* which drive the session reads each content from
    mount_tags,   \* number of 9p devices
    prompt, initrd,
    root          \* number of the drive of the root= argument, -1 for none

confVars == <<env_set, holds, found, args, conf_phase, disks, drive_of, mount_tags, prompt, initrd, root>>

Contents == {"modules", "selftests", "test", "cloud", "cloud-init"}

(* The prompts differ in what they need: "root@ubuntu:" appears in every   *)
(* directory, the others name the home directory.                          *)
Prompts == {None, "anywhere", "home"}

ConfInit ==
    /\ args \in Args
    /\ \E place \in Places(args) : env_set = place.env_set /\ holds = place.holds
    /\ LookupInit
    /\ conf_phase = "env"
    /\ disks = <<>>
    /\ drive_of = [c \in Contents |-> -1]
    /\ mount_tags = 0
    /\ prompt = None
    /\ initrd = None
    /\ root = -1

inputVars == <<env_set, holds, found, args>>

ConfigureFromEnv ==
    /\ conf_phase = "env"
    /\ Lookup
    /\ conf_phase' = "args"
    /\ UNCHANGED <<args, disks, drive_of, mount_tags, prompt, initrd, root>>

(* Paths given as options override what was found. *)
ConfigureFromArgs ==
    /\ conf_phase = "args"
    /\ found' = [l \in Lookups |-> IF l \in args.given THEN "given" ELSE found[l]]
    /\ initrd' = IF args.initrd THEN "given" ELSE None
    /\ conf_phase' = "parsed"
    /\ UNCHANGED <<env_set, holds, args, disks, drive_of, mount_tags, prompt, root>>

Known(input) == found[input] # Nowhere

(* add_drive() for each of cs: drives are numbered from 0, in order. *)
AddDrives(ds, cs) ==
    /\ disks' = ds \o cs
    /\ drive_of' = [c \in Contents |->
          IF \E i \in DOMAIN cs : cs[i] = c
          THEN Len(ds) + (CHOOSE i \in DOMAIN cs : cs[i] = c) - 1 ELSE drive_of[c]]

When(b, x) == IF b THEN <<x>> ELSE <<>>

(* Definitions named ...Defect are not part of the model. *)
DefaultsMissingDefect == ~Known("release") \/ ~Known("vmlinux") \/ ~args.root_disks
(* apply_defaults() returns without a word about it to its caller. *)
DefaultsMissing ==
    \/ ~Known("release") \/ args.empty
    \/ ~Known("vmlinux")
    \/ ~args.root_disks
NoDefaults ==
    /\ conf_phase = "parsed"
    /\ DefaultsMissing
    /\ conf_phase' = "main"
    /\ UNCHANGED <<inputVars, disks, drive_of, mount_tags, prompt, initrd, root>>

(* test_output_dir is an attribute only of a configuration with a named    *)
(* test; for any other one, 376 or 389 raises AttributeError.              *)
DefaultsRaise ==
    /\ conf_phase = "parsed"
    /\ ~DefaultsMissing
    /\ args.test = None
    /\ conf_phase' = "raised"
    /\ UNCHANGED <<inputVars, disks, drive_of, mount_tags, prompt, initrd, root>>

PromptOf(c) == IF c = "ubuntu" THEN "anywhere" ELSE "home"

ApplyDefaultsDefect ==
    /\ conf_phase = "parsed"
    /\ ~DefaultsMissing
    /\ args.test # None
    /\ prompt' = PromptOf(args.cloud)
    /\ initrd' = IF initrd = None /\ ~Known("modules") /\ args.cloud = None THEN "rootfs" ELSE initrd
    /\ mount_tags' = args.mounts + 1
    /\ AddDrives(disks, When(Known("modules"), "modules")
                        \o When(Known("selftests"), "selftests") \o <<"test">>)
    /\ conf_phase' = "main"
    /\ UNCHANGED <<inputVars, root>>

(* The default initrd is chosen while there are no drives yet. *)
ApplyDefaults ==
    /\ conf_phase = "parsed"
    /\ ~DefaultsMissing
    /\ args.test # None
    /\ prompt' = PromptOf(args.cloud)
    /\ initrd' = IF initrd = None /\ disks = <<>> /\ args.cloud = None THEN "rootfs" ELSE initrd
    /\ mount_tags' = args.mounts + 1
    /\ AddDrives(disks, When(Known("modules"), "modules")
                        \o When(Known("selftests"), "selftests") \o <<"test">>)
    /\ conf_phase' = "main"
    /\ UNCHANGED <<inputVars, root>>

(* The returns of qemu_main() before it does anything; a missing root disk *)
(* directory is not among them, nor is an empty release.                   *)
MainGuard == ~Known("release") \/ ~Known("vmlinux") \/ ~args.mounts_ok

MainRefuses ==
    /\ conf_phase = "main"
    /\ MainGuard
    /\ conf_phase' = "refused"
    /\ UNCHANGED <<inputVars, disks, drive_of, mount_tags, prompt, initrd, root>>

PrepareCloudImageDefect ==
    /\ conf_phase = "main"
    /\ ~MainGuard
    /\ args.cloud # None
    /\ args.root_disks
    /\ AddDrives(disks, <<"cloud-init", "cloud">>)
    /\ root' = IF args.cloud = "other" THEN root ELSE Len(disks)
    /\ conf_phase' = "cmd"
    /\ UNCHANGED <<inputVars, mount_tags, prompt, initrd>>

(* The image (or its snapshot) and the cloud-init data become the last two *)
(* drives; root= names the first of them, of images the code knows.        *)
PrepareCloudImage ==
    /\ conf_phase = "main"
    /\ ~MainGuard
    /\ args.cloud # None
    /\ args.root_disks
    /\ AddDrives(disks, <<"cloud", "cloud-init">>)
    /\ root' = IF args.cloud = "other" THEN root ELSE Len(disks)
    /\ conf_phase' = "cmd"
    /\ UNCHANGED <<inputVars, mount_tags, prompt, initrd>>

NoCloudImage ==
    /\ conf_phase = "main"
    /\ ~MainGuard
    /\ args.cloud = None
    /\ conf_phase' = "cmd"
    /\ UNCHANGED <<inputVars, disks, drive_of, mount_tags, prompt, initrd, root>>

(* chdir() into no directory, qemu-img or qemu --version that fails, and   *)
(* what cmd() joins being None: an exception.                              *)
PrepareFails ==
    /\ \/ conf_phase = "main" /\ ~MainGuard /\ args.cloud # None
       \/ conf_phase = "cmd"
    /\ conf_phase' = "raised"
    /\ UNCHANGED <<inputVars, disks, drive_of, mount_tags, prompt, initrd, root>>

(* Without defaults there are qemu_cmd and mem if the script set them; an  *)
(* initrd is joined to the path of the root disks.                         *)
Cmd ==
    /\ conf_phase = "cmd"
    /\ prompt # None \/ args.preset
    /\ initrd # None => args.root_disks
    /\ conf_phase' = "ready"
    /\ UNCHANGED <<inputVars, disks, drive_of, mount_tags, prompt, initrd, root>>

ConfEnds == {"ready", "refused", "raised"}
Configure ==
    \/ ConfigureFromEnv \/ ConfigureFromArgs \/ NoDefaults \/ DefaultsRaise \/ ApplyDefaults \/ MainRefuses
    \/ PrepareCloudImage \/ NoCloudImage \/ PrepareFails \/ Cmd

-----------------------------------------------------------------------------
(* Whatever combination of tarballs and images is given, the drive letter  *)
(* a later step reads /dev/vd<letter> with, and the root= argument, name   *)
(* the drive that holds that content.  There is no root= for an image of a *)
(* name the code does not know.                                            *)
DriveLettersAgree ==
    conf_phase = "ready" =>
        /\ \A c \in Contents : drive_of[c] # -1 => disks[drive_of[c] + 1] = c
        /\ \A i \in DOMAIN disks : drive_of[disks[i]] = i - 1
        /\ root = IF args.cloud = "other" THEN -1 ELSE drive_of["cloud"]

(* A guest that is started without --initrd never has two root file        *)
(* systems.  It has the default initrd or a cloud image, and none at all   *)
(* if the name of the image is not one the code knows (qemu.py:494), or if *)
(* the defaults were given up and the script set the emulator itself.      *)
OneRootFileSystem ==
    conf_phase = "ready" /\ ~args.initrd =>
        /\ initrd = None \/ root = -1
        /\ initrd = None /\ root = -1 <=>
              args.cloud = "other" \/ (args.cloud = None /\ prompt = None)

=============================================================================
