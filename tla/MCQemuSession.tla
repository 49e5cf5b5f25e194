---------------------------- MODULE MCQemuSession ---------------------------
(* QemuSession for TLC: what the trees may hold with one command line,     *)
(* then every command line, with an interactive session; and sessions with *)
(* a few command lines and lists of callbacks.                             *)
EXTENDS QemuSession

AnyArgs ==
    [given : SUBSET Lookups, empty : BOOLEAN, root_disks : BOOLEAN, preset : BOOLEAN,
     cloud : {None, "ubuntu", "other"}, initrd : BOOLEAN,
     mounts : 0..1, mounts_ok : BOOLEAN, test : {None, "own"}, test_args : {FALSE}]

NothingGiven ==
    [given |-> {}, empty |-> FALSE, root_disks |-> TRUE, preset |-> FALSE, cloud |-> "debian",
     initrd |-> FALSE, mounts |-> 0, mounts_ok |-> TRUE, test |-> "own", test_args |-> FALSE]

TestOf(cloud, test) ==
    [given |-> Lookups, empty |-> FALSE, root_disks |-> TRUE, preset |-> FALSE, cloud |-> cloud,
     initrd |-> FALSE, mounts |-> 0, mounts_ok |-> TRUE, test |-> test, test_args |-> TRUE]
UbuntuTests == {TestOf("ubuntu", "own"), [TestOf("ubuntu", "own") EXCEPT !.mounts = 1]}
SessionArgs == UbuntuTests \cup {TestOf("ubuntu", "generic"), TestOf(None, "own")}

MCArgs == AnyArgs \cup {NothingGiven} \cup SessionArgs

MCPlaces(a) ==
    IF a = NothingGiven THEN PlaceType
    ELSE {[env_set |-> FALSE, holds |-> [t \in Trees |-> {}]]}

SessionOf(cs) ==
    [callbacks |-> cs, no_timeout |-> FALSE, interactive |-> FALSE, net_tests |-> FALSE, monitor |-> FALSE]
Interactive == [SessionOf(<<>>) EXCEPT !.interactive = TRUE]

TheSessions ==
    {SessionOf(<<"kasan_kunit", "sh">>), SessionOf(<<"lkdtm", "kasan_kunit">>),
     SessionOf(<<"selftests">>), SessionOf(<<"selftests_nocheck", "check_config">>),
     SessionOf(<<"xmon">>), SessionOf(<<"cat_debugfs">>), SessionOf(<<"set_timeout", "sh">>),
     [SessionOf(<<>>) EXCEPT !.monitor = TRUE, !.net_tests = TRUE],
     [SessionOf(<<"sh">>) EXCEPT !.no_timeout = TRUE]}
(* Where an input is missing a session must not get far. *)
Missing(a) == a.empty \/ ~a.root_disks
MCSessions(a) ==
    IF a \in SessionArgs THEN TheSessions
    ELSE IF a.preset /\ Missing(a) THEN {Interactive, SessionOf(<<>>)} ELSE {Interactive}
=============================================================================
