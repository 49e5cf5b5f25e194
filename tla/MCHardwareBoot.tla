--------------------------- MODULE MCHardwareBoot ---------------------------
(* HardwareBoot for TLC: every kind of machine that is booted. *)
EXTENDS HardwareBoot

MCScripts == {s \in ScriptType : s.powernv => s.xcat # "NoXcat"}
=============================================================================
