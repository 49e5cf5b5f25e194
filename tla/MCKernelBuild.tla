--------------------------- MODULE MCKernelBuild ----------------------------
(* KernelBuild for TLC: two builds, each with one of these sets of options. *)
EXTENDS KernelBuild, TLC

Option(c, merge, mod2yes, sparse, modules, clean) ==
    [config |-> c, merge |-> merge, mod2yes |-> mod2yes, sparse |-> sparse, modules |-> modules,
     pre_clean |-> clean, post_clean |-> clean]

MCOptions ==
    {Option("defconfig", TRUE, FALSE, FALSE, TRUE, FALSE),
     Option("existing", FALSE, TRUE, TRUE, FALSE, FALSE),
     Option("custom", FALSE, FALSE, FALSE, FALSE, TRUE)}

(* The builds differ in nothing but their names. *)
BuildSymmetry == Permutations(Builds)
=============================================================================
