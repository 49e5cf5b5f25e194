----------------------------- MODULE MCSuiteDef -----------------------------
(* SuiteDef for TLC: all short series of a few calls. *)
EXTENDS SuiteDef

D(base, plus, slash) == [base |-> base, plus |-> plus, slash |-> slash]
K(d, image, merge, clang) ==
    KernelCall([defconfig |-> d, image |-> image, merge |-> merge, clang |-> clang])
B(name, d, image, cmdline) ==
    BootCall([name |-> name, defconfig |-> d, image |-> image, cmdline |-> cmdline])

SomeCalls == {K(D("pseries", FALSE, FALSE), "fedora", <<>>, FALSE),
              K(D("pseries", FALSE, FALSE), "fedora", <<"lockdep-y">>, FALSE),
              K(D("pseries", FALSE, FALSE), "fedora", <<>>, TRUE),
              K(D("pseries", TRUE, FALSE), "fedora", <<>>, TRUE),
              K(D("mpc885", FALSE, TRUE), "korg@8.5.0", <<>>, FALSE),
              K(D("powernv", FALSE, FALSE), "korg@8.5.0", Shared, FALSE),
              B("host", D("pseries", FALSE, FALSE), "fedora", FALSE),
              B("qemu", D("pseries", FALSE, FALSE), "fedora", FALSE),
              B("qemu", D("pseries", FALSE, FALSE), "fedora", TRUE),
              AppendCall("btf-n"),
              B("host", D("powernv", FALSE, FALSE), "korg@8.5.0", FALSE)}
MCPrograms == UNION {[1..n -> SomeCalls] : n \in 0..3}
MCQemus == {"8.2.0", "host", "/path"}

(* The loop of full_compile_test() over these images, in either order. *)
Powernv(image) == K(D("powernv", FALSE, FALSE), image, Shared, FALSE)
FullCompileTest ==
    {<<Powernv("korg@8.5.0"), AppendCall("btf-n"), Powernv("korg@5.5.0")>>,
     <<AppendCall("btf-n"), Powernv("korg@5.5.0"), Powernv("korg@8.5.0")>>}
=============================================================================
