--------------------------- MODULE MCControlPlane ---------------------------
(***************************************************************************)
(* Instances of ControlPlane for TLC.                                      *)
(***************************************************************************)
EXTENDS ControlPlane, TLC

MCAttachOrder == <<"daemon", "debug">>
MCCallers == {Main, Io}

Acl == [lib |-> "libacl.so", hook |-> "XDP_GENERIC", ifindex |-> 1]
Odd == [lib |-> "libodd.so", hook |-> "bogus", order |-> 2]

Debug(enabled, addr) == (KeyOf.dbgEnabled :> enabled) @@ (KeyOf.dbgAddr :> addr)

Off == (KeyOf.ebpfs :> [acl |-> Acl])
OnA == Debug(TRUE, "a") @@ (KeyOf.dbgPort :> 1)
OnB == Debug(TRUE, "b") @@ (KeyOf.ebpfs :> [acl |-> Acl, odd |-> Odd])
OnBad == Debug(TRUE, "bad") @@ (KeyOf.promEnabled :> TRUE) @@ (KeyOf.promListen :> "p")

MCFiles == {OnA, OnB, OnBad, Malformed}
MCFilesOff == {Off, OnA}
MCBad == {<<"bad", 9999>>}
MCBusy == {<<"a", 1>>}
MCNone == {}
=============================================================================
