------------------------------ MODULE MCProcess ------------------------------
(***************************************************************************)
(* Instances of Process for TLC: one interface with both hooks.            *)
(***************************************************************************)
EXTENDS Process

MCHookOrder == <<"TC", "XDP_GENERIC">>
MCSlots == {<<"TC", "eth0">>, <<"XDP_GENERIC", "eth0">>}
MCSlotsTc == {<<"TC", "eth0">>}
=============================================================================
