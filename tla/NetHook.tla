------------------------------- MODULE NetHook -------------------------------
(***************************************************************************)
(* Hooks of network interfaces: EbpfNetHookIf with TcHook and XdpHook      *)
(* (src/src/ebpf/ebpf_net_hook_if.cc, tc_hook.cc, xdp_hook.cc), used by    *)
(* EbpfWithNetHook (ebpf_with_net_hook.tpp) of a scheduler.  A slot is a   *)
(* hook and an interface; one scheduler owns it.  What is attached to an   *)
(* interface outlives the process, and an interface may vanish with all    *)
(* that is attached to it.                                                 *)
(*                                                                         *)
(* The kernel, through libbpf: attaching to XDP replaces the program that  *)
(* is there, attaching to TC adds a filter.  bpf_tc_hook_create adds the   *)
(* clsact qdisc; for one direction bpf_tc_hook_destroy leaves the qdisc    *)
(* and flushes the filters of that direction, whoever added them.          *)
(***************************************************************************)
EXTENDS Integers, FiniteSets

CONSTANTS
  Slots,   \* pairs <<hook, interface>>
  Tc,      \* the hook that is TC; the others are modes of XDP
  NoProg   \* no program

Nics == {s[2] : s \in Slots}
IsTc(s) == s[1] = Tc

VARIABLES
  nics,      \* interfaces that exist
  clsact,    \* interfaces with a clsact qdisc
  attached,  \* [Slots -> programs of ours the kernel runs there]
  foreign,   \* interfaces with a TC filter of some other tool
  hook,      \* [Slots -> hook_ of the scheduler]
  bound      \* [Slots -> the program its attached_ stands for, or NoProg]

netVars == <<nics, clsact, attached, foreign, hook, bound>>

NoHook == [attached |-> FALSE, created |-> FALSE]

-----------------------------------------------------------------------------
AttachTrusting(s, prog, ok) ==    \* mutant: the result of do_attach is not looked at
  LET works == s[2] \in nics /\ ok
  IN  /\ bound[s] = NoProg
      /\ hook' = [hook EXCEPT ![s] = [attached |-> TRUE, created |-> FALSE]]
      /\ attached' = [attached EXCEPT ![s] = IF works THEN {prog} ELSE @]
      /\ bound' = [bound EXCEPT ![s] = prog]
      /\ UNCHANGED <<nics, clsact, foreign>>

(* pre_attach_check: the qdisc is made unless it is there.                 *)
PreAttachCheck(s) ==
  [qdisc |-> IF IsTc(s) /\ s[2] \in nics THEN clsact \cup {s[2]} ELSE clsact,
   created |-> IsTc(s) /\ s[2] \notin clsact]

(* do_attach of either class, where the kernel takes the program.          *)
TcDoAttach(s, prog) == attached[s] \cup {prog}
XdpDoAttach(s, prog) == {prog}

(* EbpfNetHookIf::attach.  The kernel may refuse the program; the qdisc    *)
(* stays.                                                                  *)
HookAttach(s, prog, works) ==
  LET pre == PreAttachCheck(s)
  IN  /\ clsact' = pre.qdisc
      /\ hook' = [hook EXCEPT ![s] =
           [attached |-> works, created |-> works /\ pre.created]]
      /\ attached' = [attached EXCEPT ![s] =
           IF ~works THEN @ ELSE IF IsTc(s) THEN TcDoAttach(s, prog) ELSE XdpDoAttach(s, prog)]

(* attachGeneric: a hook of its own for the program, given up if the       *)
(* program cannot be attached.                                             *)
Attach(s, prog, ok) ==
  LET works == s[2] \in nics /\ ok
  IN  /\ bound[s] = NoProg
      /\ HookAttach(s, prog, works)
      /\ bound' = [bound EXCEPT ![s] = IF works THEN prog ELSE NoProg]
      /\ UNCHANGED <<nics, foreign>>

(* do_detach: of TC by the handle that attaching gave, of XDP whatever is  *)
(* there.                                                                  *)
TcDoDetach(s) == attached[s] \ {bound[s]}
XdpDoDetach(s) == {}

(* post_detach_cleanup flushes the filters if this hook made the qdisc.    *)
PostDetachFlushes(s) == s[2] \in nics /\ hook[s].created

(* EbpfNetHookIf::detach.  On an interface that is gone do_detach and the  *)
(* cleanup fail: the hook stays attached, the scheduler does not notice.   *)
HookDetach(s) ==
  LET works == s[2] \in nics
  IN  /\ hook' = [hook EXCEPT ![s] =
           [attached |-> ~works, created |-> @.created /\ ~works]]
      /\ attached' = [attached EXCEPT ![s] =
           IF ~works THEN @
           ELSE IF PostDetachFlushes(s) THEN {}
           ELSE IF IsTc(s) THEN TcDoDetach(s) ELSE XdpDoDetach(s)]
      /\ foreign' = IF PostDetachFlushes(s) THEN foreign \ {s[2]} ELSE foreign

DetachKeeping(s) ==    \* mutant: a hook that did not create the qdisc keeps its filter
  IF bound[s] = NoProg
  THEN UNCHANGED netVars
  ELSE /\ hook' = [hook EXCEPT ![s] = NoHook]
       /\ attached' = [attached EXCEPT ![s] = IF hook[s].created \/ ~IsTc(s) THEN {} ELSE @]
       /\ bound' = [bound EXCEPT ![s] = NoProg]
       /\ UNCHANGED <<nics, clsact, foreign>>

Detach(s) ==
  IF bound[s] = NoProg
  THEN UNCHANGED netVars
  ELSE /\ HookDetach(s)
       /\ bound' = [bound EXCEPT ![s] = NoProg]
       /\ UNCHANGED <<nics, clsact>>

(* ~EbpfNetHookIf calls detach while it is attached; do_detach is pure     *)
(* virtual by then, and the call ends the process.                         *)
DestructorAborts(s) == hook[s].attached

-----------------------------------------------------------------------------
(* The interface is removed, by whoever made it.                           *)
NicGone(i) ==
  /\ i \in nics
  /\ nics' = nics \ {i}
  /\ clsact' = clsact \ {i}
  /\ foreign' = foreign \ {i}
  /\ attached' = [s \in Slots |-> IF s[2] = i THEN {} ELSE attached[s]]
  /\ UNCHANGED <<hook, bound>>

(* Another tool adds a TC filter next to ours, and the qdisc if need be.   *)
ForeignFilter(i) ==
  /\ i \in nics /\ i \notin foreign
  /\ foreign' = foreign \cup {i}
  /\ clsact' = clsact \cup {i}
  /\ UNCHANGED <<nics, attached, hook, bound>>

(* The process is gone; the kernel keeps what is attached.                 *)
DropHooks ==
  /\ hook' = [s \in Slots |-> NoHook]
  /\ bound' = [s \in Slots |-> NoProg]
  /\ UNCHANGED <<nics, clsact, attached, foreign>>

NetInit ==
  /\ nics = Nics /\ clsact = {}
  /\ attached = [s \in Slots |-> {}]
  /\ foreign = {}
  /\ hook = [s \in Slots |-> NoHook]
  /\ bound = [s \in Slots |-> NoProg]
=============================================================================
