------------------------------- MODULE MCKlog -------------------------------
(***************************************************************************)
(* Instances of Klog for TLC: messages of the shapes the services log, on  *)
(* buffers of a few characters.                                            *)
(***************************************************************************)
EXTENDS Klog

MCWidth == [s \in Specs |-> IF s = "A" THEN 3 ELSE 2]
MCProtoName == (6 :> "TCP") @@ (17 :> "UDP") @@ (1 :> "ICMP")

Debug(msg) == [level |-> 1, msg |-> msg, args |-> <<6, 7>>]
Trace(msg) == [level |-> 0, msg |-> msg, args |-> <<6, 7>>]

Drop == Debug(<<"[", "%", "P", "]", "%", "A">>)              \* a service's message
Signs == Debug(<<"%", "%", "%", "d", "%", "s", "%", "u">>)   \* '%' signs, an unknown conversion
Many == Debug(<<"%", "x", "%", "X", "%", "p">>)              \* more conversions than arguments
Text14 == Debug([i \in 1..14 |-> "a"])                       \* text that does not fit
Across == Debug(<<"a", "a", "a", "a", "a", "a", "a", "a", "%", "A">>)  \* a value that does not fit
Trailing == Debug(<<"a", "%">>)                              \* a '%' at the end

MCEvents == {Drop, Signs, Many, Text14, Trace(<<"a">>)}
MCEventsFaults == {Drop, Many, Across, Trailing}

(* The messages of MCEvents are laid out like this: KlogSafety is about    *)
(* messages that exist.                                                    *)
Open(msg) ==
  LET open[i \in 0..Len(msg)] == i # 0 /\ msg[i] = "%" /\ ~open[i - 1]
  IN  open

Nth(msg) ==
  LET open == Open(msg)
  IN  [i \in 0..Len(msg) |-> Cardinality({j \in 1..i : open[j - 1] /\ Conversion(msg[j])})]

Place(msg) ==
  LET open == Open(msg)
      nth == Nth(msg)
      at[i \in 0..Len(msg)] ==
        IF i = 0 THEN 0
        ELSE at[i - 1] + (IF open[i - 1] THEN 0 ELSE IF open[i] THEN Need(msg, i, nth[i]) ELSE 1)
  IN  at

(* On the buffer of MCKlog.cfg they fit, on that of MCKlogFaults.cfg they  *)
(* do not all.                                                             *)
ASSUME MCMessagesFit ==
  BufSize >= 14 => \A e \in MCEvents : Layout(e.msg, Open(e.msg), Nth(e.msg), Place(e.msg))
=============================================================================
