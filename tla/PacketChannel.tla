---------------------------- MODULE PacketChannel ----------------------------
(***************************************************************************)
(* What the device connection promises its readers.  A reliable channel    *)
(* delivers adbd's packets whole, in the order written, and every packet   *)
(* written is eventually read.  An unreliable one promises nothing about   *)
(* what a read returns.  AdbMux, Authenticator and SyncSession take the    *)
(* wire to be a reliable channel; AdbFraming shows when the USB framing    *)
(* is one.                                                                 *)
(***************************************************************************)
EXTENDS Naturals, Sequences

CONSTANT Sent       \* the packets adbd writes, in order

VARIABLES
    reliable,       \* whether the channel keeps its promise
    written,        \* how many packets of Sent adbd has written
    returned        \* what the host's reads have returned

vars == <<reliable, written, returned>>

Init == reliable \in BOOLEAN /\ written = 0 /\ returned = <<>>

Write ==
    /\ written < Len(Sent)
    /\ written' = written + 1
    /\ UNCHANGED <<reliable, returned>>

\* The host reads the oldest packet it has not read.
Read ==
    /\ reliable
    /\ Len(returned) < written
    /\ returned' = Append(returned, Sent[Len(returned) + 1])
    /\ UNCHANGED <<reliable, written>>

\* An unreliable channel: a read may return anything, or fail.
Garble ==
    /\ ~reliable
    /\ UNCHANGED <<reliable, written>>

Next == Write \/ Read \/ Garble

Spec == Init /\ [][Next]_vars /\ WF_vars(Write) /\ WF_vars(Read)

====
