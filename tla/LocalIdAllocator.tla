-------------------------- MODULE LocalIdAllocator --------------------------
(***************************************************************************)
(* The per-connection local-id allocator of AdbDeviceConnection            *)
(* (get_last_packet_id).  The counter lives behind a mutex, so one call is *)
(* one atomic step.  IdMax stands for u32::MAX, scaled down so that the    *)
(* wrap-around point is reachable.                                         *)
(***************************************************************************)
EXTENDS Naturals

CONSTANT IdMax

ASSUME IdMax \in Nat /\ IdMax >= 2

VARIABLES
    lastLocalId,   \* the value stored in last_local_packet_id
    lastIssued     \* the id the previous call returned (0: no call yet)

vars == <<lastLocalId, lastIssued>>

\* The id a call returns: the stored counter plus one.
Issued(last) == last + 1

\* Variant: the reset tested with > instead of ==.
NextStoredPastMax(last) == IF last + 1 > IdMax THEN 1 ELSE last + 1

\* The value stored after the call: reset to 1 once u32::MAX was handed out.
NextStored(last) == IF last + 1 = IdMax THEN 1 ELSE last + 1

Init ==
    /\ lastLocalId = 0
    /\ lastIssued = 0

GetLastPacketId ==
    /\ lastIssued' = Issued(lastLocalId)
    /\ lastLocalId' = NextStored(lastLocalId)

Next == GetLastPacketId

Spec == Init /\ [][Next]_vars

TypeOK ==
    /\ lastLocalId \in 0..(IdMax - 1)
    /\ lastIssued \in 0..IdMax

=============================================================================
