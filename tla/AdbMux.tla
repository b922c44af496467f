------------------------------- MODULE AdbMux -------------------------------
(***************************************************************************)
(* Stream multiplexing over one device connection (AdbDeviceConnection).   *)
(*                                                                         *)
(* Several host tasks share one USB transport.  Each opens a stream with   *)
(* OPEN(local, 0), learns the device's id from the OKAY reply and then     *)
(* reads its packets through read_adb_message_with_packet_store: a reader  *)
(* first looks in the shared packet store, then takes the next packet off  *)
(* the wire under the transport lock; a packet that is not its own is      *)
(* parked in the store under its (arg0, arg1) key for its owner.           *)
(*                                                                         *)
(* The task kinds are the stream handlers of the code:                     *)
(*   "shell"   _adb_shell_command: OPEN, OKAY, read everything until CLSE; *)
(*   "root"    _adb_root / _adb_unroot / _adb_remount: OPEN, OKAY, one     *)
(*             WRTE, then CLSE;                                            *)
(*   "reboot"  _adb_reboot: OPEN, then return without reading the reply;   *)
(*   "forward" handle_port_forward_incoming_message: OPEN, OKAY or CLSE,   *)
(*             WRTE of the client's bytes, read everything until CLSE.     *)
(*                                                                         *)
(* The device is the environment: an adbd that answers OPEN with OKAY or   *)
(* CLSE, writes WRTE chunks one at a time (the next only after the host's  *)
(* OKAY) and may close a stream at any time.  The data of a WRTE is the    *)
(* pair <<device id, chunk number>>, so that a delivered chunk names the   *)
(* stream it was written on.  Operation timeouts are not clocked: a read   *)
(* may time out at the top of any iteration of its loop.                   *)
(***************************************************************************)
EXTENDS Naturals, Sequences, SequencesExt, FiniteSets

CONSTANTS
    Tasks,      \* the host tasks sharing the connection
    Kinds,      \* the handler each task may run: functions Tasks -> kinds
    Chunks,     \* how many WRTE chunks a device service writes at most
    IdMax,      \* u32::MAX, scaled down
    Conns       \* client connections a port-forward listener accepts

ASSUME Chunks \in Nat /\ Conns \in Nat /\ Kinds \subseteq [Tasks -> {"shell", "root", "forward", "reboot"}]

VARIABLES
    kind,         \* kind[t]: the handler task t runs, fixed for the run
    lastLocalId,  \* AdbDeviceConnection.last_local_packet_id
    toDevice,     \* host -> device bulk OUT endpoint, in order
    wire,         \* device -> host bulk IN endpoint, in order
    store,        \* AdbPacketStore: (arg0, arg1) -> queue of [cmd, data]
    pc,           \* the point each task has reached in its handler
    phase,        \* inside the read loop: "store" lookup or "wire" read
    tinfo,        \* each task's AdbTransactionInfo
    resp,         \* the result of the task's last read, NoResp while reading
    delivered,    \* the WRTE data each task handed to its client
    outcome,      \* how each task's handler ended
    devStreams,   \* device side: local id -> [dev, sent, acked, open]
    devNext,      \* device side: the next id adbd gives a stream
    served        \* forward listener: client connections accepted so far

vars == <<kind, lastLocalId, toDevice, wire, store, pc, phase, tinfo, resp,
          delivered, outcome, devStreams, devNext, served>>

Alloc == INSTANCE LocalIdAllocator WITH lastIssued <- 0

-----------------------------------------------------------------------------
(* Packets.  Only the commands of an open stream occur after CNXN/AUTH.    *)

NoData == <<0, 0>>
Pkt(c, a0, a1, d) == [cmd |-> c, a0 |-> a0, a1 |-> a1, data |-> d]
\* Read results that are not packets.
NoResp   == Pkt("NONE", 0, 0, NoData)
TimedOut == Pkt("TIMEOUT", 0, 0, NoData)

Ids == 0..IdMax
DataSet == {NoData} \cup ((1..IdMax) \X (1..Chunks))
Cmds == {"OPEN", "OKAY", "WRTE", "CLSE"}
Packets == [cmd : Cmds, a0 : Ids, a1 : Ids, data : DataSet]

-----------------------------------------------------------------------------
(* AdbPacketStore                                                          *)

\* put_packet: push_back onto the queue of (arg0, arg1), creating it.
PutPacket(s, k, e) ==
    IF k \in DOMAIN s THEN [s EXCEPT ![k] = Append(@, e)]
                      ELSE s @@ (k :> <<e>>)

\* clear_packet: remove the whole entry.
ClearPacket(s, k) == [x \in DOMAIN s \ {k} |-> s[x]]

\* The keys get_packet(arg0, arg1, expected) may pop from.  A zero
\* argument is a wildcard resolved by find_packet; DashMap iteration order
\* is unspecified, so any matching entry may be the one found.
FindKeys(s, arg0, arg1, expected) ==
    LET live == {k \in DOMAIN s : s[k] # <<>>}
    IN  CASE arg0 = 0 /\ arg1 = 0 ->
               {k \in live : \E i \in DOMAIN s[k] : s[k][i].cmd \in expected}
          [] arg0 # 0 /\ arg1 = 0 -> {k \in live : k[1] = arg0}
          [] arg0 = 0 /\ arg1 # 0 -> {k \in live : k[2] = arg1}
          [] OTHER                -> {k \in live : k = <<arg0, arg1>>}

\* Variant: a lookup that reads the head without pop_front.
StorePeek(s, k) == s

\* get_packet's pop_front of the found queue (the entry stays, maybe empty).
StorePop(s, k) == [s EXCEPT ![k] = Tail(@)]

-----------------------------------------------------------------------------
(* AdbTransactionInfo and the read loop                                    *)

\* Variant: a match on the remote id alone, arg1 unchecked.
ArgsMatchAnyLocal(ti, a0, a1) == ti.recv = 0 \/ a0 = ti.recv

ArgsMatch(ti, a0, a1) == a1 = ti.sent /\ (ti.recv = 0 \/ a0 = ti.recv)

\* The expected commands of the read a task is in; {} accepts anything.
Expected(t) ==
    CASE pc[t] = "openReply" /\ kind[t] = "forward" -> {"OKAY", "CLSE"}
      [] pc[t] = "openReply"                        -> {"OKAY"}
      [] pc[t] = "rootWrte"                         -> {"WRTE"}
      [] OTHER                                      -> {}

Accepts(expected, c) == c \in expected \/ expected = {}

Reading(t) == pc[t] \in {"openReply", "rootWrte", "drain"} /\ resp[t] = NoResp

\* A returned CLSE clears its key: clear_packet(arg0, arg1).
AfterReturn(s, m) == IF m.cmd = "CLSE" THEN ClearPacket(s, <<m.a0, m.a1>>)
                                       ELSE s

\* Top of the loop: the operation timeout has elapsed.
ReadTimeout(t) ==
    /\ Reading(t) /\ phase[t] = "store"
    /\ resp' = [resp EXCEPT ![t] = TimedOut]
    /\ UNCHANGED <<kind, lastLocalId, toDevice, wire, store, pc, phase, tinfo,
                   delivered, outcome, devStreams, devNext>>

\* The packet-store lookup of one iteration: a hit that is expected is
\* returned, a hit that is not is pushed back at the tail of its queue.
ReadStoreStep(t) ==
    /\ Reading(t) /\ phase[t] = "store"
    /\ LET exp == Expected(t)
           ks  == FindKeys(store, tinfo[t].recv, tinfo[t].sent, exp)
       IN  \/ /\ ks = {}
              /\ phase' = [phase EXCEPT ![t] = "wire"]
              /\ UNCHANGED <<kind, store, resp>>
           \/ \E k \in ks :
                LET h == Head(store[k])
                    m == Pkt(h.cmd, k[1], k[2], h.data)
                IN  IF Accepts(exp, h.cmd)
                    THEN /\ resp' = [resp EXCEPT ![t] = m]
                         /\ store' = AfterReturn(StorePop(store, k), m)
                         /\ UNCHANGED phase
                    ELSE /\ store' = PutPacket(StorePop(store, k), k, h)
                         /\ phase' = [phase EXCEPT ![t] = "wire"]
                         /\ UNCHANGED resp
    /\ UNCHANGED <<kind, lastLocalId, toDevice, wire, pc, tinfo, delivered,
                   outcome, devStreams, devNext>>

\* The wire read of one iteration, under the transport lock.  An empty
\* endpoint is a header timeout: sleep and start the next iteration.
ReadWireStep(t) ==
    /\ Reading(t) /\ phase[t] = "wire"
    /\ phase' = [phase EXCEPT ![t] = "store"]
    /\ \/ /\ wire = <<>>
          /\ UNCHANGED <<kind, wire, store, resp>>
       \/ /\ wire # <<>>
          /\ wire' = Tail(wire)
          /\ LET m == Head(wire) IN
             IF ArgsMatch(tinfo[t], m.a0, m.a1) /\ Accepts(Expected(t), m.cmd)
             THEN /\ resp' = [resp EXCEPT ![t] = m]
                  /\ store' = AfterReturn(store, m)
             ELSE /\ store' = PutPacket(store, <<m.a0, m.a1>>,
                                        [cmd |-> m.cmd, data |-> m.data])
                  /\ UNCHANGED resp
    /\ UNCHANGED <<kind, lastLocalId, toDevice, pc, tinfo, delivered, outcome,
                   devStreams, devNext>>

-----------------------------------------------------------------------------
(* The stream handlers                                                     *)

\* write_bytes: header and payload written together under the transport
\* lock, so one packet is one append to the OUT endpoint.
WriteBytes(q, p) == Append(q, p)

\* send_okay_command / send_clse_command / send_wrte_command: the packet
\* (cmd, sent_packet_id, receive_packet_id, data) of the stream.
StreamPacket(c, ti, d) == Pkt(c, ti.sent, ti.recv, d)

\* A handler returns.  The port-forward listener then goes back to accept
\* its next client; the response, or nothing after an Err, goes to the
\* client socket, which holds no shared state.
Finish(t, why) ==
    /\ pc' = [pc EXCEPT ![t] = IF kind[t] = "forward" THEN "accept" ELSE "done"]
    /\ outcome' = [outcome EXCEPT ![t] = why]

\* send_open_command: take a local id, OPEN(local, 0) under the lock.
OpenMessage(t) ==
    LET id == Alloc!Issued(lastLocalId) IN
    /\ lastLocalId' = Alloc!NextStored(lastLocalId)
    /\ toDevice' = WriteBytes(toDevice, Pkt("OPEN", id, 0, NoData))
    /\ tinfo' = [tinfo EXCEPT ![t] = [sent |-> id, recv |-> 0]]

SendOpenCommand(t) ==
    /\ pc[t] = "open" /\ kind[t] # "reboot"
    /\ OpenMessage(t)
    /\ pc' = [pc EXCEPT ![t] = "openReply"]
    /\ UNCHANGED <<kind, wire, store, phase, resp, delivered, outcome,
                   devStreams, devNext>>

\* _adb_reboot: send the OPEN and return Ok; the device's reply is never read.
AdbReboot(t) ==
    /\ pc[t] = "open" /\ kind[t] = "reboot"
    /\ OpenMessage(t)
    /\ Finish(t, "ok")
    /\ UNCHANGED <<kind, wire, store, phase, resp, delivered, devStreams,
                   devNext>>

\* The reply to OPEN: set_receive_packet_id(arg0) on OKAY; the port
\* forward then writes the client's bytes; a CLSE is a rejected forward.
OpenReply(t) ==
    /\ pc[t] = "openReply" /\ resp[t] # NoResp
    /\ resp' = [resp EXCEPT ![t] = NoResp]
    /\ \/ /\ resp[t].cmd = "OKAY"
          /\ tinfo' = [tinfo EXCEPT ![t].recv = resp[t].a0]
          /\ pc' = [pc EXCEPT ![t] = IF kind[t] = "root" THEN "rootWrte"
                                                         ELSE "drain"]
          /\ toDevice' = IF kind[t] = "forward"
                         THEN WriteBytes(toDevice,
                                StreamPacket("WRTE", tinfo'[t], NoData))
                         ELSE toDevice
          /\ UNCHANGED outcome
       \/ /\ resp[t].cmd = "CLSE"
          /\ Finish(t, "rejected")
          /\ UNCHANGED <<kind, tinfo, toDevice>>
       \/ /\ resp[t].cmd = "TIMEOUT"
          /\ Finish(t, "timeout")
          /\ UNCHANGED <<kind, tinfo, toDevice>>
    /\ UNCHANGED <<kind, lastLocalId, wire, store, phase, delivered, devStreams,
                   devNext>>

\* read_until: a WRTE is acknowledged with OKAY before it is yielded.
AckWrte(t) == toDevice' = WriteBytes(toDevice, StreamPacket("OKAY", tinfo[t], NoData))

\* read_and_write_all_response / read_all_response over read_until: a WRTE
\* is acknowledged with OKAY before it is yielded, then its data goes to
\* the client; CLSE or a timeout ends the stream.
DrainStep(t) ==
    /\ pc[t] = "drain" /\ resp[t] # NoResp
    /\ resp' = [resp EXCEPT ![t] = NoResp]
    /\ \/ /\ resp[t].cmd = "WRTE"
          /\ AckWrte(t)
          /\ delivered' = [delivered EXCEPT ![t] = Append(@, resp[t].data)]
          /\ UNCHANGED <<kind, pc, outcome>>
       \/ /\ resp[t].cmd = "OKAY"
          /\ UNCHANGED <<kind, toDevice, delivered, pc, outcome>>
       \/ /\ resp[t].cmd = "CLSE"
          /\ Finish(t, "clse")
          /\ UNCHANGED <<kind, toDevice, delivered>>
       \/ /\ resp[t].cmd = "TIMEOUT"
          /\ Finish(t, "timeout")
          /\ UNCHANGED <<kind, toDevice, delivered>>
    /\ UNCHANGED <<kind, lastLocalId, wire, store, phase, tinfo, devStreams,
                   devNext>>

\* _adb_root after the OKAY: read one WRTE, send CLSE, return its data.
RootWrte(t) ==
    /\ pc[t] = "rootWrte" /\ resp[t] # NoResp
    /\ resp' = [resp EXCEPT ![t] = NoResp]
    /\ \/ /\ resp[t].cmd = "WRTE"
          /\ delivered' = [delivered EXCEPT ![t] = Append(@, resp[t].data)]
          /\ toDevice' = WriteBytes(toDevice,
                                     StreamPacket("CLSE", tinfo[t], NoData))
          /\ Finish(t, "ok")
       \/ /\ resp[t].cmd = "TIMEOUT"
          /\ Finish(t, "timeout")
          /\ UNCHANGED <<kind, toDevice, delivered>>
    /\ UNCHANGED <<kind, lastLocalId, wire, store, phase, tinfo, devStreams,
                   devNext>>

\* The port-forward listener takes its next client (handle_tcp_listener /
\* handle_unix_listener, one client at a time) and reads its request once:
\* Ok(0) or a read error drops the client, data starts
\* handle_port_forward_incoming_message with a fresh transaction.
ForwardAccept(t) ==
    /\ pc[t] = "accept" /\ served[t] < Conns
    /\ served' = [served EXCEPT ![t] = @ + 1]
    /\ \/ UNCHANGED <<pc, tinfo, delivered, outcome>>
       \/ /\ pc' = [pc EXCEPT ![t] = "open"]
          /\ tinfo' = [tinfo EXCEPT ![t] = [sent |-> 0, recv |-> 0]]
          /\ delivered' = [delivered EXCEPT ![t] = <<>>]
          /\ outcome' = [outcome EXCEPT ![t] = "none"]
    /\ UNCHANGED <<kind, lastLocalId, toDevice, wire, store, phase, resp,
                   devStreams, devNext>>

-----------------------------------------------------------------------------
(* The device (adbd), the environment of the connection                    *)

Reply(p) == wire' = Append(wire, p)

\* adbd takes the next host packet off the OUT endpoint.
DeviceReceive ==
    /\ toDevice # <<>>
    /\ toDevice' = Tail(toDevice)
    /\ LET p == Head(toDevice)
           known == p.a0 \in DOMAIN devStreams
       IN  CASE p.cmd = "OPEN" ->
                  \/ /\ devStreams' = devStreams @@ (p.a0 :>
                          [dev |-> devNext, sent |-> 0, acked |-> TRUE,
                           open |-> TRUE])
                     /\ devNext' = devNext + 1
                     /\ Reply(Pkt("OKAY", devNext, p.a0, NoData))
                  \/ /\ Reply(Pkt("CLSE", 0, p.a0, NoData))
                     /\ UNCHANGED <<kind, devStreams, devNext>>
             [] p.cmd = "OKAY" ->
                  /\ devStreams' = IF known
                                   THEN [devStreams EXCEPT ![p.a0].acked = TRUE]
                                   ELSE devStreams
                  /\ UNCHANGED <<kind, wire, devNext>>
             [] p.cmd = "WRTE" ->
                  /\ IF known /\ devStreams[p.a0].open
                     THEN Reply(Pkt("OKAY", p.a1, p.a0, NoData))
                     ELSE UNCHANGED wire
                  /\ UNCHANGED <<kind, devStreams, devNext>>
             [] p.cmd = "CLSE" ->
                  /\ devStreams' = IF known
                                   THEN [devStreams EXCEPT ![p.a0].open = FALSE]
                                   ELSE devStreams
                  /\ UNCHANGED <<kind, wire, devNext>>
    /\ UNCHANGED <<kind, lastLocalId, store, pc, phase, tinfo, resp, delivered,
                   outcome>>

\* The service behind stream l writes its next chunk, once the previous
\* one was acknowledged.
DeviceWrite(l) ==
    LET s == devStreams[l] IN
    /\ s.open /\ s.acked /\ s.sent < Chunks
    /\ devStreams' = [devStreams EXCEPT ![l].sent = s.sent + 1,
                                        ![l].acked = FALSE]
    /\ Reply(Pkt("WRTE", s.dev, l, <<s.dev, s.sent + 1>>))
    /\ UNCHANGED <<kind, lastLocalId, toDevice, store, pc, phase, tinfo, resp,
                   delivered, outcome, devNext>>

\* The service behind stream l exits: adbd sends CLSE.
DeviceClose(l) ==
    /\ devStreams[l].open
    /\ devStreams' = [devStreams EXCEPT ![l].open = FALSE]
    /\ Reply(Pkt("CLSE", devStreams[l].dev, l, NoData))
    /\ UNCHANGED <<kind, lastLocalId, toDevice, store, pc, phase, tinfo, resp,
                   delivered, outcome, devNext>>

-----------------------------------------------------------------------------

Init ==
    /\ kind \in Kinds
    /\ lastLocalId = 0
    /\ toDevice = <<>>
    /\ wire = <<>>
    /\ store = <<>>
    /\ pc = [t \in Tasks |-> IF kind[t] = "forward" THEN "accept" ELSE "open"]
    /\ phase = [t \in Tasks |-> "store"]
    /\ tinfo = [t \in Tasks |-> [sent |-> 0, recv |-> 0]]
    /\ resp = [t \in Tasks |-> NoResp]
    /\ delivered = [t \in Tasks |-> <<>>]
    /\ outcome = [t \in Tasks |-> "none"]
    /\ devStreams = <<>>
    /\ devNext = 1
    /\ served = [t \in Tasks |-> 0]

\* Every request has been served and adbd has nothing left to do.
Quiescent ==
    /\ \A t \in Tasks : pc[t] = "done" \/ (pc[t] = "accept" /\ served[t] = Conns)
    /\ toDevice = <<>>
    /\ \A l \in DOMAIN devStreams : ~devStreams[l].open

Next ==
    \/ \E t \in Tasks : ForwardAccept(t)
    \/ /\ \/ \E t \in Tasks :
             \/ SendOpenCommand(t) \/ AdbReboot(t) \/ OpenReply(t) \/ DrainStep(t)
             \/ RootWrte(t) \/ ReadTimeout(t) \/ ReadStoreStep(t)
             \/ ReadWireStep(t)
          \/ DeviceReceive
          \/ \E l \in DOMAIN devStreams : DeviceWrite(l) \/ DeviceClose(l)
       /\ UNCHANGED served
    \/ Quiescent /\ UNCHANGED vars

Spec == Init /\ [][Next]_vars

-----------------------------------------------------------------------------
(* Properties                                                              *)

TypeOK ==
    /\ kind \in Kinds
    /\ lastLocalId \in 0..(IdMax - 1)
    /\ toDevice \in Seq(Packets) /\ wire \in Seq(Packets)
    /\ \A k \in DOMAIN store :
          k \in Ids \X Ids /\ store[k] \in Seq([cmd : Cmds, data : DataSet])
    /\ pc \in [Tasks -> {"accept", "open", "openReply", "drain", "rootWrte",
                           "done"}]
    /\ served \in [Tasks -> 0..Conns]
    /\ phase \in [Tasks -> {"store", "wire"}]
    /\ tinfo \in [Tasks -> [sent : Ids, recv : Ids]]
    /\ delivered \in [Tasks -> Seq(DataSet)]
    /\ outcome \in [Tasks -> {"none", "clse", "timeout", "rejected", "ok"}]

\* The chunks adbd has written on the stream the host opened as l.
SentOn(l) ==
    IF l \in DOMAIN devStreams
    THEN [i \in 1..devStreams[l].sent |-> <<devStreams[l].dev, i>>]
    ELSE <<>>

\* Property (read_adb_message_with_packet_store with args_match and the
\* store's wildcard lookups): whatever any task parks, pops or pushes back,
\* the data a task hands to its client is exactly the chunks adbd wrote on
\* that task's own stream, in order, each once, with none skipped.
DeliveredIsPrefixOfSent ==
    \A t \in Tasks : IsPrefix(delivered[t], SentOn(tinfo[t].sent))

\* Property (set_receive_packet_id after the OKAY read with recv = 0): the
\* remote id a task adopts is the id adbd gave the stream it opened, never
\* another task's.
RemoteIdIsOwnStream ==
    \A t \in Tasks :
        tinfo[t].recv # 0 =>
            /\ tinfo[t].sent \in DOMAIN devStreams
            /\ tinfo[t].recv = devStreams[tinfo[t].sent].dev

\* Property (spec: "CLSE removes the whole queue for its key so late
\* packets for a closed stream are discarded"): a stream that ended with
\* the device's CLSE has handed every chunk adbd wrote before it to the
\* client.
CloseDeliversAll ==
    \A t \in Tasks :
        outcome[t] = "clse" => delivered[t] = SentOn(tinfo[t].sent)

\* Property (spec 4.4: "CLSE removes the whole queue for its (arg0, arg1) so
\* late packets for a closed stream are discarded"): once a handler has
\* returned normally, the root/unroot/remount handler after sending its
\* CLSE or a drain after reading the device's CLSE, no packet of its
\* stream stays parked in the packet store.
ClosedStreamLeavesNoParked ==
    \A t \in Tasks :
        outcome[t] \in {"ok", "clse"} =>
            \A k \in DOMAIN store : k[2] = tinfo[t].sent => store[k] = <<>>

=============================================================================
