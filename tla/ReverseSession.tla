---------------------------- MODULE ReverseSession ----------------------------
(***************************************************************************)
(* The port reverses set on one device (port_reverse_handler.rs), after    *)
(* their setup: for each reverse, the main task's OPEN-wait loop and the   *)
(* relay task it spawned, over the shared packet store and transport.     *)
(*                                                                         *)
(* The main task loops (handle_reverse_message): read_expected_packet(     *)
(* [OPEN], Some(host-spec + NUL), (0, 0), None), then a fresh local id,    *)
(* OKAY to the device and the new AdbTransactionInfo sent on the mpsc     *)
(* channel.  The read is read_adb_message_with_packet_store: a store      *)
(* lookup through get_packet's (0, 0) wildcard, then a wire read under    *)
(* the transport lock.  adbd opens a stream toward the host whenever an   *)
(* app connects to a reversed device port: OPEN(device id, 0, host-spec). *)
(*                                                                         *)
(* The relay (handle_bidirectional_stream_relay) serves one transaction   *)
(* at a time: each round it takes at most one newer transaction with      *)
(* try_recv, reads the host socket for up to 0.5 s (data goes to the      *)
(* device as WRTE and the OKAY is awaited), then waits for one WRTE of    *)
(* the current stream, OKAYs it and writes it to the host socket.         *)
(*                                                                         *)
(* A reverse is named by its host-spec, and an OPEN's data is the reverse *)
(* it is meant for.  A WRTE's data names its origin: <<d, i>> is chunk i  *)
(* of the app on device stream d, <<0, i>> chunk i of the host socket.    *)
(***************************************************************************)
EXTENDS Naturals, Sequences, SequencesExt, TLC

CONSTANTS
    Reverses,    \* the host-specs of the reverses set on the device
    MaxOpens,    \* how many streams adbd opens toward the host at most
    Chunks,      \* how many WRTEs an app writes on its stream at most
    HostChunks,  \* how many host-socket reads return data, per reverse
    IdMax        \* u32::MAX, scaled down

\* CHANNEL_BUFFER_SIZE: the mpsc send never waits below it.
ChannelBufferSize == 10

ASSUME MaxOpens < ChannelBufferSize /\ MaxOpens < IdMax

VARIABLES
    lastLocalId, \* AdbDeviceConnection.last_local_packet_id
    wire,        \* device -> host bulk IN endpoint
    store,       \* AdbPacketStore: (arg0, arg1) -> queue of [cmd, data]
    phase,       \* main task: "store" or "wire" step of its read, or "exited"
    handed,      \* main task: the transaction infos sent on the channel
    taken,       \* relay: how many of them it has received
    rpc,         \* relay: "init", "top", "host", "okay", "wrte" or "done"
    rphase,      \* relay: "store" or "wire" step of its current read
    rres,        \* relay: the result of its current read, NoResp while reading
    hostRead,    \* relay: host-socket reads that returned data
    hostOut,     \* relay: the WRTE data written to the host socket
    toDevice,    \* host -> device bulk OUT endpoint
    devNext,     \* adbd: the id of the next stream it opens
    devStreams   \* adbd: device id -> [rev, local, sent, acked, open, got]

vars == <<lastLocalId, wire, store, phase, handed, taken, rpc, rphase, rres,
          hostRead, hostOut, toDevice, devNext, devStreams>>
relayVars == <<taken, rpc, rphase, rres, hostRead, hostOut>>

Alloc == INSTANCE LocalIdAllocator WITH lastIssued <- 0

-----------------------------------------------------------------------------

NoData == <<0, 0>>
Pkt(c, a0, a1, d) == [cmd |-> c, a0 |-> a0, a1 |-> a1, data |-> d]
NoResp   == Pkt("NONE", 0, 0, NoData)
TimedOut == Pkt("TIMEOUT", 0, 0, NoData)

\* initialize_reverse_connection's read: expected = [OPEN] on (0, 0).
ExpectedCmds == {"OPEN"}
OpenInfo == [sent |-> 0, recv |-> 0]

\* AdbTransactionInfo::args_match.
ArgsMatch(ti, a0, a1) == a1 = ti.sent /\ (ti.recv = 0 \/ a0 = ti.recv)

\* The store branch's test: an expected command and the expected data.
StoreAccepts(c, d, r) == (c \in ExpectedCmds \/ ExpectedCmds = {}) /\ d = r

\* The wire branch's test as written,
\*   contains(cmd) || is_empty() && data matches,
\* where && binds tighter than ||: with a non-empty expected list the
\* data is not looked at.
WireAccepts(c, d, r) == c \in ExpectedCmds \/ (ExpectedCmds = {} /\ d = r)

\* put_packet: push_back onto the queue of (arg0, arg1).
PutPacket(s, k, e) ==
    IF k \in DOMAIN s THEN [s EXCEPT ![k] = Append(@, e)]
                      ELSE s @@ (k :> <<e>>)

\* get_packet's pop_front of the found queue.
StorePop(s, k) == [s EXCEPT ![k] = Tail(@)]

\* find_packet(0, 0, expected): any non-empty queue holding an expected
\* command (DashMap iteration order is unspecified).
OpenKeys(s) ==
    {k \in DOMAIN s : \E i \in DOMAIN s[k] : s[k][i].cmd \in ExpectedCmds}

-----------------------------------------------------------------------------
(* Main task                                                               *)

\* The OPEN of device stream d is returned to reverse r: a fresh local id
\* and OKAY(local, d), then the transaction info goes over the channel.  A
\* relay that has returned has dropped the receiver: the send fails and
\* handle_reverse_message returns, which drops the shutdown sender.
Accept(r, d, data) ==
    LET id == Alloc!Issued(lastLocalId) IN
    /\ lastLocalId' = Alloc!NextStored(lastLocalId)
    /\ toDevice' = Append(toDevice, Pkt("OKAY", id, d, NoData))
    /\ IF rpc[r] = "done"
       THEN /\ phase' = [phase EXCEPT ![r] = "exited"]
            /\ UNCHANGED handed
       ELSE /\ handed' = [handed EXCEPT ![r] =
                            Append(@, [sent |-> id, recv |-> d, data |-> data])]
            /\ phase' = [phase EXCEPT ![r] = "store"]

\* One store lookup: get_packet pops the head of a found queue; an OPEN
\* for another reverse is pushed back and the loop goes on to the wire.
OpenStoreStep(r) ==
    /\ phase[r] = "store"
    /\ \/ /\ OpenKeys(store) = {}
          /\ phase' = [phase EXCEPT ![r] = "wire"]
          /\ UNCHANGED <<lastLocalId, store, handed, toDevice>>
       \/ \E k \in OpenKeys(store) :
            LET h == Head(store[k]) IN
            IF StoreAccepts(h.cmd, h.data, r)
            THEN /\ store' = StorePop(store, k)
                 /\ Accept(r, k[1], h.data)
            ELSE /\ store' = PutPacket(StorePop(store, k), k, h)
                 /\ phase' = [phase EXCEPT ![r] = "wire"]
                 /\ UNCHANGED <<lastLocalId, handed, toDevice>>
    /\ UNCHANGED <<wire, devNext, devStreams>> /\ UNCHANGED relayVars

\* One wire read under the transport lock.  An empty endpoint is a header
\* timeout: with no operation timeout the loop sleeps and goes round.
OpenWireStep(r) ==
    /\ phase[r] = "wire"
    /\ \/ /\ wire = <<>>
          /\ phase' = [phase EXCEPT ![r] = "store"]
          /\ UNCHANGED <<lastLocalId, wire, store, handed, toDevice>>
       \/ /\ wire # <<>>
          /\ wire' = Tail(wire)
          /\ LET m == Head(wire) IN
             IF ArgsMatch(OpenInfo, m.a0, m.a1) /\ WireAccepts(m.cmd, m.data, r)
             THEN Accept(r, m.a0, m.data) /\ UNCHANGED store
             ELSE /\ store' = PutPacket(store, <<m.a0, m.a1>>,
                                        [cmd |-> m.cmd, data |-> m.data])
                  /\ phase' = [phase EXCEPT ![r] = "store"]
                  /\ UNCHANGED <<lastLocalId, handed, toDevice>>
    /\ UNCHANGED <<devNext, devStreams>> /\ UNCHANGED relayVars

-----------------------------------------------------------------------------
(* Relay task                                                              *)

\* The transaction the relay serves: the last one it has received.
Cur(r) == IF taken[r] = 0 THEN OpenInfo ELSE handed[r][taken[r]]

\* read_okay_response after a WRTE to the device, else read_wrte_response.
Want(r) == IF rpc[r] = "okay" THEN "OKAY" ELSE "WRTE"

RelayReading(r) == rpc[r] \in {"okay", "wrte"} /\ rres[r] = NoResp

\* get_initial_transaction_info: recv() waits for the first one.
RelayInit(r) ==
    /\ rpc[r] = "init" /\ taken[r] < Len(handed[r])
    /\ taken' = [taken EXCEPT ![r] = @ + 1]
    /\ rpc' = [rpc EXCEPT ![r] = "top"]
    /\ UNCHANGED <<rphase, rres, hostRead, hostOut>>
    /\ UNCHANGED <<lastLocalId, wire, store, phase, handed, toDevice, devNext,
                   devStreams>>

\* One round's start: try_recv takes at most one newer transaction, the
\* old one left as it is.
RelaySwitch(r) ==
    /\ rpc[r] = "top"
    /\ taken' = [taken EXCEPT ![r] = IF @ < Len(handed[r]) THEN @ + 1 ELSE @]
    /\ rpc' = [rpc EXCEPT ![r] = "host"]
    /\ UNCHANGED <<rphase, rres, hostRead, hostOut>>
    /\ UNCHANGED <<lastLocalId, wire, store, phase, handed, toDevice, devNext,
                   devStreams>>

\* The host socket is read for up to 0.5 s.  Data is sent as a WRTE on the
\* current stream and its OKAY awaited, or, when the send fails, dropped
\* with a warning; no data, or an EOF or reset
\* followed by a reconnection, goes straight to the device read; a failed
\* reconnection returns from the relay.
RelayHostRead(r) ==
    /\ rpc[r] = "host"
    /\ \/ /\ hostRead[r] < HostChunks
          /\ hostRead' = [hostRead EXCEPT ![r] = @ + 1]
          /\ toDevice' = Append(toDevice,
                                Pkt("WRTE", Cur(r).sent, Cur(r).recv, <<0, hostRead[r] + 1>>))
          /\ rpc' = [rpc EXCEPT ![r] = "okay"]
       \/ /\ hostRead[r] < HostChunks
          /\ hostRead' = [hostRead EXCEPT ![r] = @ + 1]
          /\ rpc' = [rpc EXCEPT ![r] = "wrte"]
          /\ UNCHANGED toDevice
       \/ /\ rpc' = [rpc EXCEPT ![r] = "wrte"]
          /\ UNCHANGED <<hostRead, toDevice>>
       \/ /\ rpc' = [rpc EXCEPT ![r] = "done"]
          /\ UNCHANGED <<hostRead, toDevice>>
    /\ UNCHANGED <<taken, rphase, rres, hostOut>>
    /\ UNCHANGED <<lastLocalId, wire, store, phase, handed, devNext, devStreams>>

\* The key the relay's store lookup uses: get_packet(receive id, sent id).
RelayKeySwapped(r) == <<Cur(r).sent, Cur(r).recv>>
RelayKey(r) == <<Cur(r).recv, Cur(r).sent>>

\* The wanted answer has reached the host: on the wire, or parked under
\* the relay's key.
AnswerArrived(r) ==
    \/ \E i \in DOMAIN wire : /\ ArgsMatch(Cur(r), wire[i].a0, wire[i].a1)
                              /\ wire[i].cmd = Want(r)
    \/ \E k \in DOMAIN store : /\ k = <<Cur(r).recv, Cur(r).sent>>
                               /\ \E i \in DOMAIN store[k] : store[k][i].cmd = Want(r)

\* The read loop with operation_timeout_s = Some(1.5 s): the deadline
\* passes at the top of an iteration while the answer is still late; an
\* answer that comes later is parked by whichever reader takes it.
RelayTimeout(r) ==
    /\ RelayReading(r) /\ rphase[r] = "store" /\ ~AnswerArrived(r)
    /\ rres' = [rres EXCEPT ![r] = TimedOut]
    /\ UNCHANGED <<taken, rpc, rphase, hostRead, hostOut>>
    /\ UNCHANGED <<lastLocalId, wire, store, phase, handed, toDevice, devNext,
                   devStreams>>

\* The store lookup under the current transaction's exact key.
RelayStoreStep(r) ==
    /\ RelayReading(r) /\ rphase[r] = "store"
    /\ LET k == RelayKey(r) IN
       IF k \in DOMAIN store /\ store[k] # <<>>
       THEN LET h == Head(store[k]) IN
            IF h.cmd = Want(r)
            THEN /\ rres' = [rres EXCEPT ![r] = Pkt(h.cmd, k[1], k[2], h.data)]
                 /\ store' = StorePop(store, k)
                 /\ UNCHANGED rphase
            ELSE /\ store' = PutPacket(StorePop(store, k), k, h)
                 /\ rphase' = [rphase EXCEPT ![r] = "wire"]
                 /\ UNCHANGED rres
       ELSE /\ rphase' = [rphase EXCEPT ![r] = "wire"]
            /\ UNCHANGED <<store, rres>>
    /\ UNCHANGED <<taken, rpc, hostRead, hostOut>>
    /\ UNCHANGED <<lastLocalId, wire, phase, handed, toDevice, devNext, devStreams>>

\* The wire read: a packet of the current stream with the wanted command
\* is returned, anything else is parked.
RelayWireStep(r) ==
    /\ RelayReading(r) /\ rphase[r] = "wire"
    /\ rphase' = [rphase EXCEPT ![r] = "store"]
    /\ \/ /\ wire = <<>>
          /\ UNCHANGED <<wire, store, rres>>
       \/ /\ wire # <<>>
          /\ wire' = Tail(wire)
          /\ LET m == Head(wire) IN
             IF ArgsMatch(Cur(r), m.a0, m.a1) /\ m.cmd = Want(r)
             THEN /\ rres' = [rres EXCEPT ![r] = m]
                  /\ UNCHANGED store
             ELSE /\ store' = PutPacket(store, <<m.a0, m.a1>>,
                                        [cmd |-> m.cmd, data |-> m.data])
                  /\ UNCHANGED rres
    /\ UNCHANGED <<taken, rpc, hostRead, hostOut>>
    /\ UNCHANGED <<lastLocalId, phase, handed, toDevice, devNext, devStreams>>

\* read_okay_response returned: an OKAY, or a timeout that is only logged.
RelayOkay(r) ==
    /\ rpc[r] = "okay" /\ rres[r] # NoResp
    /\ rres' = [rres EXCEPT ![r] = NoResp]
    /\ rpc' = [rpc EXCEPT ![r] = "wrte"]
    /\ UNCHANGED <<taken, rphase, hostRead, hostOut>>
    /\ UNCHANGED <<lastLocalId, wire, store, phase, handed, toDevice, devNext,
                   devStreams>>

\* Variant: the response is written to the host socket whatever it is.
RelayWrteAny(r) ==
    /\ rpc[r] = "wrte" /\ rres[r] # NoResp
    /\ rres' = [rres EXCEPT ![r] = NoResp]
    /\ rpc' = [rpc EXCEPT ![r] = "top"]
    /\ toDevice' = Append(toDevice, Pkt("OKAY", Cur(r).sent, Cur(r).recv, NoData))
    /\ hostOut' = [hostOut EXCEPT ![r] = Append(@, rres[r].data)]
    /\ UNCHANGED <<taken, rphase, hostRead>>
    /\ UNCHANGED <<lastLocalId, wire, store, phase, handed, devNext, devStreams>>

\* read_wrte_response returned: a WRTE is OKAYed and written to the host
\* socket; a timeout is taken as no data and the next round starts.
RelayWrte(r) ==
    /\ rpc[r] = "wrte" /\ rres[r] # NoResp
    /\ rres' = [rres EXCEPT ![r] = NoResp]
    /\ rpc' = [rpc EXCEPT ![r] = "top"]
    /\ IF rres[r].cmd = "WRTE"
       THEN /\ toDevice' = Append(toDevice,
                                  Pkt("OKAY", Cur(r).sent, Cur(r).recv, NoData))
            /\ hostOut' = [hostOut EXCEPT ![r] = Append(@, rres[r].data)]
       ELSE UNCHANGED <<toDevice, hostOut>>
    /\ UNCHANGED <<taken, rphase, hostRead>>
    /\ UNCHANGED <<lastLocalId, wire, store, phase, handed, devNext, devStreams>>

-----------------------------------------------------------------------------
(* adbd and the apps on the device                                         *)

\* An app connects to the device port reversed to r: adbd opens a stream.
DeviceOpen(r) ==
    /\ devNext <= MaxOpens
    /\ wire' = Append(wire, Pkt("OPEN", devNext, 0, r))
    /\ devStreams' = devStreams @@ (devNext :> [rev |-> r, local |-> 0, sent |-> 0,
                                                acked |-> FALSE, open |-> TRUE,
                                                got |-> <<>>])
    /\ devNext' = devNext + 1
    /\ UNCHANGED <<lastLocalId, store, phase, handed, toDevice>> /\ UNCHANGED relayVars

\* adbd takes the next host packet: an OKAY opens its stream or lets the
\* app write again; a WRTE on an open stream goes to the app and is OKAYed.
DeviceReceive ==
    /\ toDevice # <<>>
    /\ toDevice' = Tail(toDevice)
    /\ LET p == Head(toDevice)
           d == p.a1
       IN  IF d \in DOMAIN devStreams
           THEN IF p.cmd = "OKAY"
                THEN /\ devStreams' = [devStreams EXCEPT ![d].acked = TRUE,
                                          ![d].local = IF @ = 0 THEN p.a0 ELSE @]
                     /\ UNCHANGED wire
                ELSE IF devStreams[d].open
                     THEN /\ devStreams' = [devStreams EXCEPT ![d].got = Append(@, p.data)]
                          /\ wire' = Append(wire, Pkt("OKAY", d, p.a0, NoData))
                     ELSE UNCHANGED <<devStreams, wire>>
           ELSE UNCHANGED <<devStreams, wire>>
    /\ UNCHANGED <<lastLocalId, store, phase, handed, devNext>> /\ UNCHANGED relayVars

\* The app writes its next chunk once the previous one was OKAYed.
DeviceWrite(d) ==
    LET s == devStreams[d] IN
    /\ s.open /\ s.local # 0 /\ s.acked /\ s.sent < Chunks
    /\ devStreams' = [devStreams EXCEPT ![d].sent = s.sent + 1, ![d].acked = FALSE]
    /\ wire' = Append(wire, Pkt("WRTE", d, s.local, <<d, s.sent + 1>>))
    /\ UNCHANGED <<lastLocalId, store, phase, handed, toDevice, devNext>>
    /\ UNCHANGED relayVars

\* The app closes its connection: adbd sends CLSE.
DeviceClose(d) ==
    /\ devStreams[d].open /\ devStreams[d].local # 0
    /\ devStreams' = [devStreams EXCEPT ![d].open = FALSE]
    /\ wire' = Append(wire, Pkt("CLSE", d, devStreams[d].local, NoData))
    /\ UNCHANGED <<lastLocalId, store, phase, handed, toDevice, devNext>>
    /\ UNCHANGED relayVars

-----------------------------------------------------------------------------

\* Each reverse's setup sent its reverse:forward OPEN with a fresh local
\* id, and other commands may have taken more: the counter is past 0.
Init ==
    /\ lastLocalId \in 1..(IdMax - 1)
    /\ wire = <<>> /\ store = <<>> /\ toDevice = <<>>
    /\ phase = [r \in Reverses |-> "store"]
    /\ handed = [r \in Reverses |-> <<>>]
    /\ taken = [r \in Reverses |-> 0]
    /\ rpc = [r \in Reverses |-> "init"]
    /\ rphase = [r \in Reverses |-> "store"]
    /\ rres = [r \in Reverses |-> NoResp]
    /\ hostRead = [r \in Reverses |-> 0]
    /\ hostOut = [r \in Reverses |-> <<>>]
    /\ devNext = 1
    /\ devStreams = <<>>

\* Every main task has returned; the reverse tasks are over.
Ended == \A r \in Reverses : phase[r] = "exited"

Main(r) == OpenStoreStep(r) \/ OpenWireStep(r)

Relay(r) ==
    \/ RelayInit(r) \/ RelaySwitch(r) \/ RelayHostRead(r) \/ RelayTimeout(r) \/ RelayStoreStep(r)
    \/ RelayWireStep(r) \/ RelayOkay(r) \/ RelayWrte(r)

Next ==
    \/ \E r \in Reverses : Main(r) \/ Relay(r) \/ DeviceOpen(r)
    \/ DeviceReceive
    \/ \E d \in DOMAIN devStreams : DeviceWrite(d) \/ DeviceClose(d)
    \/ Ended /\ UNCHANGED vars

\* Each main task and each relay is a tokio task that loops without
\* blocking for good, and adbd keeps reading its OUT endpoint.  The
\* relay's 1.5 s deadline passes in real time and is tested at the top
\* of every iteration, which the loop reaches again and again: strong
\* fairness of the timeout.
Fairness ==
    /\ \A r \in Reverses : /\ WF_vars(Main(r)) /\ WF_vars(Relay(r))
                           /\ SF_vars(RelayTimeout(r))
    /\ WF_vars(DeviceReceive)

Spec == Init /\ [][Next]_vars /\ Fairness

-----------------------------------------------------------------------------

TypeOK ==
    /\ phase \in [Reverses -> {"store", "wire", "exited"}]
    /\ rpc \in [Reverses -> {"init", "top", "host", "okay", "wrte", "done"}]
    /\ rphase \in [Reverses -> {"store", "wire"}]
    /\ \A r \in Reverses : taken[r] \in 0..Len(handed[r])
    /\ hostRead \in [Reverses -> 0..HostChunks]
    /\ DOMAIN devStreams = 1..(devNext - 1)
    /\ lastLocalId \in 0..(IdMax - 1)
    /\ hostOut \in [Reverses -> Seq((1..MaxOpens) \X (1..Chunks))]

\* Spec 4.10 step 1: each reverse's main task waits for an OPEN whose data
\* is its own host-spec, so every stream a relay is handed is one the
\* device opened for that reverse's host endpoint.
OpenRoutedToOwner ==
    \A r \in Reverses : \A i \in DOMAIN handed[r] : handed[r][i].data = r

\* The relay serves device stream d: it has received the transaction of
\* d and not switched away from it, and it has not returned.
Serving(r, d) ==
    /\ taken[r] > 0 /\ rpc[r] # "done"
    /\ Cur(r).recv = d

\* Property (handle_bidirectional_stream_relay, read_wrte_response with its
\* 1.5 s timeout taken as no data, the main task's wire reads parking the
\* relay's WRTEs and OKAYs, the exact-key store lookup that must find
\* them): every chunk the app on the stream the relay serves has written
\* reaches the host socket, unless the relay switches to a newer stream
\* or returns first.  A late WRTE, parked after a timeout, is taken by a
\* later round.
CurrentStreamRelayed ==
    \A r \in Reverses : \A d \in 1..MaxOpens : \A i \in 1..Chunks :
        (d \in DOMAIN devStreams /\ Serving(r, d) /\ devStreams[d].sent >= i)
            ~> (<<d, i>> \in Range(hostOut[r]) \/ ~Serving(r, d))

====
