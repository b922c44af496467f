---------------------------- MODULE Authenticator ----------------------------
(***************************************************************************)
(* The connect handshake of one device connection (authenticator.rs,       *)
(* adb_connect and adb_authenticate), called as connect(None) from         *)
(* on_find_device.  The host sends CNXN, waits through the packet-store     *)
(* read loop for AUTH or OPEN on the (sent 0, receive 1) transaction, signs *)
(* the token, and then reads the device's answers with                     *)
(* read_adb_message_last_message, whose header read has a 50 ms timeout    *)
(* (ADB_HEADER_TIMEOUT_SECONDS) whatever AUTH_TIME_OUT_SECONDS says.       *)
(*                                                                         *)
(* The device is the environment, adbd's authentication: with             *)
(* ro.adb.secure off it answers CNXN at once; otherwise it sends an AUTH    *)
(* token (a fresh one for every CNXN and every signature it rejects),      *)
(* answers a signature of its current token by a known key with CNXN, and  *)
(* answers a public key by asking its user, sending CNXN if the user       *)
(* accepts.  Each device packet has a latency: "fast" (it has arrived, a   *)
(* 50 ms header read sees it), "slow" (within 5 s) or "user" (a person at   *)
(* the prompt).  Time passes only while the host waits: a read that times  *)
(* out and sleeps brings the next packet one class closer.  A device may   *)
(* still hold packets for an earlier server (one restarted, or killed):    *)
(* the packets of that server's streams, or the token of a handshake it    *)
(* never finished, come first on the wire.                                 *)
(***************************************************************************)
EXTENDS Naturals, Sequences

CONSTANTS
    Devices,      \* the device configurations: [secure, keyKnown, userAccepts]
    StaleWires    \* packets adbd still sends for an earlier server

\* Commands and fields of constants.rs.
CNXN == "CNXN"
AUTH == "AUTH"
OPEN == "OPEN"
AuthToken == 1                     \* adbd's AUTH type 1
AuthSignature == 2                 \* AUTH_SIGNATURE
AuthRsaPublicKey == 3              \* AUTH_RSA_PUBLIC_KEY
AdbVersion == 16777216             \* ADB_SERVER_VERSION 0x01000000
MaxAdbData == 1048576              \* MAX_ADB_DATA
DeviceVersion == 16777217          \* adbd's A_VERSION in its CNXN
NoData == 0                        \* a payload no property reads; tokens are 1, 2, ...

Latencies == {"fast", "slow", "user"}
\* The answers a read with the 50 ms header timeout sees.
HeaderWindow == {"fast"}
Arrived(w) == w # <<>> /\ Head(w).lat \in HeaderWindow

\* A read that timed out, and the sleep after it, let time pass: the next
\* packet on the wire comes one latency class closer.
Sooner(l) == IF l = "user" THEN "slow" ELSE "fast"
Elapse(w) == IF w = <<>> THEN w ELSE [w EXCEPT ![1].lat = Sooner(@)]

VARIABLES
    hpc,          \* where adb_connect is
    toDev,        \* host -> device packets
    wire,         \* device -> host packets, each with its latency
    parked,       \* the packet store: packets the read loop did not want
    dev,          \* this device's configuration
    devOnline,    \* adbd has accepted this host: the device is connected
    devToken      \* the last AUTH token adbd issued

vars == <<hpc, toDev, wire, parked, dev, devOnline, devToken>>

Msg(c, a0, a1, d) == [cmd |-> c, a0 |-> a0, a1 |-> a1, data |-> d]

HostMsgs == [cmd : {CNXN}, a0 : {AdbVersion}, a1 : {MaxAdbData}, data : {NoData}]
            \cup [cmd : {AUTH}, a0 : {AuthSignature}, a1 : {0}, data : Nat]
            \cup [cmd : {AUTH}, a0 : {AuthRsaPublicKey}, a1 : {0}, data : {NoData}]

-----------------------------------------------------------------------------
(* The read loop (read_adb_message_with_packet_store) on the CNXN          *)
(* transaction AdbTransactionInfo::new(0, 1), expecting AUTH or OPEN.      *)

CnxnSent == 0
CnxnRecv == 1
Expected == {AUTH, OPEN}

\* AdbTransactionInfo::args_match
ArgsMatch(a0, a1) == a1 = CnxnSent /\ (CnxnRecv = 0 \/ a0 = CnxnRecv)

\* put_packet keeps the command and data under the (arg0, arg1) key.
Stored(m) == Msg(m.cmd, m.a0, m.a1, m.data)
Key(p) == <<p.a0, p.a1>>

\* get_packet(1, 0, ..): find_packet's (0, _) arm returns the first key in
\* DashMap order whose arg0 is 1 and whose queue is not empty; that order
\* is the hash's, so any such key may be the one.
StoreKeyHit(p) == p.a0 = CnxnRecv
StoreHits == {Key(parked[i]) : i \in {j \in DOMAIN parked : StoreKeyHit(parked[j])}}
\* The front of key k's queue: the oldest parked packet with that key.
FirstHit(k) == CHOOSE i \in DOMAIN parked :
                   /\ Key(parked[i]) = k
                   /\ \A j \in 1..(i - 1) : Key(parked[j]) # k
Without(s, i) == SubSeq(s, 1, i - 1) \o SubSeq(s, i + 1, Len(s))

\* Mutant of OnAuthOrOpen: the signature sent with the token's type.
OnAuthOrOpenTokenType(m) ==
    CASE m.cmd = AUTH -> /\ toDev' = Append(toDev, Msg(AUTH, AuthToken, 0, m.data))
                         /\ hpc' = "sig_reply"
      [] m.cmd = OPEN -> hpc' = "connected" /\ UNCHANGED toDev
      [] OTHER        -> hpc' = "failed" /\ UNCHANGED toDev

\* What adb_connect does with the first packet the stream yields: sign the
\* token it carries and send the signature, accept an OPEN as a trusted
\* device, or fail on anything else.
OnAuthOrOpen(m) ==
    CASE m.cmd = AUTH -> /\ toDev' = Append(toDev, Msg(AUTH, AuthSignature, 0, m.data))
                         /\ hpc' = "sig_reply"
      [] m.cmd = OPEN -> hpc' = "connected" /\ UNCHANGED toDev
      [] OTHER        -> hpc' = "failed" /\ UNCHANGED toDev

-----------------------------------------------------------------------------
(* The host.                                                               *)

\* adb_connect: acquire the interface and send CNXN (send_cnxn_command).
SendCnxn ==
    /\ hpc = "start"
    /\ toDev' = Append(toDev, Msg(CNXN, AdbVersion, MaxAdbData, NoData))
    /\ hpc' = "store"
    /\ UNCHANGED <<wire, parked, dev, devOnline, devToken>>

\* Mutant of ReadStoreStep: a rejected store hit ends the iteration, so the
\* loop looks in the store again instead of reading the wire.
ReadStoreSkipsWire ==
    /\ hpc = "store"
    /\ IF StoreHits = {}
       THEN hpc' = "wire" /\ UNCHANGED <<parked, toDev>>
       ELSE \E k \in StoreHits :
              LET i == FirstHit(k)
                  m == parked[i] IN
              IF m.cmd \in Expected
              THEN parked' = Without(parked, i) /\ OnAuthOrOpen(m)
              ELSE /\ parked' = Append(Without(parked, i), m)
                   /\ UNCHANGED <<hpc, toDev>>
    /\ UNCHANGED <<wire, dev, devOnline, devToken>>

\* The top of one iteration of the read loop: get_packet pops the front of
\* a hit key's queue; an AUTH or OPEN is returned, anything else is put
\* back at the tail of its queue and the iteration goes on to the wire.
ReadStoreStep ==
    /\ hpc = "store"
    /\ IF StoreHits = {}
       THEN hpc' = "wire" /\ UNCHANGED <<parked, toDev>>
       ELSE \E k \in StoreHits :
              LET i == FirstHit(k)
                  m == parked[i] IN
              IF m.cmd \in Expected
              THEN parked' = Without(parked, i) /\ OnAuthOrOpen(m)
              ELSE /\ parked' = Append(Without(parked, i), m)
                   /\ hpc' = "wire" /\ UNCHANGED toDev
    /\ UNCHANGED <<wire, dev, devOnline, devToken>>

\* The wire read of the iteration: a packet of this transaction with an
\* expected command is returned; any other is parked under its key.
ReadWireStep ==
    /\ hpc = "wire" /\ Arrived(wire)
    /\ wire' = Tail(wire)
    /\ LET m == Head(wire) IN
       IF ArgsMatch(m.a0, m.a1) /\ m.cmd \in Expected
       THEN OnAuthOrOpen(m) /\ UNCHANGED parked
       ELSE /\ parked' = Append(parked, Stored(m))
            /\ hpc' = "store" /\ UNCHANGED toDev
    /\ UNCHANGED <<dev, devOnline, devToken>>

\* The header read finds nothing within 50 ms: with no operation timeout
\* (connect(None)) the loop sleeps 500 ms and goes round again.
ReadRetry ==
    /\ hpc = "wire" /\ ~Arrived(wire)
    /\ wire' = Elapse(wire)
    /\ hpc' = "store"
    /\ UNCHANGED <<toDev, parked, dev, devOnline, devToken>>

\* Mutant of ReadSigReply: any answer to the signature taken as CNXN.
ReadSigReplyAnyCnxn ==
    /\ hpc = "sig_reply" /\ toDev = <<>>
    /\ IF Arrived(wire)
       THEN wire' = Tail(wire) /\ hpc' = "connected" /\ UNCHANGED toDev
       ELSE hpc' = "failed" /\ UNCHANGED <<wire, toDev>>
    /\ UNCHANGED <<parked, dev, devOnline, devToken>>

\* adb_authenticate: read_adb_message_last_message after the signature.
\* The header must come within 50 ms; a CNXN authenticates, anything else
\* makes the host send its public key.  A timeout is Unauthorized.
ReadSigReply ==
    /\ hpc = "sig_reply" /\ toDev = <<>>
    /\ IF Arrived(wire)
       THEN /\ wire' = Tail(wire)
            /\ IF Head(wire).cmd = CNXN
               THEN hpc' = "connected" /\ UNCHANGED toDev
               ELSE /\ toDev' = Append(toDev, Msg(AUTH, AuthRsaPublicKey, 0, NoData))
                    /\ hpc' = "pub_reply"
       ELSE hpc' = "failed" /\ UNCHANGED <<wire, toDev>>
    /\ UNCHANGED <<parked, dev, devOnline, devToken>>

\* After the public key any packet read is success (Ok, "pub_ok"); a
\* timeout fails.
ReadPubReply ==
    /\ hpc = "pub_reply" /\ toDev = <<>>
    /\ IF Arrived(wire)
       THEN wire' = Tail(wire) /\ hpc' = "pub_ok"
       ELSE hpc' = "failed" /\ UNCHANGED wire
    /\ UNCHANGED <<toDev, parked, dev, devOnline, devToken>>

-----------------------------------------------------------------------------
(* The device.                                                             *)

Respond(c, a0, a1, d, lat) ==
    wire' = Append(wire, [cmd |-> c, a0 |-> a0, a1 |-> a1, data |-> d, lat |-> lat])

\* adbd issues a fresh token and sends it.
SendToken(lat) ==
    /\ devToken' = devToken + 1
    /\ Respond(AUTH, AuthToken, 0, devToken + 1, lat)

\* adbd takes the host's next packet.  A CNXN drops whatever session it
\* had; a signature is checked against the current token.
DeviceReceive ==
    /\ toDev # <<>>
    /\ toDev' = Tail(toDev)
    /\ LET m == Head(toDev)
           signature == m.cmd = AUTH /\ m.a0 = AuthSignature
           pubKey == m.cmd = AUTH /\ m.a0 = AuthRsaPublicKey IN
       \/ /\ m.cmd = CNXN /\ ~dev.secure
          /\ Respond(CNXN, DeviceVersion, MaxAdbData, NoData, "fast")
          /\ devOnline' = TRUE /\ UNCHANGED devToken
       \/ /\ m.cmd = CNXN /\ dev.secure
          /\ \E lat \in {"fast", "slow"} : SendToken(lat)
          /\ devOnline' = FALSE
       \/ /\ signature /\ m.data = devToken /\ dev.keyKnown
          /\ \E lat \in {"fast", "slow"} :
                Respond(CNXN, DeviceVersion, MaxAdbData, NoData, lat)
          /\ devOnline' = TRUE /\ UNCHANGED devToken
       \/ /\ signature /\ ~(m.data = devToken /\ dev.keyKnown)
          /\ SendToken("fast")
          /\ UNCHANGED devOnline
       \/ /\ pubKey /\ dev.userAccepts
          /\ Respond(CNXN, DeviceVersion, MaxAdbData, NoData, "user")
          /\ devOnline' = TRUE /\ UNCHANGED devToken
       \/ /\ pubKey /\ ~dev.userAccepts
          /\ UNCHANGED <<wire, devOnline, devToken>>
    /\ UNCHANGED <<hpc, parked, dev>>

Returned == hpc \in {"connected", "pub_ok", "failed"}

\* adb_connect has returned.
Finished == Returned /\ UNCHANGED vars

\* A stream packet on the wire means that adbd was online with the earlier
\* server; its unanswered token means that server was still authenticating.
Init ==
    /\ hpc = "start" /\ toDev = <<>> /\ parked = <<>>
    /\ dev \in Devices
    /\ wire \in StaleWires
    /\ devOnline = \E i \in DOMAIN wire : wire[i].cmd # AUTH
    /\ devToken = 1

Host == SendCnxn \/ ReadStoreStep \/ ReadWireStep \/ ReadRetry
        \/ ReadSigReply \/ ReadPubReply

Next == Host \/ DeviceReceive \/ Finished

\* The connecting task runs until adb_connect returns, and adbd answers
\* every packet it is sent.
Spec == Init /\ [][Next]_vars /\ WF_vars(Host) /\ WF_vars(DeviceReceive)

-----------------------------------------------------------------------------
(* Properties.                                                             *)

Packets == [cmd : {CNXN, AUTH, OPEN, "WRTE", "OKAY", "CLSE"}, a0 : Nat, a1 : Nat,
            data : Nat]
HostStates == {"start", "store", "wire", "sig_reply", "pub_reply", "connected",
               "pub_ok", "failed"}

TypeOK ==
    /\ hpc \in HostStates
    /\ \A i \in DOMAIN toDev : toDev[i] \in HostMsgs
    /\ \A i \in DOMAIN wire : wire[i].lat \in Latencies
    /\ parked \in Seq(Packets)
    /\ dev \in Devices /\ devOnline \in BOOLEAN /\ devToken \in Nat

\* adb_connect returns Ok through a CNXN answer to its signature, or an
\* OPEN, only for a device that has gone online for this host: neither an
\* earlier server's stream packets, parked and looked up again on every
\* iteration of the read loop, nor that server's unanswered token (signed
\* by the host, rejected by adbd, answered with a fresh token) lead the
\* CNXN/AUTH branches of adb_connect and adb_authenticate to a success
\* adbd has not granted.  The public-key branch ("pub_ok") is Ok by design
\* before the user has answered (spec 4.6, 2c) and is not included.
ConnectedMeansOnline == hpc = "connected" => devOnline

\* With ro.adb.secure on, connect(None) returns: the read loop has no
\* timeout, yet packets of an earlier server's streams parked under keys
\* the (1, _) lookup finds are put back and the wire is still read, a
\* slow token is read once it arrives, and every read after the token
\* has the 50 ms header timeout.
SecureConnectReturns == dev.secure => <>Returned

====
