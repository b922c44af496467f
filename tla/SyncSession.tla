----------------------------- MODULE SyncSession -----------------------------
(***************************************************************************)
(* One client in sync mode (sync.rs, _handle_sync_mode, entered through    *)
(* server/sync.rs handle_sync_command) on the single ADB stream opened by  *)
(* "sync:".                                                                *)
(*                                                                         *)
(* The handler reads sync requests from the client socket (script), sends  *)
(* them to the device as WRTE packets, reads the device's OKAY and WRTE    *)
(* replies through the read loop of daemon.rs (packets it does not want    *)
(* are parked in the packet store under the stream's key), and writes what *)
(* it forwards to the client socket (sock).                                *)
(*                                                                         *)
(* Bytes are abstracted to units: a 4-byte tag or u32 field is CmdSize or  *)
(* U32Width units, a name or payload byte is one unit.  The parsing code   *)
(* only compares offsets against these sizes, so scaled sizes with the same *)
(* order keep every case of its checks, and WRTE chunk boundaries can fall *)
(* anywhere, inside a tag or field included.                               *)
(*                                                                         *)
(* The device is the environment, an adbd file-sync service: it acks each  *)
(* WRTE with OKAY, serves one request after the other, writes its replies  *)
(* in WRTE chunks of up to MaxChunk units, each after the host's OKAY, and *)
(* answers the DONE of a SEND with an OKAY or FAIL status.  A read may time *)
(* out whenever nothing it wants has arrived (a slow device).  The client  *)
(* may close its socket at any time.                                       *)
(***************************************************************************)
EXTENDS Naturals, Sequences, SequencesExt, TLC

CONSTANTS
    CmdSize,             \* 4 bytes of a sync tag
    U32Width,            \* 4 bytes of a u32 field (DENT_NAME_LENGTH_SIZE)
    DentHeaderSize,      \* DENT_HEADER_SIZE: tag, mode, size, mtime
    SyncMaxChunk,        \* SYNC_MAX_CHUNK_SIZE
    MaxChunk,            \* the largest WRTE payload the device writes
    Scripts,             \* the request sequences a client may send
    Listings,            \* the directory listings the device may return
    MaxDoneWrites        \* bound on the DONE records written for one LIST

ASSUME /\ 0 < CmdSize /\ CmdSize < DentHeaderSize /\ 0 < U32Width
       /\ 0 < SyncMaxChunk /\ 0 < MaxChunk /\ MaxDoneWrites \in Nat

DentMinSize == DentHeaderSize + U32Width       \* DENT_MIN_SIZE

VARIABLES
    script,      \* the requests this client sends, in order
    pc,          \* where the handler is; see Want for the read states
    pos,         \* how many items of script the handler has read
    hostReq,     \* how many sync requests the handler has sent
    wire,        \* device -> host packets of the stream, in order
    parked,      \* the packet store's queue for the stream's key
    toDev,       \* host -> device packets, in order
    buf,         \* the handler's byte buffer (LIST framing, SEND data)
    idx,         \* LIST: index into buf
    doneWrites,  \* LIST: DONE records written to the client
    sock,        \* what the handler wrote to the client: [req, data]
    sockOpen,    \* the client has not closed its socket
    devOut,      \* device: reply bytes not yet written
    devCredit,   \* device: may write its next WRTE
    devMode,     \* device: "idle", "send" (receiving a file) or "closed"
    devReq,      \* device: how many requests it has served
    devRecv,     \* device: the bytes of the file being received
    devLists,    \* device: request number -> the listing it returned
    devStatus    \* device: request number -> its status for a SEND

hostVars == <<pc, pos, hostReq, buf, idx, doneWrites, sock>>
devVars == <<devOut, devCredit, devMode, devReq, devRecv, devLists, devStatus>>
vars == <<script, hostVars, devVars, wire, parked, toDev, sockOpen>>

-----------------------------------------------------------------------------
(* Encodings (constants.rs and the create_*_command builders).             *)

\* Every unit is a byte value.  A tag is CmdSize distinct byte values, none
\* of which a name, path or u32 field of the model uses.
TagCode == [STAT |-> 100, LIST |-> 110, RECV |-> 120, SEND |-> 130, QUIT |-> 140,
            DATA |-> 150, DONE |-> 160, DENT |-> 170, FAIL |-> 180, OKAY |-> 190]
Tag(t) == [i \in 1..CmdSize |-> TagCode[t] + i]
Char == 65                                      \* a byte of a name or message
Zeros(n) == [i \in 1..n |-> 0]

\* u32::to_le_bytes, w units of base 256
RECURSIVE LeBytes(_, _)
LeBytes(v, w) == IF w = 0 THEN <<>> ELSE <<v % 256>> \o LeBytes(v \div 256, w - 1)

\* u32::from_le_bytes
RECURSIVE FromLeBytes(_)
FromLeBytes(s) == IF s = <<>> THEN 0 ELSE Head(s) + 256 * FromLeBytes(Tail(s))

\* A request with a one-unit path: create_stat/list/recv_command and the
\* SEND init of create_init_send_command.
Request(t) == Tag(t) \o LeBytes(1, U32Width) \o <<Char>>
QuitRequest == Tag("QUIT") \o Zeros(U32Width)        \* create_quit_command

\* What the client sends after SEND, as send_file_data re-encodes it.
DataRecord == Tag("DATA") \o LeBytes(1, U32Width) \o <<Char>>
DoneTail == Tag("DONE") \o LeBytes(0, U32Width)
ClientBytes(item) ==
    IF item = "DATA" THEN DataRecord ELSE IF item = "DONE" THEN DoneTail ELSE <<>>
SendPayload == FlattenSeq([i \in DOMAIN script |-> ClientBytes(script[i])])

\* The device's replies (the adbd side of the sync protocol).
DentRecord(k) ==
    Tag("DENT") \o Zeros(DentHeaderSize - CmdSize) \o LeBytes(k, U32Width)
        \o [i \in 1..k |-> Char]
DoneRecord == Tag("DONE") \o Zeros(DentMinSize - CmdSize)
ListReply(ks) == FlattenSeq([i \in DOMAIN ks |-> DentRecord(ks[i])]) \o DoneRecord
FailReply == Tag("FAIL") \o LeBytes(1, U32Width) \o <<Char>>
StatReply(ok) == IF ok THEN Tag("STAT") \o Zeros(3 * U32Width) ELSE FailReply
RecvReply == DataRecord \o DoneTail
SendStatus(ok) == IF ok THEN Tag("OKAY") \o Zeros(U32Width) ELSE FailReply

\* send_fail_with_response: FAIL and the error text, which is left out.
FailResponse == Tag("FAIL")

Wrte(d) == [cmd |-> "WRTE", data |-> d]
Okay == [cmd |-> "OKAY", data |-> <<>>]
Clse == [cmd |-> "CLSE", data |-> <<>>]
IsSuffixOf(s, t) == Len(s) <= Len(t) /\ SubSeq(t, Len(t) - Len(s) + 1, Len(t)) = s

-----------------------------------------------------------------------------
(* The device.                                                             *)

\* adbd takes the next host packet: an OKAY returns its write credit; a WRTE
\* is acked and then served: a request in idle mode, file bytes in send mode.
DeviceReceive ==
    /\ toDev # <<>>
    /\ toDev' = Tail(toDev)
    /\ LET p == Head(toDev)
           d == p.data
           tag == SubSeq(d, 1, CmdSize)
           r == devReq + 1
       IN
       \/ /\ p.cmd = "OKAY"
          /\ devCredit' = TRUE
          /\ UNCHANGED <<wire, devOut, devMode, devReq, devRecv, devLists, devStatus>>
       \/ /\ p.cmd = "WRTE" /\ devMode = "send"
          /\ devRecv' = devRecv \o d
          /\ UNCHANGED <<devCredit, devReq, devLists>>
          /\ IF IsSuffixOf(DoneTail, devRecv \o d)
             THEN \E ok \in BOOLEAN :
                     /\ wire' = Append(wire, Okay)
                     /\ devOut' = devOut \o SendStatus(ok)
                     /\ devStatus' = devStatus @@ (devReq :> ok)
                     /\ devMode' = "idle"
             ELSE /\ wire' = Append(wire, Okay)
                  /\ UNCHANGED <<devOut, devStatus, devMode>>
       \/ /\ p.cmd = "WRTE" /\ devMode = "idle"
          /\ devReq' = r
          /\ UNCHANGED <<devCredit, devRecv>>
          /\ \/ /\ tag = Tag("STAT")
                /\ \E ok \in BOOLEAN : devOut' = devOut \o StatReply(ok)
                /\ wire' = Append(wire, Okay)
                /\ UNCHANGED <<devMode, devLists, devStatus>>
             \/ /\ tag = Tag("LIST")
                /\ \/ \E ks \in Listings :
                      /\ devOut' = devOut \o ListReply(ks)
                      /\ devLists' = devLists @@ (r :> ks)
                   \/ devOut' = devOut \o FailReply /\ UNCHANGED devLists
                /\ wire' = Append(wire, Okay)
                /\ UNCHANGED <<devMode, devStatus>>
             \/ /\ tag = Tag("RECV")
                /\ devOut' = devOut \o RecvReply
                /\ wire' = Append(wire, Okay)
                /\ UNCHANGED <<devMode, devLists, devStatus>>
             \/ /\ tag = Tag("SEND")
                /\ devMode' = "send" /\ devRecv' = <<>>
                /\ wire' = Append(wire, Okay)
                /\ UNCHANGED <<devOut, devLists, devStatus>>
             \/ /\ tag = Tag("QUIT")
                /\ devMode' = "closed"
                /\ wire' = wire \o <<Okay, Clse>>
                /\ UNCHANGED <<devOut, devLists, devStatus>>
       \/ /\ p.cmd = "WRTE" /\ devMode = "closed"
          /\ UNCHANGED <<wire, devVars>>
    /\ UNCHANGED <<script, hostVars, parked, sockOpen>>

\* adbd writes the next chunk of its reply once the host has acked the last.
DeviceWrite ==
    /\ devCredit /\ devOut # <<>> /\ devMode # "closed"
    /\ \E n \in 1..MaxChunk :
          /\ n <= Len(devOut)
          /\ wire' = Append(wire, Wrte(SubSeq(devOut, 1, n)))
          /\ devOut' = SubSeq(devOut, n + 1, Len(devOut))
    /\ devCredit' = FALSE
    /\ UNCHANGED <<script, hostVars, parked, toDev, sockOpen, devMode, devReq, devRecv,
                   devLists, devStatus>>

-----------------------------------------------------------------------------
(* The read loop on the stream (read_adb_message_with_packet_store).       *)

\* The commands each read state waits for (read_okay/wrte/clse_response).
Want ==
    [s \in {"stat_okay", "recv_okay", "send_okay", "send_chunk_okay",
            "list_okay", "quit_okay"} |-> {"OKAY"}]
    @@ [s \in {"stat_wrte", "recv_wrte", "list_wrte"} |-> {"WRTE"}]
    @@ ("quit_clse" :> {"CLSE"})

\* The state after a successful OKAY read.
AfterOkay ==
    ("stat_okay" :> "stat_wrte") @@ ("recv_okay" :> "recv_wrte")
    @@ ("send_okay" :> "send_data") @@ ("send_chunk_okay" :> "send_chunk")
    @@ ("list_okay" :> "list_wrte") @@ ("quit_okay" :> "quit_clse")

Rotate(q) == IF q = <<>> THEN q ELSE Append(Tail(q), Head(q))
StoreHit(w) == parked # <<>> /\ Head(parked).cmd \in w
CanReturn(w) == StoreHit(w) \/ (wire # <<>> /\ Head(wire).cmd \in w)
Got(w) == IF StoreHit(w) THEN Head(parked) ELSE Head(wire)
\* A returned CLSE clears the stream's queue (clear_packet).
AfterReturn(q, m) == IF m.cmd = "CLSE" THEN <<>> ELSE q

\* The read returns Got(w) this step: the head of the parked queue, or the
\* head of the wire after a rejected parked head was put back at the tail.
Take(w) ==
    IF StoreHit(w)
    THEN parked' = AfterReturn(Tail(parked), Head(parked)) /\ UNCHANGED wire
    ELSE /\ wire' = Tail(wire)
         /\ parked' = AfterReturn(Rotate(parked), Head(wire))

\* One iteration that returns nothing: a packet the reader does not want is
\* parked, or the wire is empty (header timeout, sleep, continue).
ReadPark ==
    /\ pc \in DOMAIN Want
    /\ ~StoreHit(Want[pc])
    /\ \/ wire # <<>> /\ Head(wire).cmd \notin Want[pc]
          /\ wire' = Tail(wire) /\ parked' = Append(Rotate(parked), Head(wire))
       \/ wire = <<>> /\ Len(parked) > 1 /\ parked' = Rotate(parked)
          /\ UNCHANGED wire
    /\ UNCHANGED <<script, hostVars, devVars, toDev, sockOpen>>

-----------------------------------------------------------------------------
(* The handler.                                                            *)

Emit(d) == sock' = Append(sock, [req |-> hostReq, data |-> d])

\* An Err out of _handle_sync_mode: handle_sync_command writes FAIL to the
\* client (send_fail_with_response) and the client's task ends.
Fail ==
    /\ pc' = "exit_err"
    /\ IF sockOpen THEN Emit(FailResponse) ELSE UNCHANGED sock

\* The read state each request enters once its WRTE is sent.
OkayState ==
    ("STAT" :> "stat_okay") @@ ("RECV" :> "recv_okay")
    @@ ("SEND" :> "send_okay") @@ ("LIST" :> "list_okay")

\* read_sync_command_from_socket: the tags it parses; any other is an Err.
ParsedTags == {"SEND", "DATA", "STAT", "DONE", "RECV", "LIST", "DENT", "QUIT"}

\* The arms of _handle_sync_mode that return an Err at once: DATA, DONE and
\* DENT without a SEND or LIST before them, and handle_list_command's check
\* of an empty path ("LIST0" is LIST with an empty path).
Unexpected(item) == item \in {"DATA", "DONE", "DENT", "LIST0"} \/ item \notin ParsedTags

\* read_sync_command_from_socket, then the match of _handle_sync_mode.
ReadCommand ==
    /\ pc = "cmd"
    /\ IF pos = Len(script)
       THEN Fail /\ UNCHANGED <<pos, hostReq, buf, doneWrites, toDev>>
       ELSE LET item == script[pos + 1] IN
            /\ pos' = pos + 1
            /\ \/ /\ item \in DOMAIN OkayState
                  /\ toDev' = Append(toDev, Wrte(Request(item)))
                  /\ hostReq' = hostReq + 1
                  /\ pc' = OkayState[item]
                  /\ buf' = <<>> /\ doneWrites' = 0
                  /\ UNCHANGED sock
               \/ /\ item = "QUIT"
                  /\ toDev' = Append(toDev, Wrte(QuitRequest))
                  /\ hostReq' = hostReq + 1
                  /\ pc' = "quit_okay"
                  /\ UNCHANGED <<buf, doneWrites, sock>>
               \/ /\ Unexpected(item)
                  /\ Fail
                  /\ UNCHANGED <<hostReq, buf, doneWrites, toDev>>
    /\ UNCHANGED <<script, idx, devVars, wire, parked, sockOpen>>

\* Any read_okay_response that succeeds.
GotOkay ==
    /\ pc \in DOMAIN AfterOkay
    /\ CanReturn({"OKAY"}) /\ Take({"OKAY"})
    /\ pc' = AfterOkay[pc]
    /\ UNCHANGED <<script, pos, hostReq, buf, idx, doneWrites, sock,
                   devVars, toDev, sockOpen>>

\* handle_sync_wrte_response: a reply that starts with the expected tag is
\* accepted; a FAIL reply and any other are errors.
SyncWrteAccepted(d, t) == IsPrefix(Tag(t), d)

\* handle_stat_command after its OKAY: check the reply, ack it, echo it.
StatWrte ==
    /\ pc = "stat_wrte"
    /\ CanReturn({"WRTE"}) /\ Take({"WRTE"})
    /\ LET d == Got({"WRTE"}).data IN
       IF SyncWrteAccepted(d, "STAT")
       THEN /\ toDev' = Append(toDev, Okay)
            /\ IF sockOpen THEN Emit(d) /\ pc' = "cmd" ELSE Fail
       ELSE Fail /\ UNCHANGED toDev
    /\ UNCHANGED <<script, pos, hostReq, buf, idx, doneWrites,
                   devVars, sockOpen>>

\* recv_file_data: forward each WRTE to the client, then ack it.
RecvWrte ==
    /\ pc = "recv_wrte"
    /\ CanReturn({"WRTE"}) /\ Take({"WRTE"})
    /\ IF sockOpen
       THEN /\ Emit(Got({"WRTE"}).data)
            /\ toDev' = Append(toDev, Okay)
            /\ UNCHANGED pc
       ELSE Fail /\ UNCHANGED toDev
    /\ UNCHANGED <<script, pos, hostReq, buf, idx, doneWrites,
                   devVars, sockOpen>>

\* Nothing wanted has come and the time budget is spent: recv_file_data
\* takes the 1 s timeout as the end of the file, read_clse_response as a
\* close; every other read fails.
ReadTimeout ==
    /\ pc \in DOMAIN Want
    /\ wire = <<>>
    /\ \A i \in DOMAIN parked : parked[i].cmd \notin Want[pc]
    /\ \/ pc = "recv_wrte" /\ pc' = "cmd" /\ UNCHANGED sock
       \/ pc = "quit_clse" /\ pc' = "exit_ok" /\ UNCHANGED sock
       \/ pc \notin {"recv_wrte", "quit_clse"} /\ Fail
    /\ UNCHANGED <<script, pos, hostReq, buf, idx, doneWrites, devVars, wire,
                   parked, toDev, sockOpen>>

\* handle_quit_command's CLSE (the read clears the stream's queue).
QuitClse ==
    /\ pc = "quit_clse"
    /\ CanReturn({"CLSE"}) /\ Take({"CLSE"})
    /\ pc' = "exit_ok"
    /\ UNCHANGED <<script, pos, hostReq, buf, idx, doneWrites, sock,
                   devVars, toDev, sockOpen>>

\* send_file_data, first loop: DATA and DONE from the client into buf.
SendData ==
    /\ pc = "send_data"
    /\ IF pos = Len(script)
       THEN Fail /\ UNCHANGED <<pos, buf>>
       ELSE LET item == script[pos + 1] IN
            /\ pos' = pos + 1
            /\ \/ item = "DATA" /\ buf' = buf \o DataRecord /\ UNCHANGED <<pc, sock>>
               \/ item = "DONE" /\ buf' = buf \o DoneTail /\ pc' = "send_chunk"
                  /\ UNCHANGED sock
               \/ item \notin {"DATA", "DONE"} /\ Fail /\ UNCHANGED buf
    /\ UNCHANGED <<script, hostReq, idx, doneWrites, devVars, wire,
                   parked, toDev, sockOpen>>

ChunkLen == IF Len(buf) < SyncMaxChunk THEN Len(buf) ELSE SyncMaxChunk

\* send_file_data, second loop (buffer.chunks): WRTE the next chunk and
\* wait for its OKAY; after the last, handle_send_command writes OKAY.
SendChunk ==
    /\ pc = "send_chunk"
    /\ IF buf # <<>>
       THEN /\ toDev' = Append(toDev, Wrte(SubSeq(buf, 1, ChunkLen)))
            /\ buf' = SubSeq(buf, ChunkLen + 1, Len(buf))
            /\ pc' = "send_chunk_okay"
            /\ UNCHANGED sock
       ELSE /\ UNCHANGED <<toDev, buf>>
            /\ IF sockOpen THEN Emit(Tag("OKAY")) /\ pc' = "cmd" ELSE Fail
    /\ UNCHANGED <<script, pos, hostReq, idx, doneWrites, devVars,
                   wire, parked, sockOpen>>

\* handle_list_command's outer loop: append the next WRTE to the buffer.
ListWrte ==
    /\ pc = "list_wrte"
    /\ CanReturn({"WRTE"}) /\ Take({"WRTE"})
    /\ buf' = buf \o Got({"WRTE"}).data
    /\ idx' = 0
    /\ pc' = "list_parse"
    /\ UNCHANGED <<script, pos, hostReq, doneWrites, sock, devVars,
                   toDev, sockOpen>>

\* A DENT size one short of handle_dent_command's (DENT_MIN_SIZE - 1).
DentSizeShort(b, i) ==
    IF Len(b) - i < DentMinSize THEN 0
    ELSE LET size == FromLeBytes(SubSeq(b, i + DentHeaderSize + 1, i + DentMinSize))
                     + DentMinSize - 1
         IN IF Len(b) - i < size THEN 0 ELSE size

\* handle_dent_command: the size of the DENT at i, or 0 if it is incomplete.
DentSize(b, i) ==
    IF Len(b) - i < DentMinSize THEN 0
    ELSE LET size == FromLeBytes(SubSeq(b, i + DentHeaderSize + 1, i + DentMinSize))
                     + DentMinSize
         IN IF Len(b) - i < size THEN 0 ELSE size

\* A drain that keeps the parse index.
ListDrainNoReset ==
    /\ buf' = SubSeq(buf, idx + 1, Len(buf)) /\ UNCHANGED idx
    /\ toDev' = Append(toDev, Okay)

\* After the inner loop: buffer.drain(..index), then OKAY for the WRTE.
ListDrain ==
    /\ buf' = SubSeq(buf, idx + 1, Len(buf)) /\ idx' = 0
    /\ toDev' = Append(toDev, Okay)

\* One iteration of handle_list_command's inner loop over buf from idx.
ListParse ==
    /\ pc = "list_parse"
    /\ LET short == Len(buf) - idx < CmdSize
           cmd == IF short THEN <<>> ELSE SubSeq(buf, idx + 1, idx + CmdSize)
           endOfChunk == short \/ (cmd = Tag("DENT") /\ DentSize(buf, idx) = 0)
       IN
       \/ \* the loop ends: drain what was parsed, ack the WRTE
          /\ endOfChunk
          /\ ListDrain
          /\ pc' = "list_wrte"
          /\ UNCHANGED <<sock, doneWrites>>
       \/ /\ ~endOfChunk /\ cmd = Tag("DENT")
          /\ IF sockOpen
             THEN /\ Emit(SubSeq(buf, idx + 1, idx + DentSize(buf, idx)))
                  /\ idx' = idx + DentSize(buf, idx)
                  /\ UNCHANGED pc
             ELSE Fail /\ UNCHANGED idx
          /\ UNCHANGED <<buf, toDev, doneWrites>>
       \/ \* DONE: write it, ack, and go round again at the same index
          /\ ~endOfChunk /\ cmd = Tag("DONE")
          /\ IF sockOpen
             THEN /\ doneWrites < MaxDoneWrites
                  /\ Emit(Tag("DONE")) /\ doneWrites' = doneWrites + 1
                  /\ toDev' = Append(toDev, Okay)
                  /\ UNCHANGED pc
             ELSE Fail /\ UNCHANGED <<toDev, doneWrites>>
          /\ UNCHANGED <<buf, idx>>
       \/ \* FAIL: forward the message, then return the error
          /\ ~endOfChunk /\ cmd = Tag("FAIL")
          /\ pc' = "exit_err"
          /\ sock' = IF sockOpen
                     THEN sock \o <<[req |-> hostReq,
                                     data |-> SubSeq(buf, idx + CmdSize + 1, Len(buf))],
                                    [req |-> hostReq, data |-> FailResponse]>>
                     ELSE sock
          /\ UNCHANGED <<buf, idx, toDev, doneWrites>>
       \/ /\ ~endOfChunk /\ cmd \notin {Tag("DENT"), Tag("DONE"), Tag("FAIL")}
          /\ Fail
          /\ UNCHANGED <<buf, idx, toDev, doneWrites>>
    /\ UNCHANGED <<script, pos, hostReq, devVars, wire, parked, sockOpen>>

\* The client closes its socket; later writes to it fail.
ClientClose ==
    /\ sockOpen /\ sockOpen' = FALSE
    /\ UNCHANGED <<script, hostVars, devVars, wire, parked, toDev>>

\* The handler has returned; the system stays as it is.
Finished == pc \in {"exit_ok", "exit_err"} /\ UNCHANGED vars

-----------------------------------------------------------------------------

Init ==
    /\ script \in Scripts
    /\ pc = "cmd" /\ pos = 0 /\ hostReq = 0
    /\ wire = <<>> /\ parked = <<>> /\ toDev = <<>>
    /\ buf = <<>> /\ idx = 0 /\ doneWrites = 0
    /\ sock = <<>> /\ sockOpen = TRUE
    /\ devOut = <<>> /\ devCredit = TRUE /\ devMode = "idle" /\ devReq = 0
    /\ devRecv = <<>> /\ devLists = <<>> /\ devStatus = <<>>

Next ==
    \/ ReadCommand \/ GotOkay \/ StatWrte \/ RecvWrte \/ SendData \/ SendChunk
    \/ ListWrte \/ ListParse \/ QuitClse \/ ReadPark \/ ReadTimeout
    \/ DeviceReceive \/ DeviceWrite \/ ClientClose \/ Finished

Spec == Init /\ [][Next]_vars

-----------------------------------------------------------------------------
(* Properties.                                                             *)

States == {"cmd", "send_data", "send_chunk", "list_parse", "exit_ok", "exit_err"}
          \cup DOMAIN Want

TypeOK ==
    /\ pc \in States
    /\ pos \in 0..Len(script) /\ idx \in 0..Len(buf)
    /\ doneWrites \in 0..MaxDoneWrites
    /\ devMode \in {"idle", "send", "closed"} /\ devCredit \in BOOLEAN
    /\ \A i \in DOMAIN sock : sock[i].req \in 0..hostReq

Items(r, P(_)) == SelectSeq(sock, LAMBDA it : it.req = r /\ P(it.data))
DataOf(items) == [i \in DOMAIN items |-> items[i].data]
DentsSent(r) == DataOf(Items(r, LAMBDA d : IsPrefix(Tag("DENT"), d)))
Entries(ks) == [i \in DOMAIN ks |-> DentRecord(ks[i])]

\* handle_list_command frames the device's WRTE chunks, split anywhere,
\* into DENT records: what reaches the client for a LIST is a prefix of the
\* device's listing for that request, record by record, never a partial or
\* repeated record, whatever the chunking and the drain of the buffer.
ListForwardsWholeEntries ==
    \A r \in 1..hostReq :
        DentsSent(r) # <<>> =>
            /\ r \in DOMAIN devLists
            /\ IsPrefix(DentsSent(r), Entries(devLists[r]))

====
