# TLA+ models of ADBRServer

ADBRServer is an ADB server written in Rust. Clients talk to it over TCP (`host:*` commands). It
multiplexes every client's streams over one USB connection per device, and it discovers and monitors
devices in background tasks. These modules model the concurrent parts of that design: the shared
packet store and read loop, the local-id allocator, the connect handshake, the sync service, and the
device registry shared by the scanner, the monitor and client requests. TLC checks them.

## 1. Inventory

| Component | Source | State | Operations |
|---|---|---|---|
| Packet store | `adb/packet_store/adb_packet_store.rs` | DashMap `(arg0,arg1) -> VecDeque<(cmd,data)>` | `put_packet`, `find_packet` (zero args are wildcards), `get_packet` (pop front), `clear_packet` |
| Daemon read loop | `adb/io/daemon.rs` | the USB wire behind a mutex, the store, the caller's `AdbTransactionInfo` | `read_adb_message_with_packet_store`: timeout check, store lookup (push back on reject), wire read, park a foreign packet, clear the key on CLSE |
| Local id | `adb/connections/adb_device_connection.rs` | `last_local_id: Mutex<u32>` | `get_last_packet_id` (increment, return, reset to 1 at MAX) |
| Protocol / message stream | `connections/protocol/*.rs` | none of its own | `send_open/okay/wrte/clse`, `read_until` (sends OKAY to each WRTE), `read_all_response` (drain to CLSE) |
| Handlers | `connections/handlers/*.rs` | transaction ids per call | shell (drain), root/unroot/remount (one WRTE then CLSE), reboot (OPEN only), port forward (OPEN, OKAY/CLSE, relay), port reverse (setup, host-connect retry, OPEN wait loop, relay) |
| Authenticator | `connections/auth/authenticator.rs` | none | CNXN, then the read loop for AUTH or OPEN, then AUTH signature, then AUTH public key; the last two replies are read with a 50 ms header timeout |
| Sync | `connections/sync/sync.rs`, `server/sync.rs` | a parse buffer | STAT/LIST/RECV/SEND/QUIT over one stream, LIST's DENT parse loop, SEND's chunking |
| Registry and monitor | `adb/server/server.rs`, `adb/models/adb_device.rs` | DashMap `serial -> Option<Arc<AdbDevice>>`; per device: status, forward map, reverse map | `on_find_device` (insert None, connect, upgrade), `monitor_connected_devices` (collect in `iter_mut`, then remove), `is_new_device`, `close_device_gracefully` |
| Scanner | `scanners/usb_devices_scanner.rs` | none | one task per USB device, `is_new_device`, then `on_find_device` |
| Dispatcher | `adb/server/transport.rs`, `server.rs` | the chosen `Arc<AdbDevice>` per client socket | `host:transport*` chooses a device; later commands use that Arc |
| Forward/reverse commands | `adb/server/port_forward.rs`, `port_reverse.rs` | the device's port maps | set (check, stop the old task, spawn, wait for the oneshot result, insert), remove and remove_all (look up, stop, then remove by key), list |
| Device hooks | `adb/server/actions/*` | config file | connect and disconnect scripts, run as detached tasks |

How they interact. Every handler call on one device shares one `AdbDeviceIo`. A task reads the wire
under the lock and parks any packet that is not its own. The owner of a parked packet must find it
through `find_packet`'s wildcard rules. The registry is written by the scanner task, the monitor task
and client tasks. A client keeps the `Arc<AdbDevice>` it chose, so a device the monitor has removed
can still be used.

The hard behaviours:
- interleavings of readers on the shared wire and store;
- the window between the monitor's decision and its removal;
- check-then-act in port set;
- detached tasks: forward/reverse tasks whose JoinHandle is replaced or forgotten, and the hook tasks;
- timeouts that do not cancel;
- the id wrap.

The properties per component:
- packet store and read loop: each task receives a prefix of what the device wrote on its own stream,
  a close delivers everything, and a stream closed normally leaves nothing parked in the store;
- local id: the counter stays in range, and the id after MAX is 2 (the spec says 1);
- OPEN replies: the remote id a task adopts is the one the device gave that task's stream;
- registry: a dead device is eventually removed, and connect and disconnect hooks pair up;
- port commands: every live port task is listed in its port's map (a race breaks this, see
  `registry_remove_race`);
- a reverse's relay is handed only streams the device opened for that reverse;
- reverse relay: while the relay serves a stream, every chunk the app has written on it reaches the
  host socket, including chunks parked by the main task or after a read timeout;
- no port task outlives its device.

## 2. Modules

| Module | Models | State variables and their code |
|---|---|---|
| `LocalIdAllocator` | `get_last_packet_id` | `lastLocalId` = `last_local_id`, `lastIssued` = the value returned |
| `AdbMux` | store, read loop, protocol sends, shell / root / reboot / port-forward handlers (the forward's listener loop included), and the device as an environment | `store` (packet store), `wire` (device to host), `toDevice`, per task `kind`, `pc`, `phase` (store or wire step of the read loop), `tinfo`, `resp`, `delivered`, `outcome`, and `served` (clients a forward listener has accepted). The device side has `devStreams`, `devNext`. It INSTANCEs `LocalIdAllocator`. |
| `DeviceRegistry` | registry, scanner, monitor, dispatcher, port set / remove / remove-all, reverse task lifetime, hooks | `reg` (the DashMap, with 0 = None), `dev` (sessions: status, link, closed, port maps), `finding` (on_find_device in flight), `mChecked`/`mRemove` (the monitor pass), `running` (port tasks), client `cpc`/`chosen`/`creq`, and the hook counters |
| `SyncSession` | one client in sync mode: STAT, LIST, RECV, SEND, QUIT, with adbd's sync service as the environment | `script`/`pos` (the client's requests), `pc` (where `_handle_sync_mode` is), `buf`/`idx` (the LIST and SEND buffers), `doneWrites`, `sock` (what the client receives), `wire`/`parked`/`toDev` (the stream's packets), the device's reply state |
| `AdbFraming` | `write_bytes`, `read_adb_message_last_message`, `read_message_header`/`read_message_data`, the timeout arm of the read loop, `UsbTransport::_bulk_read`, `AdbMessage` new/pack/checksum/unpack | `pipe` (USB transfers adbd wrote and the host has not read), `devPos`/`devPhase` (adbd writing a header or a payload), `hpc` (header read, payload read, or an error returned), `buf` (the bytes `_bulk_read` has collected), `hdr` (the unpacked header), `returned`, `lastErr`, `opTimeout` (the caller's `operation_timeout_s`) |
| `PacketChannel` | the abstract promise of the device connection: whole packets, in order, each eventually read | `reliable`, `written`, `returned`. AdbFraming refines it through `INSTANCE PacketChannel WITH reliable <- opTimeout = "none", written <- devPos - 1`. |
| `ReverseSession` | `handle_reverse_message` for one device: the main task's OPEN loop (`initialize_reverse_connection`, the mpsc send) and the relay task (`handle_bidirectional_stream_relay`), both over the store and wire branches of the read loop, with adbd and its apps as the environment | Main task: `phase` (store lookup, wire read, or exited), `handed` (the transaction infos sent on the channel). Relay: `taken` (how many it has received), `rpc` (waiting for the first info, top of a round, awaiting OKAY or WRTE, returned), `rphase`/`rres` (its read loop), `hostRead` (host chunks read), `hostOut` (what it wrote to the host socket). Shared: `wire`, `store`, `toDevice`, `lastLocalId`. Device: `devNext`, `devStreams` (owner, local id, chunks written, acked, open, received). It INSTANCEs `LocalIdAllocator`. |
| `Authenticator` | `adb_connect` and `adb_authenticate`, with adbd's authentication as the environment | `hpc` (where connect is), `toDev`, `wire` (each device packet with a latency class), `parked` (the packet store), `dev` (secure, key known, user accepts), `devOnline`, `devToken` (adbd's last token) |

Actions follow the code one handler step at a time. In AdbMux each iteration of the read loop is split
at the await between the store lookup (`ReadStoreStep`) and the wire read (`ReadWireStep`), because
other tasks run there. Handler continuations (`OpenReply`, `DrainStep`, `RootWrte`, `AckWrte`) fire
when the read returns. In DeviceRegistry, `MonitorCheck` is one entry of the `iter_mut` pass and
`MonitorFinish` is the removal loop. `ClientPortCheck`, `ClientPortSpawn` and `ClientPortInsert` are
the three awaits of the set handler. `ClientPortRemove` (lookup and stop) and
`ClientPortRemoveEntries` (the removal by key) are the two halves of a remove, split at the stop's
await. A stop polls `is_finished` three times, 200 ms apart. `abort` takes effect only at the task's
next await, and a port task inside a blocking `read_bulk` (up to 1.5 s) reaches none in time. So a
stop may time out (`StopTimedOut`): the task is marked `aborted`, it stays alive, and it ends later in
`PortTaskAborted`. The rebind answers FAIL. A remove or remove_all answers FAIL at the first stop
that times out (`RemoveFailed`), and keeps every key.

In SyncSession, bytes are units: a tag is `CmdSize` units and a u32 is `U32Width` units, encoded
little-endian by `LeBytes`. WRTE chunk boundaries can fall anywhere. `ListParse` is one pass of the
inner DENT loop of `handle_list_command`, and `SendChunk` is one chunk of `send_file_data`.

In AdbFraming, a u32 header field and a payload byte are each one unit, so a header is 6 units and
a 6-unit payload stands for one that fills a header. libusb is the environment. A read of `room`
units takes a whole transfer that fits (a short read, after which `_bulk_read` loops). It splits a
longer transfer only when `room` is a whole `DEFAULT_BUFFER_SIZE` chunk. Otherwise the read
overflows (`LIBUSB_ERROR_OVERFLOW`, mapped to ConnectionClosed). A read that finds no transfer may
time out. With no operation timeout, the payload read's timeout is `READING_MIN_TIMEOUT` = 0, which
libusb reads as "wait forever". So `DataTimeout` is enabled only when `opTimeout = "some"`.

In Authenticator, time is a latency class per device packet: "fast" is within the 50 ms header
timeout of `read_adb_message_last_message`, "slow" is within 5 s, and "user" is a person at the key
prompt. Only a "fast" packet at the head of the wire can be read (`Arrived`). The read loop with no
operation timeout has three steps:
- `ReadStoreStep` is the store lookup: `get_packet(1, 0)`, whose `(0, _)` arm finds any key with
  arg0 = 1. An AUTH or OPEN is returned. Anything else is put back at the tail of its queue, and the
  iteration goes on to the wire read (daemon.rs:124, then 135).
- `ReadWireStep` reads the head of the wire. It returns an AUTH or OPEN for this transaction and
  parks anything else.
- `ReadRetry` is the 50 ms timeout and the 500 ms sleep. Time passes, so the next packet on the wire
  comes one latency class closer (`Elapse`).

`ReadSigReply` and `ReadPubReply` are the two reads of `adb_authenticate`. adbd issues a fresh token
for every CNXN and every failed signature. It answers a public key only after the user accepts, so
that answer is never "fast". The initial wire may hold the WRTE and CLSE of an earlier server's stream
under keys the `(1, _)` lookup finds, or that server's unanswered token.

## 3. Runs

| Run | Config | Result | What it shows |
|---|---|---|---|
| `mux_shells` | `MC_AdbMux_Mux.cfg` | pass | A shell task shares one device with a root command, a reboot (`AdbReboot`: OPEN, then Ok without reading the reply) or a port-forward listener, whose client may close before sending. No task gets another stream's packet. Every task receives a prefix of its stream. Each task adopts its own remote id. |
| `mux_close_race` | `MC_AdbMux_CloseRace.cfg` | violation | The shell is between its store lookup and its wire read. The root task parks the shell's last WRTE. The shell then takes the CLSE, and `clear_packet` deletes the parked WRTE (daemon.rs:165). |
| `registry` | `MC_DeviceRegistry.cfg` | pass | One serial with plug, unplug and replug, and two clients setting, rebinding and removing ports, with stops that may time out. Hooks pair up. A session whose USB link died is eventually dropped from the map. |
| `registry_forward_stale` | `MC_DeviceRegistry_ForwardStale.cfg` | violation | A forward is inserted into a device that was removed after the client chose it. |
| `registry_remove_race` | `MC_DeviceRegistry_RemoveRace.cfg` | violation | A killforward stops the old task, then removes the key. A concurrent set has inserted its new task in between, and that task keeps running but is unlisted (port_forward.rs:106). |
| `sync_session` | `MC_SyncSession_Session.cfg` | pass | Under every chunking, timeout and client close, LIST forwards whole DENT records of the client's own listing, in order. |
| `auth_connect` | `MC_Authenticator.cfg` | pass | Covers every adbd configuration, answers within or after the 50 ms window, stale stream packets under keys the `(1, _)` lookup finds, and a stale token. Connect reaches `connected` (a CNXN answer to its signature, or an OPEN) only once adbd has accepted the host. It always returns on a secure device: a rejected store hit still lets the wire be read. The public-key branch may return Ok on a stale packet before the user answers, which spec 4.6 (2c) allows. |
| `reverse_open_misroute` | `MC_ReverseSession_Misroute.cfg` | violation | Two reverses are set on one device. The device opens a stream for h2, and h1's OPEN wait reads it off the wire and accepts it, so the stream is relayed to h1's host endpoint (daemon.rs:162). |
| `reverse_session` | `MC_ReverseSession.cfg` | pass | One reverse and two app connections. The relay switches transactions with `try_recv`, and a host chunk's WRTE may be sent or fail. A device WRTE may be parked by the main task, or arrive after a read timed out and park. The host reconnection may fail. While the relay serves a stream, every chunk that stream's app has written eventually reaches the host socket (`CurrentStreamRelayed`). |
| `framing` | `MC_AdbFraming.cfg` | pass | Both timeout modes are explored. With no operation timeout, the framing refines `PacketChannel`: the host returns exactly adbd's packets in order, with no error, and eventually all of them. This includes a payload longer than a read chunk and a checksum that wraps. `TypeOK` also checks that `_bulk_read`'s buffer is always a partial read. So the whole-packet wire of AdbMux, Authenticator and SyncSession is sound there. |
| `framing_data_timeout` | `MC_AdbFraming_DataTimeout.cfg` | violation | The payload read times out after the header was consumed. The payload, written late, is then read as a header (daemon.rs:130). `unpack_message` never checks the magic, so it becomes a forged packet, and the next read overflows. |
| `mux_root_leak` | `MC_AdbMux_RootLeak.cfg` | violation | A root command runs next to a shell. The root handler reads its one WRTE, sends CLSE and returns. adbd closes the stream before it reads that CLSE, so its own CLSE crosses it. The shell's wire read parks adbd's CLSE under the root stream's key, where nothing ever takes or clears it (scripting_handler.rs:29). |

### Bounds

AdbMux:
- Two tasks per run, because three did not finish.
- `Chunks = 2` WRTEs per stream, so each stream has an earlier and a later packet and reordering is
  visible.
- `IdMax = 2`, so the id wraps inside every run.
- The shell, whose drain reads many packets, runs next to a root command, a reboot or a forward listener. The
  `kind` variable chooses which.
- `Conns = 1`: the forward listener accepts one client. With two clients next to a shell (or next to
  a root command) the run passed 60 million states in 30 minutes without finishing. So a second
  connection meeting the first stream is not checked. The host never closes that stream.

DeviceRegistry:
- The pass run has one serial and two clients. Two serials with two clients took 4 min 55 s. A
  client connection carries one request after its transport, so two clients give a set followed by
  a rebind, killforward or killforward-all of it.
- `MaxSessions = 2`, enough for a plug, unplug and replug of the serial.
- `MaxTasks = 2`, enough to replace a port task.
- The remove race needs three clients: set, set again and remove.
- With two clients and reverses, TLC finds one more race for `MapNamesLiveTasks`. Both clients
  set a reverse on the same port. Both find no entry (port_reverse.rs:46), and the second insert
  (port_reverse.rs:74) replaces the first. The first reverse task keeps running, unlisted. A
  forward cannot race this way, because its second bind fails while the first task holds the port.

SyncSession:
- Tags are 2 units, u32 fields are 1 unit and DENT headers are 3 units, so every size check keeps its
  order.
- Chunks are of 2 or 3 units, so records split across WRTEs.
- Listings have zero, one or two entries.
- Scripts cover every request kind and every error arm.

AdbFraming:
- Four packets: no payload, a header-sized payload longer than the 4-unit read chunk, a one-unit
  payload, and a payload whose checksum wraps at `Width = 3` bits.
- The misframed payload is read as a header that asks for more data, so both the forged-packet path
  and the overflow path are reached.

ReverseSession:
- The misroute run has two reverses and two device OPENs, enough for one reverse to take the other's
  OPEN from either the wire or the store.
- The pass run has one reverse (`MaxOpens = 2`, `Chunks = 1`, `HostChunks = 1`, `IdMax = 3`). Two
  opens make the relay switch from the first stream to the second. With one host chunk, both the
  WRTE/OKAY arm and the failed send are reached. `Chunks = 2` took 4 min 55 s. `HostChunks = 2`
  took over 6 minutes.
- The counter starts at 1 or 2, because the reverse's own setup OPEN took an id. So a stream's host
  id differs from adbd's, and the relay's `(receive, sent)` key is not symmetric. The second OPEN
  then wraps the counter.
- `ChannelBufferSize = 10` exceeds `MaxOpens`, so the main task's channel send never blocks in the
  model, as in the code for fewer than ten pending opens.

Authenticator:
- The device configurations are all eight combinations of secure, key known and user accepts.
- The wire starts empty, or with one of three stale contents. The first is a WRTE and a CLSE of one
  stream under key (1, 2). The second is WRTEs of two streams, under (1, 2) and (1, 3). The third is
  an earlier server's AUTH token.

### Fairness

- `DeviceRegistry` assumes weak fairness of the monitor's steps. The monitor is a dedicated task
  (`monitor_connected_devices`) that loops forever with a 500 ms sleep and never waits on clients.
- `Authenticator` assumes weak fairness of the connecting task (`Host`) and of adbd
  (`DeviceReceive`): both run until they block on a read, and adbd answers each packet it receives.
  A retry ages the head packet by one latency class, so a packet that adbd sent "slow" is read after
  one retry. The fairness of `Host` does not make a late answer in `adb_authenticate` arrive in time.
- `PacketChannel` assumes weak fairness of writes and reads. Its reads are enabled only while the
  channel is reliable, so an unreliable channel promises no delivery.
- `AdbFraming` assumes weak fairness of adbd's writes and of the host's reads. Without an operation
  timeout, the read loop never gives up. The header timeout (a stutter while the pipe is empty) is
  not part of the fair host action.
- `ReverseSession` assumes weak fairness of each main task (a tokio task whose OPEN wait has no
  operation timeout and loops until it reads an OPEN), of each relay task, and of adbd's receive. It
  also assumes strong fairness of the relay's `RelayTimeout`. The 1.5 s deadline passes in real time.
  The loop tests it at the top of every iteration, which it reaches again and again, but it is not
  tested in between. The timeout is enabled only while the awaited answer has not arrived
  (`AnswerArrived`): an answer already on the wire or in the store is read well within 1.5 s. Without
  that strong fairness, a relay waiting for the OKAY of a stream that adbd has closed could alternate
  store and wire steps forever.
- `AdbMux` and `SyncSession` check safety only.

## 4. Mutants

Every property of a passing run has a mutant of the code it depends on, and TLC finds each one
violated:
- `StorePop` becomes a peek that does not remove.
- `ArgsMatch` accepts any sender.
- `NextStored` wraps one past MAX.
- `ConnectHook` fires for every status.
- `ScheduleRemoval` keeps the entry.
- `MonitorFinish` does not reset its lists.
- `DentSize` is one short.
- `ListDrain` does not reset the index.
- `OnAuthOrOpen` signs with the token's type.
- `ReadSigReply` takes any answer to the signature as CNXN.
- `ReadStoreStep` goes back to the store after a rejected hit instead of reading the wire.
- `RelayWrte` writes the response to the host whatever it is (a timeout included).
- `RelayKey` swaps the transaction's ids, so the relay looks for its stream's parked WRTEs under
  the wrong key.
- `_bulk_read`'s loop test `Short` becomes `<=`, and `Splits` never splits a long transfer.

## 5. Not modelled, and the plan

- The USB framing is modelled in AdbFraming. AdbMux, Authenticator and SyncSession still see the
  wire as whole packets, which is exact only with no operation timeout. Device acquisition, release
  and the client socket encoding (socket.rs, utils.rs) are I/O and formatting, and are not modelled.
- Five earlier violation runs were retired to keep to twelve runs. Their traces are still described
  here:
  - `close_device_gracefully` stops forwards only, so a reverse task outlives its removed device
    (adb_device.rs:79);
  - `on_find_device` leaves `None` after a failed connect, and no scan retries it (server.rs:475);
  - `handle_send_command` answers OKAY without reading the device's status WRTE (sync.rs:113),
    which is left for the next request's reads;
  - on a DONE record, the LIST loop neither advances nor returns, so it writes DONE and OKAY to
    the client again and again (sync.rs:181);
  - a device with auth disabled answers CNXN with CNXN; the read wants AUTH or OPEN, parks the
    CNXN and, with `connect(None)`, retries forever (authenticator.rs:29), which spec scenario S1
    meets on every such device.
- A 50 ms header read after the signature: a valid but slow CNXN makes connect fail with
  Unauthorized. The model shows this (latency "slow"), but no run checks it.
- Port forward listener (port_forward_handler.rs):
  - The listener serves clients inline and reads each request with no timeout (line 106). One
    silent client therefore blocks the forward for every later client.
  - The host never sends CLSE on a forward stream (line 144). After the 0.4 s drain timeout, adbd's
    later WRTE and CLSE stay parked. This is the leak `mux_root_leak` shows for root. `_adb_reboot` leaves adbd's
    OKAY parked the same way, since it never reads the reply to its OPEN.
  - Neither has a run of its own. Listener creation (bind by forward type) is I/O.
- In the dispatcher (server.rs:414), the FAIL for an unknown command is built but never awaited
  (`let _ = send_fail_with_response(...)` without `.await`). The client gets no reply, only the
  socket shutdown. A single unknown request shows this, so no run is spent on it.
- In the reverse relay, a failed write to the host socket is only logged and is not modelled.
- After a `try_recv` switch, the old stream's parked WRTEs are never relayed. `CurrentStreamRelayed`
  excuses a stream once the relay no longer serves it, and no run states the old stream's loss.
- When the relay has returned, the main task still OKAYs the next OPEN before its channel send fails
  (port_reverse_handler.rs:151). ReverseSession models this, but no property states the harm: the
  app's stream is accepted and then served by no one.
- Whether a failed killforward-all leaves the map consistent is not checked. The pass run has one
  port per kind and two clients, so remove_all never meets two entries. The keys a failed remove
  keeps name stopped tasks, and no property states that the map lists a dead task.
- An abstract per-stream FIFO spec, with AdbMux shown to refine it through `INSTANCE ... WITH`.
- The local id after u32::MAX is 2 where the spec says 1 (`NextStored`). No run checks this.
- The monitoring interval, action scripts and the TCP scanner (`todo!()`) are not modelled.
