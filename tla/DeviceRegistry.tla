--------------------------- MODULE DeviceRegistry ---------------------------
(***************************************************************************)
(* The device registry of AdbServer: adb_devices_hashmap, a DashMap from   *)
(* serial to Option<Arc<AdbDevice>>, and the threads that share it.        *)
(*                                                                         *)
(*   scanner  _handle_device / on_find_device: a plugged serial that is    *)
(*            not in the map is inserted as None, then connected; the      *)
(*            result replaces None by Some(device) (or leaves None);       *)
(*   monitor  monitor_connected_devices: one pass over the entries whose   *)
(*            interval has passed collects serials to remove, closing an   *)
(*            Available device whose USB link fails; the serials are       *)
(*            removed after the pass;                                      *)
(*   clients  execute_client_task: host:transport:<serial> or              *)
(*            host:transport-any keeps an Arc of the chosen device; the    *)
(*            next request (forward: or reverse:forward:) starts a port    *)
(*            task on that device and records it in the device's map.      *)
(*                                                                         *)
(* Each AdbDevice value is a session, numbered in creation order; a client *)
(* holds a session, not a serial.  Whether a monitoring interval has       *)
(* passed is not clocked: a pass may check any subset of the entries.      *)
(***************************************************************************)
EXTENDS Naturals, FiniteSets, TLC

CONSTANTS
    Serials,      \* serial numbers of the USB devices that may be plugged
    Clients,      \* ADB client connections
    Ports,        \* local/device port specs a client may ask for
    Ops,          \* the port commands clients send: SUBSET {"forward", "reverse", "remove"}
    MaxSessions,  \* bound on the AdbDevice values created
    MaxTasks      \* bound on the port tasks spawned

ASSUME Ops \subseteq {"forward", "reverse", "remove"} /\ MaxSessions \in Nat
ASSUME MaxTasks \in Nat

VARIABLES
    plugged,      \* environment: the serials on the USB bus
    reg,          \* adb_devices_hashmap: serial -> 0 (None) or a session
    finding,      \* serials whose on_find_device is connecting
    dev,          \* session -> [serial, status, link, closed, fwd, rev]
    nextSession,  \* the next session number
    mChecked,     \* monitor: serials visited in the current pass
    mRemove,      \* monitor: serials_to_remove collected so far
    running,      \* port tasks alive: [id, sess, kind, port, connected, aborted]
    nextTask,     \* the next task id
    conHooks,     \* connect hooks dispatched, per serial
    discHooks,    \* disconnect hooks dispatched, per serial
    cpc,          \* client: "idle", "chosen" or "done"
    chosen,       \* client: the chosen session, 0 for none
    creq          \* client: [kind, port, task] of its port request

vars == <<plugged, reg, finding, dev, nextSession, mChecked, mRemove,
          running, nextTask, conHooks, discHooks, cpc, chosen, creq>>

Sessions == 1..MaxSessions
Statuses == {"Available", "Unauthorized", "Offline"}
Tasks == 1..MaxTasks
\* The two maps of AdbDevice: spec -> the task of that port.
PortMaps == UNION {[P -> Tasks] : P \in SUBSET Ports}
Unused == [serial |-> CHOOSE s \in Serials : TRUE, status |-> "Unused",
           link |-> FALSE, closed |-> FALSE, fwd |-> <<>>, rev |-> <<>>]
NoReq == [kind |-> "none", port |-> CHOOSE p \in Ports : TRUE, task |-> 0, drop |-> {}]

Registered(s) == s \in DOMAIN reg /\ reg[s] # 0

\* is_new_device: the serial has no entry, not even None.
IsNewDevice(s) == s \notin DOMAIN reg

\* DashMap insert of serial -> value (a new key or a replaced value).
Insert(m, s, v) == [x \in DOMAIN m \cup {s} |-> IF x = s THEN v ELSE m[x]]

-----------------------------------------------------------------------------
(* Environment                                                             *)

Plug(s) ==
    /\ ~plugged[s]
    /\ plugged' = [plugged EXCEPT ![s] = TRUE]
    /\ UNCHANGED <<reg, finding, dev, nextSession, mChecked, mRemove,
                   running, nextTask, conHooks, discHooks, cpc, chosen, creq>>

\* Unplugging kills the USB handle of every session of the serial; a
\* replugged device gets a new handle, the old one stays dead.
Unplug(s) ==
    /\ plugged[s]
    /\ plugged' = [plugged EXCEPT ![s] = FALSE]
    /\ dev' = [d \in Sessions |->
                 IF dev[d].serial = s THEN [dev[d] EXCEPT !.link = FALSE]
                                      ELSE dev[d]]
    /\ UNCHANGED <<reg, finding, nextSession, mChecked, mRemove, running,
                   nextTask, conHooks, discHooks, cpc, chosen, creq>>

-----------------------------------------------------------------------------
(* Scanner thread                                                          *)

\* _handle_device for a matching interface whose serial is_new_device,
\* then the first lines of on_find_device: insert None; a failing
\* AdbDeviceConnection::new (no key path) returns and leaves None.
OnFindDevice(s) ==
    /\ plugged[s] /\ IsNewDevice(s) /\ nextSession <= MaxSessions
    /\ reg' = Insert(reg, s, 0)
    /\ \/ finding' = finding \cup {s}
       \/ UNCHANGED finding
    /\ UNCHANGED <<plugged, dev, nextSession, mChecked, mRemove, running,
                   nextTask, conHooks, discHooks, cpc, chosen, creq>>

\* Variant: the connect hook spawned after the match, for any status.
ConnectHookAnyStatus(st, s) == [conHooks EXCEPT ![s] = @ + 1]

\* The connect hook task spawned in the Ok arm only.
ConnectHook(st, s) ==
    IF st = "Available" THEN [conHooks EXCEPT ![s] = @ + 1] ELSE conHooks

\* on_find_device after connect(None): Ok, Unauthorized and
\* DeviceNotAvailable replace None by a new AdbDevice (Ok also spawns the
\* connect hook); any other error closes the connection and leaves None.
ConnectDevice(s) ==
    /\ s \in finding /\ nextSession <= MaxSessions
    /\ finding' = finding \ {s}
    /\ LET d == nextSession
           New(st) == [serial |-> s, status |-> st, link |-> plugged[s],
                       closed |-> FALSE, fwd |-> <<>>, rev |-> <<>>]
       IN  \/ \E st \in Statuses :
                /\ st = "Available" => plugged[s]
                /\ dev' = [dev EXCEPT ![d] = New(st)]
                /\ reg' = Insert(reg, s, d)
                /\ nextSession' = d + 1
                /\ conHooks' = ConnectHook(st, s)
           \/ UNCHANGED <<dev, reg, nextSession, conHooks>>
    /\ UNCHANGED <<plugged, mChecked, mRemove, running, nextTask, discHooks,
                   cpc, chosen, creq>>

-----------------------------------------------------------------------------
(* Monitor thread                                                          *)

\* close_device_gracefully: stop() aborts every port forward of the
\* device; port reverses are not touched.
CloseDeviceGracefully(d) ==
    {x \in running : ~(x.sess = d /\ x.kind = "fwd" /\ x.port \in DOMAIN dev[d].fwd
                       /\ dev[d].fwd[x.port] = x.id)}

\* Variant: the filter_map closure returns None for the entry.
KeepEntry(s) == UNCHANGED mRemove

\* The filter_map closure returns Some(serial): collected for removal.
ScheduleRemoval(s) == mRemove' = mRemove \cup {s}

\* One entry of the pass over iter_mut(): a None entry is skipped; an
\* Available device is verified, and on failure its forwards are stopped,
\* its connection closed, the disconnect hook spawned and the serial
\* scheduled for removal; Unauthorized and Offline are scheduled as is.
MonitorCheck(s) ==
    /\ Registered(s) /\ s \notin mChecked
    /\ mChecked' = mChecked \cup {s}
    /\ LET d == reg[s] IN
       \/ /\ dev[d].status = "Available" /\ dev[d].link
          /\ UNCHANGED <<dev, running, discHooks, mRemove>>
       \/ /\ dev[d].status = "Available" /\ ~dev[d].link
          /\ running' = CloseDeviceGracefully(d)
          /\ dev' = [dev EXCEPT ![d].closed = TRUE]
          /\ discHooks' = [discHooks EXCEPT ![s] = @ + 1]
          /\ ScheduleRemoval(s)
       \/ /\ dev[d].status # "Available"
          /\ ScheduleRemoval(s)
          /\ UNCHANGED <<dev, running, discHooks>>
    /\ UNCHANGED <<plugged, reg, finding, nextSession, nextTask, conHooks,
                   cpc, chosen, creq>>

\* Variant: serials_to_remove kept from one pass to the next.
MonitorFinishKeepList ==
    /\ mChecked # {}
    /\ reg' = [x \in DOMAIN reg \ mRemove |-> reg[x]]
    /\ mChecked' = {}
    /\ UNCHANGED <<plugged, finding, dev, nextSession, running, nextTask,
                   conHooks, discHooks, cpc, chosen, creq, mRemove>>

\* After the pass: remove every collected serial, then sleep.
MonitorFinish ==
    /\ mChecked # {}
    /\ reg' = [x \in DOMAIN reg \ mRemove |-> reg[x]]
    /\ mChecked' = {} /\ mRemove' = {}
    /\ UNCHANGED <<plugged, finding, dev, nextSession, running, nextTask,
                   conHooks, discHooks, cpc, chosen, creq>>

-----------------------------------------------------------------------------
(* Client tasks                                                            *)

\* host:transport:<serial> and host:transport-any: the Available entries
\* are looked up; "any" needs exactly one.  The Arc is kept for the next
\* request; no device ends the client's connection with FAIL.
ClientTransport(c, target) ==
    /\ cpc[c] = "idle"
    /\ LET avail == {s \in DOMAIN reg : reg[s] # 0
                                        /\ dev[reg[s]].status = "Available"}
           pick  == IF target = "any"
                    THEN IF Cardinality(avail) = 1 THEN avail ELSE {}
                    ELSE avail \cap {target}
       IN  IF pick # {}
           THEN /\ chosen' = [chosen EXCEPT ![c] = reg[CHOOSE s \in pick : TRUE]]
                /\ cpc' = [cpc EXCEPT ![c] = "chosen"]
           ELSE /\ cpc' = [cpc EXCEPT ![c] = "done"]
                /\ UNCHANGED chosen
    /\ UNCHANGED <<plugged, reg, finding, dev, nextSession, mChecked, mRemove,
                   running, nextTask, conHooks, discHooks, creq>>

MapOf(d, kind) == IF kind = "fwd" THEN dev[d].fwd ELSE dev[d].rev

\* stop_port_forward_spawn / stop_port_reverse_spawn: abort the task and
\* poll is_finished; Ok once it has ended within the three polls.
StopPortTask(tasks, id) == {x \in tasks : x.id # id}

\* The same stop when the task is still running after the three 200 ms
\* polls (abort takes effect at the task's next await, and a task inside a
\* blocking read_bulk of up to 1.5 s reaches none): Err, the task aborted
\* but alive.
StopTimedOut(tasks, id) ==
    {IF x.id = id THEN [x EXCEPT !.aborted = TRUE] ELSE x : x \in tasks}

\* handle_port_forward_command_set / handle_port_reverse_command_set up
\* to the spawn: an existing entry for the port is stopped (abort, then
\* poll is_finished); the entry itself stays in the map.
ClientPortCheck(c, kind, p) ==
    /\ cpc[c] = "chosen"
    /\ LET m == MapOf(chosen[c], kind) IN
       \/ /\ running' = IF p \in DOMAIN m THEN StopPortTask(running, m[p])
                                       ELSE running
          /\ cpc' = [cpc EXCEPT ![c] = "setup"]
          /\ creq' = [creq EXCEPT ![c] = [kind |-> kind, port |-> p, task |-> 0,
                                          drop |-> {}]]
       \/ /\ p \in DOMAIN m
          /\ running' = StopTimedOut(running, m[p])
          /\ cpc' = [cpc EXCEPT ![c] = "done"]
          /\ UNCHANGED creq
    /\ UNCHANGED <<plugged, reg, finding, dev, nextSession, mChecked, mRemove,
                   nextTask, conHooks, discHooks, chosen>>

\* _adb_port_forwarding_set's listener: binding the host port fails while
\* a forward task still holds it, and the failure is the oneshot's Err.
ForwardBindFree(tasks, port) == ~\E x \in tasks : x.kind = "fwd" /\ x.port = port

\* The spawned task and the oneshot result.  A forward binds the host
\* port (it fails while any forward task holds it) and needs no device;
\* a reverse runs its OPEN/OKAY/WRTE/CLSE setup on the device, then
\* connects to the host port: connected, or refused and retrying (the
\* result is Ok either way); a failed setup reports Err.
ClientPortSpawn(c) ==
    /\ cpc[c] = "setup" /\ nextTask <= MaxTasks
    /\ nextTask' = nextTask + 1
    /\ LET r == creq[c]
           d == chosen[c]
           T(conn) == [id |-> nextTask, sess |-> d, kind |-> r.kind,
                       port |-> r.port, connected |-> conn, aborted |-> FALSE]
           bindOk == ForwardBindFree(running, r.port)
       IN  \/ /\ \E conn \in BOOLEAN :
                   /\ IF r.kind = "fwd" THEN bindOk /\ conn
                                        ELSE dev[d].link /\ ~dev[d].closed
                   /\ running' = running \cup {T(conn)}
              /\ cpc' = [cpc EXCEPT ![c] = "spawned"]
              /\ creq' = [creq EXCEPT ![c].task = nextTask]
           \/ /\ r.kind = "fwd" => ~bindOk
              /\ cpc' = [cpc EXCEPT ![c] = "done"]
              /\ UNCHANGED <<running, creq>>
    /\ UNCHANGED <<plugged, reg, finding, dev, nextSession, mChecked, mRemove,
                   conHooks, discHooks, chosen>>

\* On Ok: insert_port_forward / insert_port_reverse on the chosen device;
\* the value it replaces is dropped, which detaches, not aborts, its task.
ClientPortInsert(c) ==
    /\ cpc[c] = "spawned"
    /\ LET r == creq[c]
           d == chosen[c]
           m == (r.port :> r.task) @@ MapOf(d, r.kind)
       IN  dev' = [dev EXCEPT ![d] = IF r.kind = "fwd" THEN [@ EXCEPT !.fwd = m]
                                                       ELSE [@ EXCEPT !.rev = m]]
    /\ cpc' = [cpc EXCEPT ![c] = "done"]
    /\ UNCHANGED <<plugged, reg, finding, nextSession, mChecked, mRemove,
                   running, nextTask, conHooks, discHooks, chosen, creq>>

\* A stop returned Err: FAIL to the client and return; the keys collected
\* so far are never removed.
RemoveFailed(c, kind, ps) ==
    /\ cpc' = [cpc EXCEPT ![c] = "done"]
    /\ UNCHANGED creq

\* port_forward_remove / port_reverse_remove (killforward:<port>) and
\* port_forward_remove_all / port_reverse_remove_all (killforward-all):
\* the entries named are looked up (none for a single port: FAIL) and
\* stopped one by one, in the map's iteration order; the keys are kept to
\* be removed after the loop.  The first stop that times out ends the
\* command: the entries stopped before it have ended, it is aborted.
ClientPortRemove(c, kind, all, p) ==
    /\ cpc[c] = "chosen"
    /\ LET m  == MapOf(chosen[c], kind)
           ps == IF all THEN DOMAIN m ELSE {p} \cap DOMAIN m
           Ids(qs) == {m[q] : q \in qs}
       IN  \/ /\ ~all /\ p \notin DOMAIN m
              /\ cpc' = [cpc EXCEPT ![c] = "done"]
              /\ UNCHANGED <<running, creq>>
           \/ /\ all \/ p \in DOMAIN m
              /\ running' = {x \in running : x.id \notin Ids(ps)}
              /\ cpc' = [cpc EXCEPT ![c] = "removing"]
              /\ creq' = [creq EXCEPT ![c] = [kind |-> kind, port |-> p, task |-> 0,
                                              drop |-> ps]]
           \/ \E f \in ps, before \in SUBSET ps :
                /\ f \notin before
                /\ running' = StopTimedOut({x \in running : x.id \notin Ids(before)}, m[f])
                /\ RemoveFailed(c, kind, before \cup {f})
    /\ UNCHANGED <<plugged, reg, finding, dev, nextSession, mChecked, mRemove,
                   nextTask, conHooks, discHooks, chosen>>

\* remove_port_forward / remove_port_reverse: the kept keys are removed
\* from the device's map, whatever entry each holds by now.
ClientPortRemoveEntries(c) ==
    /\ cpc[c] = "removing"
    /\ LET r == creq[c]
           d == chosen[c]
           m == [q \in DOMAIN MapOf(d, r.kind) \ r.drop |-> MapOf(d, r.kind)[q]]
       IN  dev' = [dev EXCEPT ![d] = IF r.kind = "fwd" THEN [@ EXCEPT !.fwd = m]
                                                       ELSE [@ EXCEPT !.rev = m]]
    /\ cpc' = [cpc EXCEPT ![c] = "done"]
    /\ UNCHANGED <<plugged, reg, finding, nextSession, mChecked, mRemove,
                   running, nextTask, conHooks, discHooks, chosen, creq>>

-----------------------------------------------------------------------------
(* Port reverse tasks (a forward's accept loop never ends by itself)       *)

\* The host port accepts on a later retry of the 1 s connect loop.
ReverseHostConnect(x) ==
    /\ x.kind = "rev" /\ ~x.connected /\ ~x.aborted
    /\ running' = (running \ {x}) \cup {[x EXCEPT !.connected = TRUE]}
    /\ UNCHANGED <<plugged, reg, finding, dev, nextSession, mChecked, mRemove,
                   nextTask, conHooks, discHooks, cpc, chosen, creq>>

\* An aborted task reaches an await and ends.
PortTaskAborted(x) ==
    /\ x.aborted
    /\ running' = running \ {x}
    /\ UNCHANGED <<plugged, reg, finding, dev, nextSession, mChecked, mRemove,
                   nextTask, conHooks, discHooks, cpc, chosen, creq>>

\* handle_reverse_message: the wait for the device's OPEN fails once the
\* USB handle is dead or released, and the task returns.
ReverseTaskExit(x) ==
    /\ x.kind = "rev" /\ x.connected
    /\ ~dev[x.sess].link \/ dev[x.sess].closed
    /\ running' = running \ {x}
    /\ UNCHANGED <<plugged, reg, finding, dev, nextSession, mChecked, mRemove,
                   nextTask, conHooks, discHooks, cpc, chosen, creq>>

-----------------------------------------------------------------------------

Init ==
    /\ plugged = [s \in Serials |-> FALSE]
    /\ reg = <<>>
    /\ finding = {}
    /\ dev = [d \in Sessions |-> Unused]
    /\ nextSession = 1
    /\ mChecked = {} /\ mRemove = {}
    /\ running = {} /\ nextTask = 1
    /\ conHooks = [s \in Serials |-> 0] /\ discHooks = [s \in Serials |-> 0]
    /\ cpc = [c \in Clients |-> "idle"]
    /\ chosen = [c \in Clients |-> 0]
    /\ creq = [c \in Clients |-> NoReq]

OpKinds == {k \in {"fwd", "rev"} :
              (k = "fwd" /\ "forward" \in Ops) \/ (k = "rev" /\ "reverse" \in Ops)}

\* Removal commands are sent for the kinds of port the clients set.
RemoveKinds == IF "remove" \in Ops THEN OpKinds ELSE {}

Next ==
    \/ \E s \in Serials :
          \/ Plug(s) \/ Unplug(s) \/ OnFindDevice(s) \/ ConnectDevice(s)
          \/ MonitorCheck(s)
    \/ MonitorFinish
    \/ \E c \in Clients :
          \/ \E target \in Serials \cup {"any"} : ClientTransport(c, target)
          \/ \E k \in OpKinds, p \in Ports : ClientPortCheck(c, k, p)
          \/ ClientPortSpawn(c) \/ ClientPortInsert(c)
          \/ \E k \in RemoveKinds, all \in BOOLEAN, p \in Ports :
                ClientPortRemove(c, k, all, p)
          \/ ClientPortRemoveEntries(c)
    \/ \E x \in running :
          ReverseHostConnect(x) \/ ReverseTaskExit(x) \/ PortTaskAborted(x)

\* The monitor thread visits every due entry and finishes each pass (its
\* own runtime, a 500 ms sleep between passes); nothing else is assumed.
Fairness ==
    /\ \A s \in Serials : WF_vars(MonitorCheck(s))
    /\ WF_vars(MonitorFinish)

Spec == Init /\ [][Next]_vars /\ Fairness

-----------------------------------------------------------------------------
(* Properties                                                              *)

TypeOK ==
    /\ plugged \in [Serials -> BOOLEAN]
    /\ DOMAIN reg \subseteq Serials /\ \A s \in DOMAIN reg : reg[s] \in 0..MaxSessions
    /\ finding \subseteq DOMAIN reg
    /\ \A d \in Sessions : dev[d].fwd \in PortMaps /\ dev[d].rev \in PortMaps
    /\ nextSession \in 1..(MaxSessions + 1) /\ nextTask \in 1..(MaxTasks + 1)
    /\ mRemove \subseteq mChecked /\ mChecked \subseteq Serials
    /\ \A x \in running : x.id \in 1..(nextTask - 1) /\ x.sess \in Sessions
    /\ cpc \in [Clients -> {"idle", "chosen", "setup", "spawned", "removing", "done"}]
    /\ chosen \in [Clients -> 0..MaxSessions]

\* The sessions of s that are Available and whose connection is not closed.
LiveSessions(s) ==
    {d \in Sessions : dev[d].serial = s /\ dev[d].status = "Available"
                      /\ ~dev[d].closed}

\* Property (on_find_device's connect hook, the monitor's disconnect hook,
\* spec property 11): for every serial, across plug cycles, the connect
\* hooks dispatched exceed the disconnect hooks by the number of its live
\* Available sessions, and there is never more than one such session.
HookPairing ==
    \A s \in Serials :
        /\ Cardinality(LiveSessions(s)) <= 1
        /\ conHooks[s] = discHooks[s] + Cardinality(LiveSessions(s))

\* The session the registry holds for its serial.
Holds(d) == dev[d].serial \in DOMAIN reg /\ reg[dev[d].serial] = d

\* Property (monitor_connected_devices, spec section 4.11): a device whose
\* USB handle died is eventually dropped from the registry, whatever its
\* status, so that the scanner can see it as new again.
UnpluggedRemoved ==
    \A d \in Sessions : (Holds(d) /\ ~dev[d].link) ~> ~Holds(d)

\* The task x is the one its session's map names for its port, or its set
\* is between the spawn and the insert.
Tracked(x) ==
    \/ LET m == MapOf(x.sess, x.kind)
       IN  x.port \in DOMAIN m /\ m[x.port] = x.id
    \/ \E c \in Clients : cpc[c] = "spawned" /\ creq[c].task = x.id

\* Property (close_device_gracefully, insert_port_*, spec section 3: a
\* PortForward/PortReverse is stopped explicitly or when its device is
\* removed): every port task alive belongs to the session the registry
\* holds, and is the one that session's map names, or is being set up.
NoOrphanPortTasks ==
    \A x \in running : Holds(x.sess) /\ Tracked(x)

\* Property (port_forward_remove / port_reverse_remove and their
\* remove_all forms, spec section 5, host:killforward: it removes the
\* listener): on a device the registry still holds, every port task alive
\* is still listed in the device's map (so a later killforward or
\* forward --list reaches it), whatever other clients set or remove.
MapNamesLiveTasks ==
    \A x \in running : Holds(x.sess) => Tracked(x)
=============================================================================
