# A TLA+ model of the SDN firewall

This directory specifies, model-checks and proves properties of the firewall in
`src/src/`: a Ryu application (`firewall_app.py`) that inspects packets of one or
more OpenFlow switches, a REST API through which administrators change its rules
(`firewall_wsgi.py`), a deep-packet-inspection engine (`dpi_engine.py`) and a web
page (`gui/firewall_gui.html`). `PROJECT.json` lists the components, the runs,
the source lines behind every definition, the hazards and the theorems.

## 1. The system

### Components, their state and their operations

| Component | State | Operations |
|---|---|---|
| Packet handling, `FirewallApp` | `mac_to_port`, `arp_table`, `trust_table` (per 5-tuple: count, installed, two payload buffers, blocked), `stats` | `_packet_in_handler`, which calls `ipv4_packet_handler` or `arp_packet_handler`, the checks, `_record_trust`, `_install_trust_flow` |
| Flushing, `FirewallApp` | the switch's table and `trust_table` | `_flush_flows_for_ip`, `_flush_flows_for_port`, `_flush_all_trust_flows` |
| Switch handshake, `FirewallApp` | `datapaths`, `arp_table` | `switch_handshake_handler` |
| REST API, `FirewallWSGI` | `blocked_ips`, `blocked_ports`, the patterns, the rate limit | add and delete of each, listing |
| DPI engine | the built-in and the user patterns | `inspect`, `add_pattern`, `remove_pattern`, `list_patterns` |
| Rate limiter | `rate_tracker` (a deque of timestamps per source), `rate_limit`, `rate_window` | `_check_ip_rate_limit`, `set_rate_limit` |
| Ryu `Datapath` | `send_q` with 16 slots and its semaphore, `state` | `send`, `_send_loop`, `_recv_loop`, `serve` |
| Ryu `OFPHandler` and event loop | the state of the handshake, the application's event queue | `hello_handler`, `switch_features_handler`, `multipart_reply_handler`, `echo_request_handler`; `_event_loop`: one handler at a time |
| OpenFlow switch (Open vSwitch, external) | the flow table | flow-mods, lookup, timeouts, restart |
| Event log and WebSocket push | `event_log` (200 entries), the list of connections | `_log`, `broadcast`, adding and removing a connection |
| Web page | copies of statistics, log, rules and patterns | fetches after every change and on reconnection, a poll, pushed messages |
| Launcher `main.py` | none | starts `ryu-manager` |

### How they interact

A switch connects; its features reply makes `switch_handshake_handler` install the
table-miss rule (priority 0) and the *punt rule*, which sends all IPv4 to the
controller (priority 300). Packets reach `_packet_in_handler` one at a time through
the event queue. A packet that passes all checks is sent back with a packet-out and
counts for the *trust* of its 5-tuple; the K-th one installs two priority-400 rules,
one per direction, after which the flow no longer reaches the controller. ARP
packets teach bindings, and install priority-1 forwarding rules. An administrator
who blocks an address, blocks a port or adds a pattern *flushes*: the rules in the
switch are deleted by messages, the entries in `trust_table` directly.

### What is hard

* **Interleaving.** Handlers and REST requests run on cooperative green threads.
  They are not preempted, but they block in the middle: in `Datapath.send` when the
  16 slots of the queue are taken, and in `_log` when a WebSocket client reads
  slowly or not at all. What was read before is used afterwards.
* **Two copies of the truth.** `trust_table` and the switch's table are changed at
  different times, by different conditions, through a queue that may lose messages.
* **Failure.** `datapaths` keeps a connection after it has ended and what is sent on
  it is discarded without an error; the switch keeps its rules (fail-mode secure) or
  restarts with none. A WebSocket client that is gone makes `_log` raise, which ends the
  handler or the request that logs, wherever it is.
* **Ordering.** A packet-in may be older than the rules that would have kept it from
  the controller.
* **Timeouts.** Rules expire in the switch, and the application is not told.

### What makes each component correct

* Packet handling: nothing that passes DPI has bytes that match a pattern in force
  (`CleanBuffers`), a blocked flow earns nothing (`BlockedEarnsNothing`), the trust count
  and the flag agree (`TrustAccounting`), a binding is not replaced (`BindingKept`).
* Flushing: what was flushed is gone from the switch (`TrustEarned`), the punt rule is not
  lost (`PuntRuleKept`), and a request answered with ok has reached every switch it had to
  (`OkMeansFlushed`).
* Handshake: a switch gets the punt rule (`PuntEventually`); the connection gets through the
  handshake or ends (`HandshakeEnds`); the application knows a switch before its packets
  (`FeaturesFirst`).
* Datapath and event loop: nobody waits for good, except for a WebSocket client that does
  not read (`EveryHandlerReturns`, `EveryThreadReturns`, `NoForgottenWaiter`), slots are
  neither lost nor made up (`SlotsAccounted`), and messages arrive in order without a gap
  (`ImplementsLink`).
* Rate limiter: it counts what passed within the window, not less (`NoUndercount`) and not
  more (`NoOvercount`), and forgets it, at the latest when the clock has made up for what it
  was set back (`SilenceHeals`).
* DPI registry: unique names, built-ins kept, limit kept (`RegistrySound`).
* Event log: clients get the events in order (`EventsInOrder`) and, in the named cases only,
  not all of them (`MissedOnlyWhenDisturbed`).
* Web page: it shows the latest event and the list in force except in the named cases
  (`LatestShown`, `ListShown`), and its counters catch up (`StatsCatchUp`).

## 2. The modules

| Module | Role |
|---|---|
| `OpenFlow` | the flow table of a switch: matches, add, non-strict delete, lookup. External, modelled from its use |
| `Firewall` | packet handling, handshake, REST requests, flushes, green threads, send queue, connection and switch, composed, for one switch |
| `FirewallProperties` | `TypeOK`, the invariants, the action and liveness properties of `Firewall` |
| `FirewallProofs` | lemmas, type correctness, what each group of actions leaves alone |
| `FirewallTrustProofs` | trust accounting, clean buffers, what a blocked flow earns, bindings, trust in the switch |
| `FirewallPuntProofs` | the punt rule is never lost |
| `RateLimiter` | the sliding window over a clock that may be set back, and the requests that change it |
| `RateLimiterProofs` | the deque holds what passed within the window, no less and no more; silence |
| `Link` | abstract specification: an ordered link that is cut off once |
| `Connection` | one OpenFlow connection from accept to end: `Datapath`, `OFPHandler`, the event queue; implements `Link` |
| `ConnectionProofs` | slots, waiters and the order of the handshake |
| `ConnectionLinkProofs` | `Connection` implements `Link` |
| `DPIEngine` | the registry of patterns: operators for its checks and changes |
| `Administration` | REST requests, `_log` and `broadcast`, clients that are slow, break and leave, the flush of several switches; extends `DPIEngine` |
| `AdministrationProofs` | the registry, the log, broadcasts in order and complete, flushes of several switches |
| `Dashboard` | one page of the GUI against the firewall it shows |
| `DashboardProofs` | what the page shows of the log and of a list |
| `MCFirewall`, `MCRateLimiter`, `MCConnection`, `MCAdministration`, `MCDashboard` | small instances |

`Firewall` composes the system at the level of whole messages. The other modules open
up one part of it each. `Connection` shows what `Firewall` assumes of a connection: that
messages arrive in order, that a lost connection cuts them off at one point, and that
waiting senders are released (`SendLoop` and `LoseConnection` in `Firewall`).
`RateLimiter` says which verdict `Firewall` leaves open. `Administration` has what
`Firewall` leaves out of a request: refusals, exceptions and other switches.

### State and code

The variables `blocked_ips`, `blocked_ports`, `mac_to_port`, `arp_table`,
`trust_table`, `send_q` have the names of the attributes they model. `patterns` is
the set of patterns of `DPIEngine`; `registered` is `self.datapaths` for one switch
(no switch, a live or a dead connection); `flows` is the switch's table.

A thread (`thread[t]`) is the list of things it has still to send (`todo`), the place
at which it goes on after the last of them (`at`), its argument, and whether the
connection it holds is alive (`live`). `cpu` is the running thread. Everything
between two places where the code can block is one step, because green threads are
not preempted. `attached` says that the reference to an entry that `_record_trust`
keeps across its sends still refers to an entry of the table: a flush may delete it
meanwhile, after which `entry['installed'] = True` has no effect on the table. `aborted`
in an entry is a history: how often an exception in the log call at line 584 has kept
`entry['installed'] = True` from being carried out.

The other modules keep the names of the attributes in the same way. `RateLimiter` counts
time in ticks, several to a second, and has five histories: when packets `passed`, up to
which time the deque may have been popped (`horizon`), how far the clock had been before it
was set back (`settled`), how long each source has been `silent`, by a clock that is not set
back, and by how much the clock was set back in all (`set_back`). `Connection` has the
counter and the waiters of the semaphore apart (`sem`, `waiters`) because eventlet wakes a
waiter later than it releases the slot (`wakes`). `Administration` has a position `at` in
the list of connections or in the dictionary of datapaths for each loop that may block, as
Python's iterators have. `Dashboard` has the REST calls under way, per kind in the order in
which they were made, each with its answer once the server has given it; any of them may be
answered or received next, so an answer may be overtaken by another. `due` has the events
that are in `event_log` and whose broadcast has not come to this page yet, because
`broadcast` serves the clients one after the other and may wait for an earlier one;
`cleared` is the last event when the user pressed Clear, until the page connects again.

### Actions and code

| Code | Actions |
|---|---|
| **`Firewall`** | |
| `_packet_in_handler` | `IgnorePacket`, `DropPacket`, `RateLimitPacket`, `DpiBlockPacket`, `AllowPacket`, `ArpSpoofPacket`, `AllowArp`: one per outcome of the checks, up to the first place it can block; `LearnDropped`, `RecordTrust`, `MarkInstalled`: what follows the sends |
| `switch_handshake_handler` | `SwitchHandshake` |
| `add_blocked_ip`, `_flush_flows_for_ip` | `AddBlockedIp`, `FlushIp`, `ForgetIp` |
| `add_blocked_port`, `_flush_flows_for_port` | `AddBlockedPort`, `FlushPort`, `ForgetPort` |
| `add_dpi_pattern`, `_flush_all_trust_flows` | `AddDpiPattern`, `ForgetAll` |
| the deletes of the REST API | `DelBlockedIp`, `DelBlockedPort`, `DelDpiPattern` |
| `Datapath.send` | `SendNow`, `SendBlock`, `SendResume`, `SendDiscard` |
| `_log` where code follows it | `LogEvent` (it returns), `LogWaits` and `LogResumes` (a client is slow), `LogRaises` (a client is gone: the handler ends) |
| `_send_loop` | `SendLoop`; its `finally` is `LoseConnection` |
| the hub | `WakeUp`, `HandlerEnds` |
| switch and hosts | `PacketIn`, `FlowExpires`, `Connect`, `Disconnect`, `SwitchCrash` |
| **`RateLimiter`** | |
| `_check_ip_rate_limit` | `Trimmed`, `OverLimit`, `Refuse`, `Pass` |
| `set_rate_limit` | `SetRateLimit`: a field may be missing or not a number, and the limit is assigned before the window is parsed |
| `time.time()` | `Tick`, `ClockSetBack` |
| **`Connection`** | |
| `Datapath.send` | `SendNow`, `SendWait`, `Wake` |
| `_send_loop` | `TakeMessage`, `WriteMessage`, `WriteAndClose`, `SendFails`; its `finally` is `EndSendLoop` |
| `_recv_loop`, `serve`, `close` | `ReceiveHello`, `ReceivePortDesc`, `ReceiveOther`, `PutEvent`, `EndReceiveLoop`, `KillSendLoop`, `CloseDatapath` |
| `hello_handler` | `Usable`, `Compatible`, `ReceiveHello` |
| `multipart_reply_handler` | `ReceivePortDesc`, also for a reply that says more will follow |
| `_event_loop` and the firewall's handlers | `TakeEvent`, `RestRequest`: what they send |
| the switch (external) | `SwitchReads`, `SwitchAnswers`, `SwitchSends`, `SwitchCloses`, `SwitchFails` |
| **`Administration`** | |
| the requests of `FirewallWSGI` | `AddBlockedIp`, `DelBlockedIp`, `AddDpiPattern`, `DelDpiPattern`, `Refuse` |
| `_log`, `broadcast` | `AppendEvent`, `BeginStats`, `SendAtOnce`, `SendWaits`, `SendDone`, `SendRaises`, `WaitRaises`, `BroadcastEnds` |
| the flushes | `BeginFlush`, `FlushTakes`, `FlushSends`, `FlushWaits`, `FlushGoesOn`, `FlushEnds`, `FlushRaises` |
| `add_connection`, `delete_connection` and the connection between them | `Join`, `Break`, `Leave` |
| `switch_handshake_handler` | `SwitchHandshake` |
| **`Dashboard`** | |
| `connect` | `Accept`, `Open`, `Close`, `Reconnect`, `Receive` |
| `_log`, `broadcast` as far as this page | `Logs` (in the actions that log), `Push`, `PushFails` |
| `fetchStats` and its timer, `fetchLog`, `fetchRules`, `fetchDPIPatterns` | `Poll`, `GetsStats`, `GetsLog`, `GetsList` and the `Loses...` of each |
| the buttons of the page | `Change`, `GetsChange`, `LosesChange`, `Clear` |
| the REST API and the firewall behind it | `AllowPacket`, `BlockPacket`, `OtherChange`, the `Answer...` actions, `RefuseChange` |

### Abstractions

* A pattern is a member of a small set and a payload a sequence over `Bytes`;
  `Search` stands for Python's `re`. In the instances a pattern is a byte string and
  `Search` its occurrence, so that a match across two packets exists.
* A key that is not in the code's `trust_table` has `FreshEntry`. The code creates
  such an entry before it reads one, so the two behave alike.
* `tp_src` and `tp_dst` stand for the TCP and UDP fields; every rule that names one
  fixes `ip_proto` too.
* The rate limiter's verdict is free for the sources in `RateLimitable`.
* `_send_loop` takes a message, writes it and the switch carries it out in one step.
  A message in transit behaves like one more slot of the queue.
* `_log` is a step of `Firewall` only where other code follows: there it may return, wait
  for a client or raise. A call at the end of a handler changes nothing that `Firewall`
  has, so it is no step. Who gets which event is the subject of `Administration`, in which
  in turn a flush is a message per switch.
* When a connection ends, `LoseConnection` in `Firewall` releases all its waiting threads at
  once. The drain of the code releases a slot per queued message, and each thread released
  passes its slot on; that this reaches every one of them is what `NoForgottenWaiter` and
  `EveryThreadReturns` of `Connection` show.
* A refused request and a request that cannot be parsed change no state; they appear in
  `Administration`, where the answer matters, and not in `Firewall`.
* In `Connection` a message is what kind of message it is. A hello is its version number
  and the versions it lists; the versions are 1.3 and later, before which the handshake
  has no port description.
* In `Administration` an event is its number in the log, and the three kinds of flush are
  one: each runs over `self.datapaths` in the same way.
* The panels of the page share nothing but the WebSocket, so a behaviour of `Dashboard`
  follows one of them. A list is the number of the event that changed it last.
* `allowed_ips` is never written by the code, so its branch is dead and left out.
* Packet-ins that are empty or cannot be parsed return early without a change; the
  table-miss and punt rules send whole packets, so they are left out.

## 3. The runs

`Firewall`: all instances bound the traffic to a few frames, the requests to a few,
`TRUST_K` to 1 or 2 instead of 5 and the payload buffer to two bytes instead of 8192; with K
= 2 there is a flow that has begun and not earned trust, and with two bytes a buffer is
empty, partly filled and full, and a pattern occurs only across packets. `SendCap` is 1 or 2
instead of 16, so that the queue is full after few sends; where a run is about what happens
with room in the queue it is 4 and the run leaves out the steps in which a thread begins to
wait for a slot. `EventCap` is 1: Ryu's event queue is bounded too, and one event that waits
while a handler runs is enough for a packet to be older than the rules it meets. `MaxAborts`
= 1: a flow's installation is cut short by an exception at most once between two flushes,
since every further time only adds one to the count. Nothing else is bounded: counts and
buffers are bounded by the code. Requests may be repeated for ever.

`Connection`: every queue has one slot (`SendCap`, `EventCap`, `WireCap`), which makes every
wait in the circle of threads happen; messages, packets and requests are without number.
`RateLimiter`: two ticks to a second, a clock up to 5 (`MaxTime`), 3 packets of a source
(`MaxPassed`), set back by up to 3 ticks in all (`MaxSetBack`), which is more than the
default window, windows of 0 to 2 seconds and negative, limits 0 to 2; sources do not
influence one another, so there is one. `Administration`: a REST thread beside the event
loop, two clients (a third one in `v_broadcast`), three handshakes of three switches, so
that one registers or reconnects while a flush runs, up to four events (`MaxEvents` = 2
stops new requests, and one request logs two), a log of two entries and one user pattern.
Client and switch names are symmetric. `Dashboard`: a fetch of 2 entries and a page of 3,
three events, two packets, two broadcasts (`MaxDue`) and two calls of a kind under way, so
that a page overflows, answers cross and a broadcast overtakes another.

### Runs that pass

| Run | Instance | Properties |
|---|---|---|
| `inspection` | one TCP connection, a pattern that occurs only across two packets, one administrator, slow and broken clients, broken connections (690 000 states) | `TypeOK`, `CleanBuffers`, `TrustAccounting`, `BlockedEarnsNothing` |
| `two_admins` | UDP and ICMP, two requests at a time, one slot, broken clients, disconnections and restarts of the switch (860 000 states) | `TrustAccounting`, `PuntRuleKept` |
| `arp` | three hosts, a forged announcement, an IPv6 frame, TCP with bad flags from a source that is rate limited, reconnections, packets with and without a buffer in the switch | `BindingKept` |
| `undisturbed` | one TCP connection, blocks and patterns that come and go, slow and broken clients, restarts of the switch; no send waits and no disconnection (250 000 states) | `TrustEarned` |
| `progress` | one slot, clients that are slow, gone or never read again, broken connections (92 000 states), under fairness | `EveryHandlerReturns`, `PuntEventually` |
| `connection` | one slot everywhere, a switch that stops reading, fails, or offers a common version, a later one or none, and describes its ports in one reply or two (110 000 states), under fairness | `TypeOK`, `SlotsAccounted`, `NoForgottenWaiter`, `FeaturesFirst`, `ImplementsLink`, `EveryThreadReturns`, `HandshakeEnds` |
| `rate_limiter` | requests that widen, narrow, zero or half-change the settings; a clock set back at any time (1.6 million states) | `TypeOK`, `NoUndercount`, `NoOvercount`, `SilenceHeals` |
| `administration` | requests and packets that log and flush while clients are slow, break, join and leave and switches register (1.3 million states) | `TypeOK`, `RegistrySound`, `EventsInOrder`, `MissedOnlyWhenDisturbed`, `OkMeansFlushed` |
| `dashboard` | a WebSocket that comes and goes, broadcasts that are late, overtaken or fail, a log that is cleared, calls answered late, out of order or not at all (510 000 states), under fairness | `TypeOK`, `LatestShown`, `ListShown`, `StatsCatchUp` |

Deadlock is checked except in `connection`, where a connection that has ended is the
end of the behaviour, and in `administration`, where the bounds on events end it.

Some of these hold with an exception that the code makes necessary, and the property names
it. The deque cannot know again what it has popped: `NoUndercount` is about the moments at
which nothing behind `horizon` is in the window, so it says nothing just after a window was
widened or the clock set back. A clock that was set back leaves later timestamps in front of
earlier ones, and popping from the head stops at them: `NoOvercount` waits until the clock
is a window past where it was. Timestamps later than the clock count as recent, in the code
(`now - t < window`) as in `Recent`. `SilenceHeals` therefore measures silence apart from
the clock: a window of silence is not enough, and TLC shows it, but a window and what the
clock was set back in all is. `TrustAccounting` has the goal K plus the number of times an
exception in the log call at line 584 kept a flow from being marked: the flow then counts
one packet further with each try and is marked with the first try that is not cut short.
`MissedOnlyWhenDisturbed` excuses the events whose broadcast was cut short by an exception
or in the middle of which a client left; `broadcast` reads the list by position, and the
removal of an entry moves the next one into a position already read. `EventsInOrder` excuses
two events that were both under way when a client left, for the same reason: the removal
moves a client forward that the earlier broadcast is waiting for, and the later one passes
it. The attempt to prove the property without the excuse showed this; TLC confirms it with
five clients. No comment promises the order. `LatestShown` is about the events logged since
the user last pressed Clear and waits for the broadcasts under way; it excuses a broadcast
that failed or was overtaken, a fetch that was lost and two fetches that crossed.
`ListShown` excuses changes by others, which the page is not told of, failed calls and
crossed fetches. In each case the next successful fetch ends the excuse, which is part of
what is checked.

`undisturbed` has an action constraint, `NoSendWaits`, which leaves out the behaviours in
which a thread waits for a slot: together with `v_pattern_race` it shows that the guarantee
of a flush depends on the queue having room. `TrustIsEarned` has the same condition as a
hypothesis. `two_admins` is symmetric in the threads that serve requests: the
code does not tell them apart and its properties are invariants. Hosts are numbers,
because `_trust_key` orders them, and are not symmetric.

### Fairness

`FairSpec` assumes strong fairness of each green thread's steps and of the send loop.
Eventlet's hub runs every ready green thread in each of its rounds; a thread is
*ready* again and again, but the processor is not free in between, which is why weak
fairness of single actions would not describe it. The send loop either sends or runs
into the 5-second socket timeout (`controller.py:80-82`), which ends the connection.
Nothing is assumed of WebSocket clients: `ws.send` has no timeout, so one that has stopped
reading may hold up the thread that sends to it for good. `EveryHandlerReturns` excepts
that thread, says that it is in a log call of its own, and says that all others return.
For the same reason it is not assumed that the event loop takes its next event, as the log
call at the end of a handler may hold it up. The semaphore of
the send queue serves its waiters in order; the mutant `SendResumeLast` shows that
progress depends on that. Nothing is assumed of hosts, administrators and links:
packets may never come, and a broken connection may never return.

`Connection` assumes weak fairness of each thread, of the wake-ups in the hub, and of a
switch that is up: it reads what it is sent unless it has an answer to write first. The
send loop includes the timeout, which is what breaks the circle in which the receive
loop waits for the application, the application for a slot, the send loop for the
switch, and the switch for the receive loop; the mutant `SendFailsClosedOnly` leaves it
out. Nothing is assumed of the switch's traffic or of its failures.

`Dashboard` assumes weak fairness of the timer of the poll and strong fairness of
answering a poll and of receiving the answer: a poll that is repeated for ever is
answered again and again, although any single one may be lost.

### Refinement

`Connection` implements `Link` under the mapping

    transit <- IF peer THEN to_switch \o in_hand \o send_q ELSE <<>>
    open    <- accepting /\ peer

What was accepted and not yet read by the switch is in one of three places, in this
order. `Accept` is a send that finds the queue, `Deliver` is the switch reading a
message, and `Close` is any of the five ways in which a connection ends: what it cuts
off is always an end of `transit`. A message accepted after the switch is gone, and one
discarded because the queue is gone, are stuttering steps.

### Runs that show a disagreement

Each states what a comment or the README of the repository says, and TLC shows a
behaviour of the code that does something else.

| Run | Said | Done |
|---|---|---|
| `v_source` | a block on the source is "still enough to kill all the channels to/from it" | packets *to* the blocked host earn trust, and the reverse rule forwards packets *from* it |
| `v_pattern_race` | adding a pattern "flushes all trust flows" | the delete overtakes the second rule of a trust flow when the event loop is blocked between the two |
| `v_broadcast` | `_log` is to "broadcast to all WebSocket clients" | a broken client that is still in the list makes `broadcast` raise, and the clients behind it never get the event |

Relatives of these were met while modelling and have no run of their own:

* `_flush_flows_for_port` deletes by destination port, so the reverse rule of a trust flow
  stays while its entry is removed.
* `installed` is not cleared when the switch expires a trust rule, so later packets of the
  flow go through the controller for good.
* The drop rule of the rate limiter has priority 200, below the punt rule's 300, so it
  never decides an IPv4 packet; the limiter works in the controller only.
* A learned rule (priority 1) forwards forged ARP between hosts that have talked before,
  and forwards IPv4 while the punt rule is not there yet or is between the delete and the
  add of a flush.
* Trust earned by replies *from* a blocked port opens the way *to* it, by the mechanism of
  `v_source`.
* A flush on a broken connection is discarded and the switch comes back with its trust
  rules (`v_pattern_race` with `Disconnects = TRUE` and room in the queue).
* A packet that was already queued for the controller may block its flow after the trust
  rules were sent; the switch then forwards the blocked flow until they expire.
* After a request fails in its flush or its log call the rule or pattern is in force and
  the request is answered with an error. Repeating it for a pattern is refused, because the name
  exists, so the flush does not happen.
* An exception in the log call after the two trust rules (line 584) leaves a flow whose rules
  were sent and which is not marked. Its count is K or more, so while its packets come to
  the controller each one sends the rules again, until a log call returns.
* A client that stops reading and keeps its connection stops the event loop in its next log
  call, and with it the whole firewall, since `ws.send` has no timeout.
* The comment at `ofp_handler.py:142-145` says that a version the switch may not expect is
  used "with the hope that the switch is able to understand lower version"; the code that
  follows fails the handshake instead. `Compatible` follows the code.
* The page fetches the log on every reconnection and appends it to what is there, so
  entries appear twice; it shows a limit or a window of 0 as the default, because of `||`.

## 4. The proofs

TLC shows these for small instances, TLAPS for every value of the constants: every traffic,
set of requests, number of threads and bound of `Firewall`, every number of sources, setting
and clock of `RateLimiter`, every set of versions, hello and capacity of `Connection`, every
number of threads, clients, switches, patterns and events of `Administration`, every number
of events, packets and calls of `Dashboard`. They rest on the named assumptions of these
modules: in `Firewall` frames are records of the given shape, K and the capacities are
positive, thread names are distinct and the switches are Booleans; in `RateLimiter`
(`LimiterAssumption`) the settings are integers and a second has at least one tick; in
`Connection` (`ConnectionAssumption`) the versions are a finite set of numbers from 1.3 on,
hellos are records with a finite list, and the capacities are positive; in `Administration`
(`RegistryAssumption`, `AdministrationAssumption`) the names of the built-in patterns are
distinct, the log has a positive capacity and thread names are distinct; in `Dashboard`
(`DashboardAssumption`) a fetch of the log brings at least one entry and the page keeps more
entries than a fetch brings (150 against 100 in the code). The last one is needed: a page
that keeps no more than that is driven back by a late answer to an old fetch.

| Theorem | Statement |
|---|---|
| `TypeCorrect` | `Spec => []TypeOK` of `Firewall` |
| `TrustKeySymmetric`, `TrustKeyInjective` | both directions of a connection, and no two connections, share a key |
| `TrustAccounted` | `Spec => []TrustAccounting` |
| `BuffersClean` | `Spec => []CleanBuffers` |
| `VerdictStands` | `Spec => BlockedEarnsNothing` |
| `BindingsKept` | `Spec => BindingKept` |
| `TrustIsEarned` | `Spec /\ [][NoSendWaits]_vars => []TrustEarned`, for an instance without `Disconnects` and without requests that block a port |
| `PuntNeverLost` | `Spec => []PuntRuleKept` |
| `LimiterTypes` | `Spec => []TypeOK` of `RateLimiter` |
| `LimitNotExceeded` | `Spec => []NoUndercount` |
| `RefusalJustified` | `Spec => []NoOvercount` |
| `SilenceAlwaysHeals` | `Spec => []SilenceHeals` |
| `ConnectionTypes` | `Spec => []TypeOK` of `Connection` |
| `SlotsNeverLost`, `WaitersAlwaysWoken` | `Spec => []SlotsAccounted`, `Spec => []NoForgottenWaiter` |
| `SwitchKnownFirst` | `Spec => []FeaturesFirst` |
| `ConnectionImplementsLink` | `Spec => ImplementsLink`: the refinement |
| `TypesStay`, `RegistryStaysSound` | `Spec => []TypeOK`, `Spec => []RegistrySound` of `Administration` |
| `OkAnswersAreFlushed` | `Spec => OkMeansFlushed` |
| `EventsStayInOrder` | `Spec => []EventsInOrder` |
| `OnlyDisturbedAreMissed` | `Spec => []MissedOnlyWhenDisturbed` |
| `TypesStay` | `Spec => []TypeOK` of `Dashboard` |
| `TheLatestEventIsShown` | `Spec => []LatestShown` |
| `TheListInForceIsShown` | `Spec => []ListShown` |

**Types.** `TypeOK` is not inductive by itself. `SendResume` takes a message from the
thread at the head of `waiters`, which needs `WaitersOK` of `FirewallProofs`: a waiting
thread has a message that is not a log call. `RecordTrust` sends rules with the port of the
destination, which must be a real port: `WayKnown` says that a thread at "trust" knows
the way to its destination. It stays true because `mac_to_port` only grows. The
inductive invariant is `TypeOK /\ WaitersOK /\ WayKnown`; there is one lemma per group
of actions and one step per action.

**Trust and inspection.** `TrustAccounting` and `CleanBuffers` are inductive together
with the type invariant and `FlushesSendOnly`: a flush logs before it deletes and not
after, so no exception ends it between its deletes and the clearing of the table. The step
that carries `TrustAccounting` is `Forget`: it removes entries and, in the same step,
detaches the event loop's reference; an exception in the log call raises the goal of the
entry exactly when that reference is still attached. For `CleanBuffers` it is
`AllowPacket`: the buffer it stores is the one it has inspected. A new pattern is exempt
until its request has cleared the table, and `ForgetAll` clears all of it, so the exemption
of one request can end while another is still running.

**Verdicts.** `BlockedEarnsNothing` is about single steps, but the step that marks an entry
comes several sends and waits after the check of `blocked`. `EarnsUnblocked` bridges them:
from its check to its mark the event loop works on a flow that is not blocked, because no
other thread inspects packets, a flush that replaces the entry detaches the reference, and
only TCP flows are ever blocked, so that the flows that skip DPI cannot be.

**Punt rule.** `PuntRuleKept` does not say that a thread with a delete in its list also
has the rule behind it, and fails after that delete without it. `PuntPaired` adds it:
in every list of sends, a delete that removes the rule is followed by the rule. The
argument then follows a message: what leaves a list enters the queue, what leaves the
queue changes the table, and a later delete by another thread brings its own rule.

**Trust in the switch.** `TrustEarned` speaks of a quiet system and says nothing of how it
became quiet. `EarnedInv` follows a trust rule on its whole way: a rule that will be in the
switch once the queue is carried out (`Survives`), or that a thread is going to add, has K
packets on record (`Earned`), and a flush that is about to take the record has sent a delete
that covers the rule, or has it in its list. Two more parts are needed. `OneRuns` says that
a thread which has something to send, or is in a flush, keeps the processor (what it may
still have to do without it is a log call behind its last send), so that no rule
is added between the deletes of a flush and the clearing of the table; that is exactly what
a full queue destroys. `Alive` says that without a registered live connection nothing is in
the switch or on its way, so that a flush which reaches no switch need not. The hypotheses
of the theorem are the three ways in which the code does lose the property, each listed
with the disagreements above: the run `v_pattern_race` is a full queue, a disconnection
leaves rules in the switch that a flush cannot reach, and the flush of a port deletes the
rule of one direction only.

**Rate limiter.** `NoUndercount` and `NoOvercount` are not inductive: they compare the deque
with the history of what passed. `LimiterInv` says how the two are related. The deque is an
end of the history, and what is missing in front of it passed no later than `horizon`;
timestamps are in the past and in order, except those up to `settled`, where the clock was
before it was set back. The loop that pops the deque removes a set of positions that
contains every position before one of its own; such a set is an interval by its cardinality
(`DownwardClosed`), which takes the place of an induction over the loop. The properties then
follow by counting: the positions of the history that lie in the window are among those the
trimmed deque holds, or the other way round. `SilenceHeals` rests on `SilenceBehind`: a
timestamp of the deque and the silence of its source add up to no more than the clock and
what it was set back. A tick adds one to the clock and to the silence, a clock set back
moves what it loses to `set_back`, and a packet that passes ends the silence of a deque with
no timestamp beyond that sum. After a window and `set_back` of silence every timestamp is
out of the window, so the loop pops them all.

**Queue of the connection.** `SlotsAccounted` and `NoForgottenWaiter` are inductive with
the types, with `WaitersDistinct` (which bounds `waiters`) and with `WaitersSend`: the
thread that a wake-up lets go on has a message. The step that needs care is a wake-up
after the queue is gone: the thread takes its slot, drops its message and gives the slot
back, so the number of free slots stays and so must the wake-ups while others wait.

**Order of the handshake.** `FeaturesFirst` needs the whole round trip. A packet-in is
put only in state MAIN, MAIN is entered by a port description, the switch describes its
ports only when asked, and the receive loop asks behind the event of the features reply.
`PortsAsked` follows the request through the lists, `send_q`, `in_hand`, `to_switch`, `owed`
and `to_controller`; `AnnouncedBefore` says that while it is anywhere on this way, or has
arrived, the application knows the switch or has the event in its queue. `ListsKnown`
says what each thread can have to do, and so that only the receive loop asks.

**Refinement.** `ConnectionLinkProofs` maps every step: a send that finds the queue is
`Accept`, a read of the switch is `Deliver`, the five ends are `Close`, and all others leave
`transit` and `open` as they are, because taking a message and writing it only move a
boundary within `to_switch \o in_hand \o send_q`.

**Registry.** `RegistrySound` counts the patterns of users in a list of which they are a
part. `RegistryInv` says where they are: the built-in patterns in front, in their order,
and behind them only patterns of users, so that the length of the list gives their number.
Names stay distinct because `add_pattern` looks at all of them, and removal keeps the order.

**Flush of several switches.** `OkMeansFlushed` compares a set taken when a request begins
with the dictionary when it ends. `FlushInv` carries it through the loop: the dictionary
has one entry for a switch, a switch seen at the beginning is still there with that
connection or a later one, and those before the position of the loop have been sent the
deletes, or are being sent them. A handshake in the middle changes an entry in its place or
appends one, and never moves one behind the position.

**Broadcast.** Several threads run over one list of connections by position, each waiting
in front of some client, while clients join at the end and leave anywhere. `LineInv` says who
waits for whom: a thread in `broadcast` runs or waits for exactly one client, and each client
has a line without repetition. `EventsInOrder` then needs three facts. `Position`: the
position of a thread is that of the client it waits for, or later once clients have left.
`Behind`: an undisturbed broadcast is never in front of an earlier one, nor before it in a
line. `NotAgain`: a client that has an event gets neither it nor an earlier one later, unless
both are disturbed. For `MissedOnlyWhenDisturbed` the same positions say what has been done:
`Reached` (an undisturbed broadcast has reached those before its position) and `Complete` (one
that is over has reached all). A client that leaves disturbs every broadcast under way,
which is why `Distinct` can say that the disturbed ones among them are the earliest.

**Page.** `LatestShown` is about a page with nothing on its way; on its way are broadcasts,
pushed messages, fetches not answered, and answers not received. `LogComing` says where the
latest event is before that, unless the log was cleared since: in a broadcast, on the wire,
in a fetch that will bring it, or on the page. If it is on the page while an older answer is
still to come, it is the last entry (`ShownLast`), and after that answer it is at most a
fetch away from the end (`ShownLate`), which is why the page must keep more entries than a
fetch brings. `LogInOrder` says that the broadcasts under way end with the latest event, and
without any the wire does, and that without an excuse at most one fetch is under way.
`ListShown` has the same form: `ListComing` says that the list in force is shown, in a fetch
that will bring it, or changed by a call whose answer, once received, makes the page fetch
it; `OneFetch` bounds the fetches.

**Only model-checked.** Liveness and its fairness, which the prover does not handle:
`EveryHandlerReturns`, `PuntEventually`, `EveryThreadReturns`, `HandshakeEnds` and
`StatsCatchUp`; and the disagreements, which are single behaviours. Every invariant and
every action property of a passing run is the subject of a theorem.

## 5. What is not modelled

* Restart of the controller. Nothing is persisted and no code handles it: a restarted
  controller is a new one, and what the switch kept from before is outside its knowledge.
* `stats`, except as one number in `Dashboard`: which check raises which counter is
  straight-line code.
* The parsing of addresses, ports and packets, and Python's `re`; a request or packet
  that cannot be parsed changes nothing.
* The RPC methods a WebSocket client may call, and the form of the rate limit in the page.
* Ryu's echo request loop, which is off in the default configuration, and its handlers of
  port status and error messages, which the firewall does not use.
* The launcher, which starts a process and waits for it.
* The vendored trees. Of the repository's 147 000 lines of implementation about 1 500 are
  the firewall's (`src/src/`); the rest is vendored Ryu and Mininet:
  parsers and serialisers for OpenFlow 1.0 to 1.5, BGP, OVSDB and dozens of packet formats,
  command-line tools and topology emulation. The firewall reaches a few hundred lines of
  that which keep state between two steps, in `controller.py`, `ofp_handler.py`,
  `app_manager.py` and `wsgi.py`, and those are modelled. The rest is either not used by
  this program or has no state that a property of this program could depend on, so the
  share of lines the models cover stays small, and modelling protocols that the firewall
  never speaks would not say anything about it.

## 6. Plan

Done: all modules of section 2, their runs and the proofs of section 4.

Left: the liveness properties, which stay with TLC, and Ryu's echo request loop, should the
firewall ever be run with it switched on.
