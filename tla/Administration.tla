--------------------------- MODULE Administration ---------------------------
(***************************************************************************)
(* The administrative side of the firewall: REST requests that change the  *)
(* rules (firewall_wsgi.py), the event log and its broadcast to WebSocket  *)
(* clients (_log, and WebSocketManager of ryu/app/wsgi.py), and the flush  *)
(* of every switch in self.datapaths.                                      *)
(*                                                                         *)
(* Two loops of the code run over collections that others change while the *)
(* loop is blocked: broadcast runs over the list of connections, a flush   *)
(* over the dictionary of datapaths.  And both may raise: a client that is *)
(* gone makes _log fail, a switch that registers makes the flush fail,     *)
(* each in the middle of a request.                                        *)
(*                                                                         *)
(* A thread is a REST request or the application's event loop.  It keeps   *)
(* the processor (cpu) until it waits for a client or for a slot of a send *)
(* queue.  What the rules and the flushes mean is the matter of Firewall.  *)
(***************************************************************************)
EXTENDS DPIEngine

CONSTANTS
  RestThreads,       \* the requests that can be under way at the same time
  Requests,          \* the requests administrators may make
  Clients,           \* WebSocket clients
  Switches,          \* datapath ids
  MaxHandshakes,     \* bound on the connections of switches
  MaxEvents,         \* bound on the events logged
  LogCap             \* entries of event_log, 200 in the code

ASSUME AdministrationAssumption ==
  /\ "loop" \notin RestThreads /\ "none" \notin RestThreads
  /\ LogCap \in Nat \ {0}

LOOP     == "loop"
Threads  == {LOOP} \cup RestThreads
NoThread == "none"

VARIABLES
  cpu,               \* the running thread
  thread,            \* per thread: its request and how far it is
  blocked_ips,
  patterns,          \* dpi.patterns
  logged,            \* number of events so far; an event is its number
  event_log,
  connections,       \* WebSocketManager._connections
  client,            \* new, up, broken (sends raise) or gone
  sendlock,          \* per client: the thread that sends and those behind it
  received,          \* per client: the events it got
  joined,            \* history: number of events when a client joined
  disturbed,         \* history: events whose broadcast was cut short or during
                     \* which a client left
  datapaths          \* the dictionary, in its order: [id, conn]

log_vars == <<logged, event_log>>
client_vars == <<connections, client, sendlock, received, joined, disturbed>>
vars == <<cpu, thread, blocked_ips, patterns, log_vars, client_vars, datapaths>>

\* A thread that has nothing to do.  steps: what is left of its handler.  at:
\* the position of the loop it is in, 0 between loops; size: the length of the
\* dictionary when its loop began; target: the datapath it is sending to.
\* seen and flushed are history: the datapaths there were when the request
\* began, and those it has sent its deletes to.
Idle(answer) ==
  [steps |-> <<>>, at |-> 0, size |-> 0, event |-> 0, target |-> <<>>, seen |-> {},
   flushed |-> {}, answer |-> answer]

Log       == <<"event", "stats">>
Busy(t)   == thread[t].steps # <<>>
Doing(t, step) == cpu = t /\ Busy(t) /\ Head(thread[t].steps) = step

\* The event loop answers nobody.
Return(t, answer) ==
  /\ thread' = [thread EXCEPT ![t] = Idle(IF t \in RestThreads THEN answer ELSE "none")]
  /\ cpu' = NoThread

\* Thread t goes on with what the handler does next, or returns its answer.
NextStep(t) ==
  LET rest == Tail(thread[t].steps)
  IN  IF rest = <<>>
        THEN Return(t, "ok")
        ELSE /\ thread' = [thread EXCEPT ![t].steps = rest, ![t].at = 0, ![t].event = 0]
             /\ UNCHANGED cpu

\* An exception leaves the handler; the server answers with an error.
Fails(t) == Return(t, "error")

-----------------------------------------------------------------------------
(* Requests                                                                *)

CanBegin(t) == cpu = NoThread /\ ~Busy(t) /\ logged < MaxEvents

Begin(t, steps) ==
  /\ CanBegin(t)
  /\ thread' = [thread EXCEPT ![t] = [Idle("none") EXCEPT
                  !.steps = steps, !.seen = ToSet(datapaths)]]
  /\ cpu' = t

\* A request that is refused changes nothing but is answered.
Refuse(t) ==
  /\ CanBegin(t)
  /\ Return(t, "error")
  /\ UNCHANGED <<blocked_ips, patterns, log_vars, client_vars, datapaths>>

AddBlockedIp(t, ip) ==
  /\ Begin(t, Log \o <<"flush">> \o Log)
  /\ blocked_ips' = blocked_ips \cup {ip}
  /\ UNCHANGED <<patterns, log_vars, client_vars, datapaths>>

DelBlockedIp(t, ip) ==
  \/ ip \notin blocked_ips /\ Refuse(t)
  \/ /\ ip \in blocked_ips
     /\ Begin(t, Log)
     /\ blocked_ips' = blocked_ips \ {ip}
     /\ UNCHANGED <<patterns, log_vars, client_vars, datapaths>>

\* Only ValueError is caught: when the flush or the log fails the pattern stays.
AddDpiPattern(t, n, body) ==
  \/ AddError(patterns, n, body) # "none" /\ Refuse(t)
  \/ /\ AddError(patterns, n, body) = "none"
     /\ Begin(t, <<"flush">> \o Log \o Log)
     /\ patterns' = WithPattern(patterns, n, body)
     /\ UNCHANGED <<blocked_ips, log_vars, client_vars, datapaths>>

DelDpiPattern(t, n) ==
  \/ RemoveError(patterns, n) # "none" /\ Refuse(t)
  \/ /\ RemoveError(patterns, n) = "none"
     /\ Begin(t, Log)
     /\ patterns' = WithoutPattern(patterns, n)
     /\ UNCHANGED <<blocked_ips, log_vars, client_vars, datapaths>>

Request(t) ==
  \E r \in Requests :
    \/ r.op = "add_blocked_ip"  /\ AddBlockedIp(t, r.ip)
    \/ r.op = "del_blocked_ip"  /\ DelBlockedIp(t, r.ip)
    \/ r.op = "add_dpi_pattern" /\ AddDpiPattern(t, r.name, r.body)
    \/ r.op = "del_dpi_pattern" /\ DelDpiPattern(t, r.name)

\* The event loop handles a packet, whose verdict it logs.
Packet ==
  /\ Begin(LOOP, Log)
  /\ UNCHANGED <<blocked_ips, patterns, log_vars, client_vars, datapaths>>

-----------------------------------------------------------------------------
(* _log and broadcast                                                      *)

\* A mistake: one entry too many is kept.
LastEntriesLate(s) == SubSeq(s, IF Len(s) > LogCap + 1 THEN 2 ELSE 1, Len(s))

\* event_log.pop(0) beyond the cap.
LastEntries(s) == SubSeq(s, IF Len(s) > LogCap THEN 2 ELSE 1, Len(s))

\* A new entry, then the loop over the connections.
AppendEvent(t) ==
  /\ Doing(t, "event") /\ thread[t].at = 0
  /\ logged' = logged + 1
  /\ event_log' = LastEntries(Append(event_log, logged + 1))
  /\ thread' = [thread EXCEPT ![t].at = 1, ![t].event = logged + 1]
  /\ UNCHANGED <<cpu, blocked_ips, patterns, client_vars, datapaths>>

BeginStats(t) ==
  /\ Doing(t, "stats") /\ thread[t].at = 0
  /\ thread' = [thread EXCEPT ![t].at = 1]
  /\ UNCHANGED <<cpu, blocked_ips, patterns, log_vars, client_vars, datapaths>>

Broadcasting(t) == (Doing(t, "event") \/ Doing(t, "stats")) /\ thread[t].at > 0
Waiting(c)      == ToSet(sendlock[c])
Current(t)      == connections[thread[t].at]

\* What client c gets when thread t has sent to it.
Delivered(t, c) ==
  IF Head(thread[t].steps) = "event"
    THEN [received EXCEPT ![c] = Append(@, thread[t].event)] ELSE received

\* The list is read by position.
BroadcastEnds(t) ==
  /\ Broadcasting(t) /\ thread[t].at > Len(connections)
  /\ NextStep(t)
  /\ UNCHANGED <<blocked_ips, patterns, log_vars, client_vars, datapaths>>

SendAtOnce(t) ==
  /\ Broadcasting(t) /\ thread[t].at <= Len(connections)
  /\ client[Current(t)] = "up" /\ sendlock[Current(t)] = <<>>
  /\ received' = Delivered(t, Current(t))
  /\ thread' = [thread EXCEPT ![t].at = @ + 1]
  /\ UNCHANGED <<cpu, blocked_ips, patterns, log_vars, connections, client, sendlock, joined,
                 disturbed, datapaths>>

\* A mistake: a client that is not ready is passed over.
SendWaitsNot(t) ==
  /\ Broadcasting(t) /\ thread[t].at <= Len(connections)
  /\ thread' = [thread EXCEPT ![t].at = @ + 1]
  /\ UNCHANGED <<cpu, blocked_ips, patterns, log_vars, client_vars, datapaths>>

\* The client reads slowly, or another thread is sending to it: t waits.
SendWaits(t) ==
  /\ Broadcasting(t) /\ thread[t].at <= Len(connections)
  /\ sendlock' = [sendlock EXCEPT ![Current(t)] = Append(@, t)]
  /\ cpu' = NoThread
  /\ UNCHANGED <<thread, blocked_ips, patterns, log_vars, connections, client, received,
                 joined, disturbed, datapaths>>

\* An exception in send leaves broadcast, _log and the handler.
Undelivered(t) ==
  IF Head(thread[t].steps) = "event" THEN {thread[t].event} ELSE {}

SendRaises(t) ==
  /\ Broadcasting(t) /\ thread[t].at <= Len(connections)
  /\ client[Current(t)] = "broken" /\ sendlock[Current(t)] = <<>>
  /\ Fails(t)
  /\ disturbed' = disturbed \cup Undelivered(t)
  /\ UNCHANGED <<blocked_ips, patterns, log_vars, connections, client, sendlock, received,
                 joined, datapaths>>

\* A mistake: the last of the waiting threads is served first.
SendDoneUnfair(c) ==
  /\ cpu = NoThread /\ sendlock[c] # <<>> /\ client[c] = "up"
  /\ LET t == sendlock[c][Len(sendlock[c])]
     IN  /\ received' = Delivered(t, c)
         /\ thread' = [thread EXCEPT ![t].at = @ + 1]
         /\ cpu' = t
  /\ sendlock' = [sendlock EXCEPT ![c] = SubSeq(@, 1, Len(@) - 1)]
  /\ UNCHANGED <<blocked_ips, patterns, log_vars, connections, client, joined, disturbed,
                 datapaths>>

\* The send that was waiting completes and its thread goes on; the next in
\* line begins its own.
SendDone(c) ==
  /\ cpu = NoThread /\ sendlock[c] # <<>> /\ client[c] = "up"
  /\ LET t == Head(sendlock[c])
     IN  /\ received' = Delivered(t, c)
         /\ thread' = [thread EXCEPT ![t].at = @ + 1]
         /\ cpu' = t
  /\ sendlock' = [sendlock EXCEPT ![c] = Tail(@)]
  /\ UNCHANGED <<blocked_ips, patterns, log_vars, connections, client, joined, disturbed,
                 datapaths>>

WaitRaises(c) ==
  /\ cpu = NoThread /\ sendlock[c] # <<>> /\ client[c] \in {"broken", "gone"}
  /\ Fails(Head(sendlock[c]))
  /\ disturbed' = disturbed \cup Undelivered(Head(sendlock[c]))
  /\ sendlock' = [sendlock EXCEPT ![c] = Tail(@)]
  /\ UNCHANGED <<blocked_ips, patterns, log_vars, connections, client, received, joined,
                 datapaths>>

-----------------------------------------------------------------------------
(* WebSocket clients                                                       *)

Join(c) ==
  /\ cpu = NoThread /\ client[c] = "new"
  /\ client' = [client EXCEPT ![c] = "up"]
  /\ connections' = Append(connections, c)
  /\ joined' = [joined EXCEPT ![c] = logged]
  /\ UNCHANGED <<cpu, thread, blocked_ips, patterns, log_vars, sendlock, received, disturbed,
                 datapaths>>

\* The peer is gone and the server has not noticed.
Break(c) ==
  /\ cpu = NoThread /\ client[c] = "up"
  /\ client' = [client EXCEPT ![c] = "broken"]
  /\ UNCHANGED <<cpu, thread, blocked_ips, patterns, log_vars, connections, sendlock, received,
                 joined, disturbed, datapaths>>

InBroadcast(t) == Busy(t) /\ Head(thread[t].steps) = "event" /\ thread[t].at > 0

\* The handler of the connection ends and takes it out of the list.
Leave(c) ==
  /\ cpu = NoThread /\ client[c] \in {"up", "broken"}
  /\ client' = [client EXCEPT ![c] = "gone"]
  /\ received' = [received EXCEPT ![c] = <<>>]
  /\ joined' = [joined EXCEPT ![c] = 0]
  /\ connections' = RemoveFirst(connections, c)
  /\ disturbed' = disturbed \cup {thread[t].event : t \in {u \in Threads : InBroadcast(u)}}
  /\ UNCHANGED <<cpu, thread, blocked_ips, patterns, log_vars, sendlock, datapaths>>

-----------------------------------------------------------------------------
(* The flush of every switch                                               *)

BeginFlush(t) ==
  /\ Doing(t, "flush") /\ thread[t].at = 0
  /\ thread' = [thread EXCEPT ![t].at = 1, ![t].size = Len(datapaths)]
  /\ UNCHANGED <<cpu, blocked_ips, patterns, log_vars, client_vars, datapaths>>

InFlush(t) == Doing(t, "flush") /\ thread[t].at > 0 /\ thread[t].target = <<>>

\* A mistake: the loop ends quietly when the dictionary has changed.
FlushRaisesNot(t) ==
  /\ InFlush(t) /\ Len(datapaths) # thread[t].size
  /\ NextStep(t)
  /\ UNCHANGED <<blocked_ips, patterns, log_vars, client_vars, datapaths>>

\* Python checks the size of the dictionary at every step of the loop, the
\* last one included.
FlushRaises(t) ==
  /\ InFlush(t) /\ Len(datapaths) # thread[t].size
  /\ Fails(t)
  /\ UNCHANGED <<blocked_ips, patterns, log_vars, client_vars, datapaths>>

FlushEnds(t) ==
  /\ InFlush(t) /\ Len(datapaths) = thread[t].size /\ thread[t].at > Len(datapaths)
  /\ NextStep(t)
  /\ UNCHANGED <<blocked_ips, patterns, log_vars, client_vars, datapaths>>

FlushTakes(t) ==
  /\ InFlush(t) /\ Len(datapaths) = thread[t].size /\ thread[t].at <= Len(datapaths)
  /\ thread' = [thread EXCEPT ![t].at = @ + 1, ![t].target = <<datapaths[thread[t].at]>>]
  /\ UNCHANGED <<cpu, blocked_ips, patterns, log_vars, client_vars, datapaths>>

\* The messages go to the datapath that the loop has read, whether or not it
\* is still the one of its switch.
FlushSends(t) ==
  /\ Doing(t, "flush") /\ thread[t].target # <<>>
  /\ thread' = [thread EXCEPT ![t].target = <<>>,
                              ![t].flushed = @ \cup {Head(thread[t].target)}]
  /\ UNCHANGED <<cpu, blocked_ips, patterns, log_vars, client_vars, datapaths>>

\* Its send queue is full: t waits and goes on later.
FlushWaits(t) ==
  /\ Doing(t, "flush") /\ thread[t].target # <<>>
  /\ cpu' = NoThread
  /\ UNCHANGED <<thread, blocked_ips, patterns, log_vars, client_vars, datapaths>>

FlushGoesOn(t) ==
  /\ cpu = NoThread /\ Busy(t) /\ thread[t].target # <<>>
  /\ cpu' = t
  /\ UNCHANGED <<thread, blocked_ips, patterns, log_vars, client_vars, datapaths>>

Handshakes == FoldSeq(LAMBDA d, n : d.conn + n, 0, datapaths)

\* switch_handshake_handler on the event loop: a new key goes to the end of the
\* dictionary, a known one keeps its place and gets the new connection.
SwitchHandshake(s) ==
  /\ cpu = NoThread /\ ~Busy(LOOP) /\ Handshakes < MaxHandshakes
  /\ LET known == {i \in DOMAIN datapaths : datapaths[i].id = s}
     IN  IF known = {}
           THEN datapaths' = Append(datapaths, [id |-> s, conn |-> 1])
           ELSE \E i \in known : datapaths' = [datapaths EXCEPT ![i].conn = @ + 1]
  /\ UNCHANGED <<cpu, thread, blocked_ips, patterns, log_vars, client_vars>>

-----------------------------------------------------------------------------

Init ==
  /\ cpu = NoThread
  /\ thread = [t \in Threads |-> Idle("none")]
  /\ blocked_ips = {}
  /\ patterns = BuiltinPatterns
  /\ logged = 0
  /\ event_log = <<>>
  /\ connections = <<>>
  /\ client = [c \in Clients |-> "new"]
  /\ sendlock = [c \in Clients |-> <<>>]
  /\ received = [c \in Clients |-> <<>>]
  /\ joined = [c \in Clients |-> 0]
  /\ disturbed = {}
  /\ datapaths = <<>>

Runs(t) ==
  \/ AppendEvent(t) \/ BeginStats(t) \/ BroadcastEnds(t)
  \/ SendAtOnce(t) \/ SendWaits(t) \/ SendRaises(t)
  \/ BeginFlush(t) \/ FlushRaises(t) \/ FlushEnds(t)
  \/ FlushTakes(t) \/ FlushSends(t) \/ FlushWaits(t) \/ FlushGoesOn(t)

Next ==
  \/ \E t \in RestThreads : Request(t)
  \/ Packet
  \/ \E t \in Threads : Runs(t)
  \/ \E c \in Clients : SendDone(c) \/ WaitRaises(c) \/ Join(c) \/ Break(c) \/ Leave(c)
  \/ \E s \in Switches : SwitchHandshake(s)

Spec == Init /\ [][Next]_vars

-----------------------------------------------------------------------------
(* Properties                                                              *)

\* The types of the variables; event_log holds the latest entries, at most
\* LogCap of them.
TypeOK ==
  /\ cpu \in Threads \cup {NoThread}
  /\ \A t \in Threads : thread[t].answer \in {"none", "ok", "error"}
  /\ ToSet(connections) \subseteq Clients
  /\ client \in [Clients -> {"new", "up", "broken", "gone"}]
  /\ \A c \in Clients : Waiting(c) \subseteq Threads
  /\ event_log = [i \in 1..(IF logged < LogCap THEN logged ELSE LogCap) |->
                    logged - (IF logged < LogCap THEN logged ELSE LogCap) + i]

\* The registry of DPIEngine stays sound under any sequence of requests.
RegistrySound == SoundRegistry(patterns)

\* A client gets no event of _log twice, and gets them in the order of the log,
\* although several threads broadcast at the same time and clients join.  Two
\* events may change places only when both were being broadcast while some
\* client left: its removal moves the clients behind it one place forward, and
\* the later broadcast passes over the one that the earlier is waiting for.
EventsInOrder ==
  \A c \in Clients : \A i, j \in DOMAIN received[c] : i < j =>
    \/ received[c][i] < received[c][j]
    \/ /\ received[c][i] # received[c][j]
       /\ {received[c][i], received[c][j]} \subseteq disturbed

OnItsWay(e) == \E t \in Threads : InBroadcast(t) /\ thread[t].event = e

Missed(c, e) ==
  /\ client[c] = "up"
  /\ e \in (joined[c] + 1)..logged
  /\ e \notin ToSet(received[c])
  /\ ~OnItsWay(e)

\* A client that stays misses an event of _log only when its broadcast was cut
\* short by an exception or another client left in the middle of it.
MissedOnlyWhenDisturbed ==
  \A c \in Clients, e \in 1..MaxEvents : Missed(c, e) => e \in disturbed

\* "Append to event log and broadcast to all WebSocket clients" (_log): a client
\* that stays gets every event.
EveryEventBroadcast ==
  \A c \in Clients, e \in 1..MaxEvents : ~Missed(c, e)

\* A request that adds a rule is answered with ok only when every switch that
\* was registered when it began, and still has the same connection, was sent
\* the deletes of the flush, although switches register in the middle of it.
OkMeansFlushed ==
  [][\A t \in RestThreads :
       thread'[t].answer = "ok" /\ thread[t].answer = "none" /\ thread[t].size > 0
         => thread[t].seen \cap ToSet(datapaths) \subseteq thread[t].flushed]_vars
=============================================================================
