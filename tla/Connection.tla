----------------------------- MODULE Connection -----------------------------
(***************************************************************************)
(* One OpenFlow connection of the controller, from the accepted socket to  *)
(* its end: Datapath (controller.py) with its send and its receive loop,   *)
(* the handshake of OFPHandler (ofp_handler.py), which runs on the receive *)
(* loop, and the event queue and loop of the application                   *)
(* (app_manager.py).                                                       *)
(*                                                                         *)
(* Four threads meet here.  The receive loop waits for room in the         *)
(* application's event queue; the application, the receive loop and REST   *)
(* requests wait for a slot of send_q; the send loop waits for the socket; *)
(* the switch stops reading while it cannot write.  Each thread has a list *)
(* of what it still has to do (todo); a thread runs from one place where   *)
(* it may wait to the next without interruption.                           *)
(***************************************************************************)
EXTENDS Naturals, Sequences, FiniteSets

CONSTANTS
  Supported,         \* the OpenFlow versions of the controller as they are
                     \* numbered on the wire: 4 is 1.3, the version of the
                     \* firewall.  Before 1.3 the handshake was a shorter one
  Hellos,            \* the hello messages a switch may begin with
  SendCap,           \* slots of send_q, 16 in the code
  EventCap,          \* slots of the application's event queue, 128
  WireCap            \* messages a direction of the TCP connection holds

Hello == [version : Nat, elements : SUBSET Nat]

ASSUME ConnectionAssumption ==
  /\ Supported \subseteq {v \in Nat : v >= 4} /\ Supported # {} /\ IsFiniteSet(Supported)
  /\ \A h \in Hellos : h \in Hello /\ IsFiniteSet(h.elements)
  /\ SendCap \in Nat \ {0}
  /\ EventCap \in Nat \ {0}
  /\ WireCap \in Nat \ {0}

RECV    == "recv"
APP     == "app"
REST    == "rest"
Threads == {RECV, APP, REST}

\* What goes to the switch, and what the firewall asks of it in a handler.
ToSwitch == {"hello", "hello_failed", "features_request", "port_desc_request",
             "echo_reply", "miss_flow", "punt_flow", "packet_out", "delete"}
\* What comes from it.  Its hello is the first message; a description of the
\* ports that does not fit one reply comes in parts, each but the last with the
\* flag OFPMPF_REPLY_MORE.
PortDesc   == {"port_desc_more", "port_desc_reply"}
FromSwitch == {"hello", "features_reply", "echo_request", "packet_in"} \cup PortDesc
Observed   == {"features_reply", "packet_in"}

Send(m) == [op |-> "send", what |-> m]
Put(e)  == [op |-> "put", what |-> e]
Steps   == [op : {"send"}, what : ToSwitch] \cup [op : {"put"}, what : Observed]

VARIABLES
  state,             \* Datapath.state
  hello,             \* the hello of the switch
  version,           \* the version that set_version chose, 0 before
  send_q,
  accepting,         \* self.send_q is not None
  sem,               \* counter of _send_q_sem
  waiters,           \* threads that wait for the semaphore, in order
  wakes,             \* wake-ups that releases have scheduled in the hub
  in_hand,           \* the message the send loop is writing, if any
  to_switch,         \* written and not yet read by the switch
  to_controller,     \* sent by the switch and not yet read
  peer,              \* the switch's end of the connection is open
  owed,              \* the answer the switch has still to write
  receiving,         \* the receive loop runs
  todo,              \* per thread: what it has still to do
  events,            \* the application's event queue
  registered         \* the application has the datapath in self.datapaths

queue_vars == <<send_q, accepting, sem, waiters, wakes>>
vars == <<state, hello, version, queue_vars, in_hand, to_switch, to_controller,
          peer, owed, receiving, todo, events, registered>>

-----------------------------------------------------------------------------
(* The version of the connection: hello_handler                            *)

Highest(S)   == CHOOSE v \in S : \A w \in S : w <= v
Lower(a, b)  == IF a <= b THEN a ELSE b
OFP_VERSION  == Highest(Supported)

\* A hello that lists versions is taken by its list, another one by its number.
Usable(h) ==
  IF h.elements # {} THEN h.elements \cap Supported
                     ELSE {v \in Supported : v <= h.version}

\* The connection goes on only when the version to use is the one that the
\* handler supposes the switch to have chosen.
Compatible(h) ==
  /\ Usable(h) # {}
  /\ Highest(Usable(h)) =
       IF h.elements # {} THEN Highest({v \in h.elements : v <= OFP_VERSION})
                          ELSE Lower(h.version, OFP_VERSION)

-----------------------------------------------------------------------------
(* Datapath.send and the semaphore of its queue                            *)

Free == waiters = <<>>

\* Releasing n slots schedules a wake-up for each when threads wait.
Release(n) ==
  /\ sem' = sem + n
  /\ wakes' = IF Free THEN wakes ELSE wakes + n

Sends(t) == todo[t] # <<>> /\ Head(todo[t]).op = "send"
Waits(t) == \E i \in DOMAIN waiters : waiters[i] = t

\* A slot is free and nobody waits for it: the message is queued, or dropped
\* and the slot given back when the send loop has ended.
SendNow(t) ==
  /\ Sends(t) /\ ~Waits(t)
  /\ sem > 0 /\ Free
  /\ IF accepting
       THEN /\ send_q' = Append(send_q, Head(todo[t]).what)
            /\ sem' = sem - 1
       ELSE UNCHANGED <<send_q, sem>>
  /\ todo' = [todo EXCEPT ![t] = Tail(@)]
  /\ UNCHANGED <<state, hello, version, accepting, waiters, wakes, in_hand, to_switch,
                 to_controller, peer, owed, receiving, events, registered>>

SendWait(t) ==
  /\ Sends(t) /\ ~Waits(t)
  /\ sem = 0 \/ ~Free
  /\ waiters' = Append(waiters, t)
  /\ UNCHANGED <<state, hello, version, send_q, accepting, sem, wakes, in_hand, to_switch,
                 to_controller, peer, owed, receiving, todo, events, registered>>

\* A mistake: a thread that drops its message wakes nobody.
WakeForgets ==
  /\ wakes > 0
  /\ wakes' = wakes - 1
  /\ IF Free \/ sem = 0
       THEN UNCHANGED <<send_q, sem, waiters, todo>>
       ELSE /\ waiters' = Tail(waiters)
            /\ todo' = [todo EXCEPT ![Head(waiters)] = Tail(@)]
            /\ IF accepting
                 THEN /\ send_q' = Append(send_q, Head(todo[Head(waiters)]).what)
                      /\ sem' = sem - 1
                 ELSE UNCHANGED <<send_q, sem>>
  /\ UNCHANGED <<state, hello, version, accepting, in_hand, to_switch, to_controller, peer,
                 owed, receiving, events, registered>>

\* The hub carries out a wake-up: the first of the waiting threads goes on
\* with its send.  When it drops its message, giving the slot back wakes the
\* next one.
Wake ==
  /\ wakes > 0
  /\ IF Free \/ sem = 0
       THEN /\ wakes' = wakes - 1
            /\ UNCHANGED <<send_q, sem, waiters, todo>>
       ELSE /\ waiters' = Tail(waiters)
            /\ todo' = [todo EXCEPT ![Head(waiters)] = Tail(@)]
            /\ IF accepting
                 THEN /\ send_q' = Append(send_q, Head(todo[Head(waiters)]).what)
                      /\ sem' = sem - 1
                      /\ wakes' = wakes - 1
                 ELSE /\ wakes' = IF Tail(waiters) = <<>> THEN wakes - 1 ELSE wakes
                      /\ UNCHANGED <<send_q, sem>>
  /\ UNCHANGED <<state, hello, version, accepting, in_hand, to_switch, to_controller, peer,
                 owed, receiving, events, registered>>

-----------------------------------------------------------------------------
(* The send loop                                                           *)

\* A mistake: the slot is released after the message has been written.
TakeMessageHoldingSlot ==
  /\ accepting /\ in_hand = <<>> /\ send_q # <<>>
  /\ in_hand' = <<Head(send_q)>>
  /\ send_q' = Tail(send_q)
  /\ UNCHANGED <<state, hello, version, accepting, sem, waiters, wakes, to_switch,
                 to_controller, peer, owed, receiving, todo, events, registered>>

TakeMessage ==
  /\ accepting /\ in_hand = <<>> /\ send_q # <<>>
  /\ in_hand' = <<Head(send_q)>>
  /\ send_q' = Tail(send_q)
  /\ Release(1)
  /\ UNCHANGED <<state, hello, version, accepting, waiters, to_switch, to_controller, peer,
                 owed, receiving, todo, events, registered>>

\* The finally clause: no more messages, a slot released for each one that is
\* still queued, and the write half of the socket closed.
EndSendLoop ==
  /\ accepting' = FALSE
  /\ send_q' = <<>>
  /\ in_hand' = <<>>
  /\ Release(Len(send_q))
  /\ UNCHANGED waiters

RoomToSwitch == Len(to_switch) < WireCap

WriteMessage ==
  /\ in_hand # <<>> /\ in_hand # <<"hello_failed">>
  /\ peer /\ RoomToSwitch
  /\ to_switch' = to_switch \o in_hand
  /\ in_hand' = <<>>
  /\ UNCHANGED <<state, hello, version, queue_vars, to_controller, peer, owed, receiving,
                 todo, events, registered>>

\* A message sent with close_socket is the last one.
WriteAndClose ==
  /\ in_hand = <<"hello_failed">>
  /\ peer /\ RoomToSwitch
  /\ to_switch' = to_switch \o in_hand
  /\ EndSendLoop
  /\ UNCHANGED <<state, hello, version, to_controller, peer, owed, receiving, todo, events,
                 registered>>

\* A mistake: the socket has no timeout.
SendFailsClosedOnly ==
  /\ in_hand # <<>>
  /\ ~peer
  /\ EndSendLoop
  /\ UNCHANGED <<state, hello, version, to_switch, to_controller, peer, owed, receiving,
                 todo, events, registered>>

\* A mistake: the loop goes on after a timeout, without the message.
SendFailsAndGoesOn ==
  /\ in_hand # <<>>
  /\ IF peer THEN ~RoomToSwitch /\ in_hand' = <<>> /\ UNCHANGED queue_vars
             ELSE EndSendLoop
  /\ UNCHANGED <<state, hello, version, to_switch, to_controller, peer, owed, receiving,
                 todo, events, registered>>

\* sendall raises: the switch does not read for as long as the socket's
\* timeout, or has closed the connection.
SendFails ==
  /\ in_hand # <<>>
  /\ ~peer \/ ~RoomToSwitch
  /\ EndSendLoop
  /\ UNCHANGED <<state, hello, version, to_switch, to_controller, peer, owed, receiving,
                 todo, events, registered>>

-----------------------------------------------------------------------------
(* The receive loop and the handlers of OFPHandler                         *)

\* A mistake: the ports are not asked for.
ReactionWithoutPorts(m) ==
  CASE m = "features_reply" /\ state = "CONFIG" -> <<Put("features_reply")>>
    [] m = "packet_in" /\ state = "MAIN" -> <<Put("packet_in")>>
    [] m = "echo_request" -> <<Send("echo_reply")>>
    [] OTHER -> <<>>

\* What the receive loop does with a message in the state the connection is
\* in: an event for the application where it observes one, then the handler.
Reaction(m) ==
  CASE m = "features_reply" /\ state = "CONFIG" ->
         <<Put("features_reply"), Send("port_desc_request")>>
    [] m = "packet_in" /\ state = "MAIN" -> <<Put("packet_in")>>
    [] m = "echo_request" -> <<Send("echo_reply")>>
    [] OTHER -> <<>>

CanReceive == receiving /\ todo[RECV] = <<>> /\ to_controller # <<>>

ReceiveHello ==
  /\ CanReceive /\ Head(to_controller) = "hello" /\ state = "HANDSHAKE"
  /\ IF Compatible(hello)
       THEN /\ version' = Highest(Usable(hello))
            /\ state' = "CONFIG"
            /\ todo' = [todo EXCEPT ![RECV] = <<Send("features_request")>>]
       ELSE /\ todo' = [todo EXCEPT ![RECV] = <<Send("hello_failed")>>]
            /\ UNCHANGED <<version, state>>
  /\ to_controller' = Tail(to_controller)
  /\ UNCHANGED <<hello, queue_vars, in_hand, to_switch, peer, owed, receiving, events,
                 registered>>

\* The last part of the description of the ports completes the handshake.
ReceivePortDesc ==
  /\ CanReceive /\ Head(to_controller) \in PortDesc
  /\ state' = IF state = "CONFIG" /\ Head(to_controller) = "port_desc_reply"
              THEN "MAIN" ELSE state
  /\ to_controller' = Tail(to_controller)
  /\ UNCHANGED <<hello, version, queue_vars, in_hand, to_switch, peer, owed, receiving, todo,
                 events, registered>>

\* A mistake: events are queued whatever the state of the connection.
ReceiveOtherAlways ==
  /\ CanReceive /\ Head(to_controller) \notin {"hello"} \cup PortDesc
  /\ todo' = [todo EXCEPT ![RECV] =
                IF Head(to_controller) = "packet_in" THEN <<Put("packet_in")>>
                ELSE Reaction(Head(to_controller))]
  /\ to_controller' = Tail(to_controller)
  /\ UNCHANGED <<state, hello, version, queue_vars, in_hand, to_switch, peer, owed,
                 receiving, events, registered>>

ReceiveOther ==
  /\ CanReceive /\ Head(to_controller) \notin {"hello"} \cup PortDesc
  /\ todo' = [todo EXCEPT ![RECV] = Reaction(Head(to_controller))]
  /\ to_controller' = Tail(to_controller)
  /\ UNCHANGED <<state, hello, version, queue_vars, in_hand, to_switch, peer, owed,
                 receiving, events, registered>>

\* A mistake: the queue of events has no limit.
PutEventUnbounded ==
  /\ todo[RECV] # <<>> /\ Head(todo[RECV]).op = "put"
  /\ events' = Append(events, Head(todo[RECV]).what)
  /\ todo' = [todo EXCEPT ![RECV] = Tail(@)]
  /\ UNCHANGED <<state, hello, version, queue_vars, in_hand, to_switch, to_controller, peer,
                 owed, receiving, registered>>

\* _send_event of the application: waits for room in its queue.
PutEvent ==
  /\ todo[RECV] # <<>> /\ Head(todo[RECV]).op = "put"
  /\ Len(events) < EventCap
  /\ events' = Append(events, Head(todo[RECV]).what)
  /\ todo' = [todo EXCEPT ![RECV] = Tail(@)]
  /\ UNCHANGED <<state, hello, version, queue_vars, in_hand, to_switch, to_controller, peer,
                 owed, receiving, registered>>

\* recv returns nothing: the loop ends and the socket is closed.
EndReceiveLoop ==
  /\ receiving /\ todo[RECV] = <<>> /\ to_controller = <<>> /\ ~peer
  /\ receiving' = FALSE
  /\ UNCHANGED <<state, hello, version, queue_vars, in_hand, to_switch, to_controller, peer,
                 owed, todo, events, registered>>

\* serve() kills the send loop, whose finally clause runs.
KillSendLoop ==
  /\ ~receiving /\ accepting
  /\ EndSendLoop
  /\ UNCHANGED <<state, hello, version, to_switch, to_controller, peer, owed, receiving,
                 todo, events, registered>>

CloseDatapath ==
  /\ ~receiving /\ ~accepting /\ state # "DEAD"
  /\ state' = "DEAD"
  /\ UNCHANGED <<hello, version, queue_vars, in_hand, to_switch, to_controller, peer, owed,
                 receiving, todo, events, registered>>

-----------------------------------------------------------------------------
(* The event loop of the application, and REST requests                    *)

\* switch_handshake_handler sends two rules; a packet is answered with a
\* packet-out or dropped.
Handler(ev) ==
  IF ev = "features_reply" THEN {<<Send("miss_flow"), Send("punt_flow")>>}
                           ELSE {<<>>, <<Send("packet_out")>>}

TakeEvent ==
  /\ todo[APP] = <<>> /\ events # <<>>
  /\ \E steps \in Handler(Head(events)) : todo' = [todo EXCEPT ![APP] = steps]
  /\ events' = Tail(events)
  /\ registered' = (registered \/ Head(events) = "features_reply")
  /\ UNCHANGED <<state, hello, version, queue_vars, in_hand, to_switch, to_controller, peer,
                 owed, receiving>>

\* A request that flushes sends to the connection it finds registered, which
\* may have ended.
RestRequest ==
  /\ registered /\ todo[REST] = <<>>
  /\ todo' = [todo EXCEPT ![REST] = <<Send("delete")>>]
  /\ UNCHANGED <<state, hello, version, queue_vars, in_hand, to_switch, to_controller, peer,
                 owed, receiving, events, registered>>

-----------------------------------------------------------------------------
(* The switch                                                              *)

Answers(m) ==
  CASE m = "features_request"  -> {<<"features_reply">>}
    [] m = "port_desc_request" -> {<<"port_desc_reply">>,
                                   <<"port_desc_more", "port_desc_reply">>}
    [] OTHER                   -> {<<>>}

\* It handles one message at a time, and none while it owes an answer.
SwitchReads ==
  /\ peer /\ owed = <<>> /\ to_switch # <<>>
  /\ owed' \in Answers(Head(to_switch))
  /\ to_switch' = Tail(to_switch)
  /\ UNCHANGED <<state, hello, version, queue_vars, in_hand, to_controller, peer, receiving,
                 todo, events, registered>>

SwitchAnswers ==
  /\ peer /\ owed # <<>> /\ Len(to_controller) < WireCap
  /\ to_controller' = Append(to_controller, Head(owed))
  /\ owed' = Tail(owed)
  /\ UNCHANGED <<state, hello, version, queue_vars, in_hand, to_switch, peer, receiving,
                 todo, events, registered>>

SwitchSends ==
  /\ peer /\ owed = <<>> /\ Len(to_controller) < WireCap
  /\ \E m \in {"echo_request", "packet_in"} : to_controller' = Append(to_controller, m)
  /\ UNCHANGED <<state, hello, version, queue_vars, in_hand, to_switch, peer, owed,
                 receiving, todo, events, registered>>

\* It closes its end when it has read the end of the controller's stream.
SwitchCloses ==
  /\ peer /\ ~accepting /\ to_switch = <<>>
  /\ peer' = FALSE
  /\ owed' = <<>>
  /\ UNCHANGED <<state, hello, version, queue_vars, in_hand, to_switch, to_controller,
                 receiving, todo, events, registered>>

\* It fails, or the network does: what it had not read is lost, and what it
\* had sent may be.
SwitchFails ==
  /\ peer
  /\ peer' = FALSE
  /\ to_switch' = <<>>
  /\ owed' = <<>>
  /\ to_controller' \in {to_controller, <<>>}
  /\ UNCHANGED <<state, hello, version, queue_vars, in_hand, receiving, todo, events,
                 registered>>

-----------------------------------------------------------------------------

\* __init__ and the beginning of serve(), which sends the hello.
Init ==
  /\ state = "HANDSHAKE"
  /\ hello \in Hellos
  /\ version = 0
  /\ send_q = <<"hello">>
  /\ accepting = TRUE
  /\ sem = SendCap - 1
  /\ waiters = <<>>
  /\ wakes = 0
  /\ in_hand = <<>>
  /\ to_switch = <<>>
  /\ to_controller = <<"hello">>
  /\ peer = TRUE
  /\ owed = <<>>
  /\ receiving = TRUE
  /\ todo = [t \in Threads |-> <<>>]
  /\ events = <<>>
  /\ registered = FALSE

SendLoop == TakeMessage \/ WriteMessage \/ WriteAndClose \/ SendFails
RecvLoop == ReceiveHello \/ ReceivePortDesc \/ ReceiveOther \/ PutEvent \/ EndReceiveLoop
Switch   == SwitchReads \/ SwitchAnswers \/ SwitchCloses

Next ==
  \/ \E t \in Threads : SendNow(t) \/ SendWait(t)
  \/ Wake
  \/ SendLoop
  \/ RecvLoop
  \/ KillSendLoop \/ CloseDatapath
  \/ TakeEvent \/ RestRequest
  \/ Switch \/ SwitchSends \/ SwitchFails

\* The hub runs every thread that can go on, a socket operation ends within
\* its timeout, and a switch that is up serves its connection.  Nothing is
\* assumed of its traffic, its failures or of REST requests.
Fairness ==
  /\ \A t \in Threads : WF_vars(SendNow(t) \/ SendWait(t))
  /\ WF_vars(Wake)
  /\ WF_vars(SendLoop)
  /\ WF_vars(RecvLoop)
  /\ WF_vars(KillSendLoop)
  /\ WF_vars(CloseDatapath)
  /\ WF_vars(TakeEvent)
  /\ WF_vars(Switch)

Spec     == Init /\ [][Next]_vars
FairSpec == Spec /\ Fairness

-----------------------------------------------------------------------------
(* Properties                                                              *)

\* The types of the variables and the limits of the queues.
TypeOK ==
  /\ state \in {"HANDSHAKE", "CONFIG", "MAIN", "DEAD"}
  /\ hello \in Hellos
  /\ version \in Supported \cup {0}
  /\ send_q \in Seq(ToSwitch) /\ Len(send_q) <= SendCap
  /\ accepting \in BOOLEAN
  /\ sem \in 0..SendCap
  /\ waiters \in Seq(Threads) /\ Len(waiters) <= Cardinality(Threads)
  /\ wakes \in Nat
  /\ in_hand \in Seq(ToSwitch) /\ Len(in_hand) <= 1
  /\ to_switch \in Seq(ToSwitch) /\ Len(to_switch) <= WireCap
  /\ to_controller \in Seq(FromSwitch) /\ Len(to_controller) <= WireCap
  /\ peer \in BOOLEAN
  /\ owed \in Seq(FromSwitch) /\ Len(owed) <= 2
  /\ receiving \in BOOLEAN
  /\ todo \in [Threads -> Seq(Steps)]
  /\ events \in Seq(Observed) /\ Len(events) <= EventCap
  /\ registered \in BOOLEAN

\* Every slot of send_q is free or holds a message: whatever becomes of the
\* connection, the drain of _send_loop and the threads that find the queue gone
\* give back exactly the slots that were taken.  One release too many would
\* raise an error in the bounded semaphore, one too few block a sender for good.
SlotsAccounted == sem + Len(send_q) = SendCap

\* "This should release all threads waiting to acquire the semaphore" (the drain
\* of _send_loop): while a thread waits, a wake-up is due for every free slot.
NoForgottenWaiter == waiters # <<>> => wakes >= sem

\* The application knows of a switch before it gets a packet of it: the event of
\* the features reply is handled before every packet-in, although packets may
\* arrive on the connection before the handshake is over.
FeaturesFirst ==
  \A i \in DOMAIN events : events[i] = "packet_in" =>
    registered \/ \E j \in 1..(i - 1) : events[j] = "features_reply"

\* What Datapath.send accepts reaches the switch in order and without a gap,
\* up to a point after the connection has ended: the connection implements Link.
L == INSTANCE Link WITH
       Messages <- ToSwitch,
       transit  <- IF peer THEN to_switch \o in_hand \o send_q ELSE <<>>,
       open     <- accepting /\ peer
ImplementsLink == L!Spec

\* Every thread gets through: no call of Datapath.send and no event put by the
\* receive loop waits for good, although the application, the send loop, the
\* switch and the receive loop can all wait for one another in a circle.
EveryThreadReturns == \A t \in Threads : (todo[t] # <<>>) ~> (todo[t] = <<>>)

\* A connection gets through the handshake or ends.
HandshakeEnds == state = "HANDSHAKE" ~> (state = "MAIN" \/ ~accepting)
=============================================================================
