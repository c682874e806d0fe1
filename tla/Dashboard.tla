----------------------------- MODULE Dashboard ------------------------------
(***************************************************************************)
(* One page of the web GUI (firewall_gui.html) and what it shows: the      *)
(* statistics, the event log, the rules and the DPI patterns.  It learns   *)
(* of the firewall in two ways, by messages pushed over a WebSocket, in    *)
(* order and as long as it is open, and by asynchronous calls of the REST  *)
(* API, whose answers come late, in any order or not at all.               *)
(*                                                                         *)
(* The four panels share the WebSocket and nothing else, so a behaviour    *)
(* follows one of them and leaves out the messages and calls of the rest.  *)
(*                                                                         *)
(* On the side of the firewall only what a page can see is kept: how many  *)
(* packets and events there were, and which event was the last to change   *)
(* the list.                                                               *)
(***************************************************************************)
EXTENDS Integers, SequencesExt

CONSTANTS
  Panels,            \* the panels to follow
  FetchCap,          \* entries get_log returns, 100 in the code
  DomCap,            \* entries appendLog keeps, 150 in the code
  MaxStats,          \* bound on the packets
  MaxEvents,         \* bound on the events
  MaxDue,            \* bound on the broadcasts that are under way
  MaxCalls           \* bound on the calls of a kind that are under way

ASSUME DashboardAssumption ==
  /\ Panels \subseteq {"stats", "log", "rules", "dpi"}
  /\ FetchCap \in Nat \ {0}
  /\ DomCap \in Nat /\ DomCap > FetchCap
  /\ MaxStats \in Nat /\ MaxEvents \in Nat /\ MaxDue \in Nat /\ MaxCalls \in Nat

VARIABLES
  panel,             \* the panel that is followed
  stats,             \* the counters of the firewall: packets so far
  events,            \* length of the whole log
  due,               \* logged, and not yet broadcast as far as this page: the
                     \* events, or the counters when each was logged
  list,              \* the last event that changed the list, 0 at first
  ws,                \* closed, connecting, accepted (by the server) or open
  wire,              \* messages pushed and not yet received
  calls,             \* per kind of REST call, those under way, by age
  shown,             \* what the page shows
  log_excused,       \* history: why the last event may not be shown
  list_excused,      \* history: why the list may be out of date
  cleared            \* history: the last event when the log was cleared

firewall_vars == <<stats, events, due, list>>
vars == <<panel, firewall_vars, ws, wire, calls, shown, log_excused, list_excused, cleared>>

\* A call is its answer once the server has given one.
Kinds  == {"stats", "log", "list", "change"}
NotYet == -1
OK     == 1                         \* the change was made
ERROR  == 0                         \* it was refused, with an explanation
NONE   == -1                        \* the list of patterns shows "no patterns"

\* The call that fills the panel.
Fetch == IF panel \in {"stats", "log"} THEN panel ELSE "list"

UnderWay(kind)   == Len(calls[kind])
Unanswered(kind) == {i \in DOMAIN calls[kind] : calls[kind][i] = NotYet}
AnswersOf(kind)  == DOMAIN calls[kind] \ Unanswered(kind)

Calling(kinds) ==
  [k \in Kinds |-> IF k \in kinds THEN Append(calls[k], NotYet) ELSE calls[k]]
Without(kind, i)     == [calls EXCEPT ![kind] = RemoveAt(@, i)]
Answered(kind, i, a) == [calls EXCEPT ![kind][i] = a]

RoomFor(kind) == UnderWay(kind) < MaxCalls
RoomForList   == UnderWay("list") + UnderWay("change") < MaxCalls

-----------------------------------------------------------------------------
(* The firewall                                                            *)

Connected == ws \in {"accepted", "open"}

\* _log appends the event and then broadcasts it and the statistics.  Of the
\* two messages the panel uses one at most.
Used(e, s) == IF panel = "log" THEN <<e>> ELSE IF panel = "stats" THEN <<s>> ELSE <<>>

Logs(s) ==
  /\ events < MaxEvents /\ Len(due) < MaxDue
  /\ events' = events + 1
  /\ due' = due \o Used(events + 1, s)

\* The event as it was logged, or the counters as they were at some moment
\* since: their message is made when the broadcast of the event is over.
Sent(d) ==
  IF panel = "log" THEN {[type |-> "event", data |-> d]}
                   ELSE {[type |-> "stats", data |-> n] : n \in d..stats}

\* A broadcast, which may have waited for an earlier client, comes to this page
\* or finds it not connected.  One may overtake another when a client leaves
\* (Administration).
Push ==
  \E i \in DOMAIN due : \E m \in Sent(due[i]) :
    /\ due' = RemoveAt(due, i)
    /\ wire' = IF Connected THEN Append(wire, m) ELSE wire
    /\ log_excused' = (log_excused \/ (panel = "log" /\ i # 1))
    /\ UNCHANGED <<panel, stats, events, list, ws, calls, shown, list_excused, cleared>>

\* It raises at an earlier client.
PushFails ==
  \E i \in DOMAIN due :
    /\ due' = RemoveAt(due, i)
    /\ log_excused' = (log_excused \/ panel = "log")
    /\ UNCHANGED <<panel, stats, events, list, ws, wire, calls, shown, list_excused, cleared>>

\* A packet that is let through is counted and not logged.
AllowPacket ==
  /\ stats < MaxStats
  /\ stats' = stats + 1
  /\ UNCHANGED <<panel, events, due, list, ws, wire, calls, shown, log_excused, list_excused,
                 cleared>>

BlockPacket ==
  /\ stats < MaxStats
  /\ stats' = stats + 1
  /\ Logs(stats + 1)
  /\ UNCHANGED <<panel, list, ws, wire, calls, shown, log_excused, list_excused, cleared>>

\* Another administrator, or a call of this page whose answer was lost before
\* the server had handled it.
OtherChange ==
  /\ list' = events + 1
  /\ Logs(stats)
  /\ list_excused' = (Fetch = "list")
  /\ UNCHANGED <<panel, stats, ws, wire, calls, shown, log_excused, cleared>>

\* The server handles a call.  An answer that is alone under way, and for the
\* log with no older event behind it, brings the panel up to date.
AnswerStats ==
  /\ \E i \in Unanswered("stats") : calls' = Answered("stats", i, stats)
  /\ UNCHANGED <<panel, firewall_vars, ws, wire, shown, log_excused, list_excused, cleared>>

AnswerLog ==
  /\ \E i \in Unanswered("log") : calls' = Answered("log", i, events)
  /\ log_excused' = (log_excused /\ (UnderWay("log") > 1 \/ wire # <<>> \/ due # <<>>))
  /\ UNCHANGED <<panel, firewall_vars, ws, wire, shown, list_excused, cleared>>

AnswerList ==
  /\ \E i \in Unanswered("list") : calls' = Answered("list", i, list)
  /\ list_excused' = (list_excused /\ UnderWay("list") > 1)
  /\ UNCHANGED <<panel, firewall_vars, ws, wire, shown, log_excused, cleared>>

AnswerChange ==
  /\ \E i \in Unanswered("change") : calls' = Answered("change", i, OK)
  /\ list' = events + 1
  /\ Logs(stats)
  /\ UNCHANGED <<panel, stats, ws, wire, shown, log_excused, list_excused, cleared>>

RefuseChange ==
  /\ \E i \in Unanswered("change") : calls' = Answered("change", i, ERROR)
  /\ UNCHANGED <<panel, firewall_vars, ws, wire, shown, log_excused, list_excused, cleared>>

-----------------------------------------------------------------------------
(* The page: WebSocket                                                     *)

\* The server has added the connection before the page learns that it is open.
Accept ==
  /\ ws = "connecting"
  /\ ws' = "accepted"
  /\ UNCHANGED <<panel, firewall_vars, wire, calls, shown, log_excused, list_excused, cleared>>

\* A mistake: the log is not fetched again.
OpenWithoutLog ==
  /\ ws = "accepted" /\ RoomFor(Fetch) /\ RoomForList
  /\ ws' = "open"
  /\ calls' = Calling({Fetch} \ {"log"})
  /\ list_excused' = (list_excused \/ (Fetch = "list" /\ UnderWay("list") > 0))
  /\ UNCHANGED <<panel, firewall_vars, wire, shown, log_excused, cleared>>

\* onopen fetches what every panel shows.
Open ==
  /\ ws = "accepted" /\ RoomFor(Fetch) /\ RoomForList
  /\ ws' = "open"
  /\ calls' = Calling({Fetch})
  /\ log_excused' = (log_excused \/ (Fetch = "log" /\ UnderWay("log") > 0))
  /\ list_excused' = (list_excused \/ (Fetch = "list" /\ UnderWay("list") > 0))
  /\ cleared' = 0
  /\ UNCHANGED <<panel, firewall_vars, wire, shown>>

\* onclose, also after an attempt that failed; what was on the wire is lost.
Close ==
  /\ ws # "closed"
  /\ ws' = "closed"
  /\ wire' = <<>>
  /\ UNCHANGED <<panel, firewall_vars, calls, shown, log_excused, list_excused, cleared>>

Reconnect ==
  /\ ws = "closed"
  /\ ws' = "connecting"
  /\ UNCHANGED <<panel, firewall_vars, wire, calls, shown, log_excused, list_excused, cleared>>

Latest(n, s) == SubSeq(s, IF Len(s) > n THEN Len(s) - n + 1 ELSE 1, Len(s))

\* A mistake: nothing is removed.
AppendLogUncapped(entries) == [shown EXCEPT !.log = @ \o entries]

AppendLog(entries) == [shown EXCEPT !.log = Latest(DomCap, @ \o entries)]

Receive ==
  /\ ws = "open" /\ wire # <<>>
  /\ wire' = Tail(wire)
  /\ shown' = IF Head(wire).type = "event" THEN AppendLog(<<Head(wire).data>>)
                                           ELSE [shown EXCEPT !.stats = Head(wire).data]
  /\ UNCHANGED <<panel, firewall_vars, ws, calls, log_excused, list_excused, cleared>>

\* The button of the log empties it.
Clear ==
  /\ panel = "log"
  /\ shown' = [shown EXCEPT !.log = <<>>]
  /\ cleared' = events
  /\ UNCHANGED <<panel, firewall_vars, ws, wire, calls, log_excused, list_excused>>

-----------------------------------------------------------------------------
(* The page: REST calls                                                    *)

\* A mistake: the timer runs only while the page is not connected.
PollOffline ==
  /\ panel = "stats" /\ RoomFor("stats") /\ ws # "open"
  /\ calls' = Calling({"stats"})
  /\ UNCHANGED <<panel, firewall_vars, ws, wire, shown, log_excused, list_excused, cleared>>

\* The timer of five seconds.
Poll ==
  /\ panel = "stats" /\ RoomFor("stats")
  /\ calls' = Calling({"stats"})
  /\ UNCHANGED <<panel, firewall_vars, ws, wire, shown, log_excused, list_excused, cleared>>

\* A button of the page adds or removes a rule or a pattern.
Change ==
  /\ Fetch = "list" /\ RoomForList
  /\ calls' = Calling({"change"})
  /\ UNCHANGED <<panel, firewall_vars, ws, wire, shown, log_excused, list_excused, cleared>>

GetsStats ==
  \E i \in AnswersOf("stats") :
    /\ calls' = Without("stats", i)
    /\ shown' = [shown EXCEPT !.stats = calls["stats"][i]]
    /\ UNCHANGED <<panel, firewall_vars, ws, wire, log_excused, list_excused, cleared>>

\* The entries are appended to those that are there.
GetsLog ==
  \E i \in AnswersOf("log") :
    /\ calls' = Without("log", i)
    /\ shown' = AppendLog(Latest(FetchCap, [e \in 1..calls["log"][i] |-> e]))
    /\ UNCHANGED <<panel, firewall_vars, ws, wire, log_excused, list_excused, cleared>>

GetsList ==
  \E i \in AnswersOf("list") :
    /\ calls' = Without("list", i)
    /\ shown' = [shown EXCEPT !.list = calls["list"][i]]
    /\ UNCHANGED <<panel, firewall_vars, ws, wire, log_excused, list_excused, cleared>>

\* A mistake: the page trusts that its change has arrived.
FetchAfterNot(i) ==
  /\ calls' = Without("change", i)
  /\ UNCHANGED list_excused

\* The list is fetched again, after a failure too (rules) or only after
\* success (patterns).
FetchAfter(i) ==
  IF panel = "rules" \/ calls["change"][i] = OK
    THEN /\ calls' = [Calling({"list"}) EXCEPT !["change"] = RemoveAt(@, i)]
         /\ list_excused' = (list_excused \/ UnderWay("list") > 0)
    ELSE /\ calls' = Without("change", i)
         /\ UNCHANGED list_excused

GetsChange ==
  \E i \in AnswersOf("change") :
    /\ FetchAfter(i)
    /\ UNCHANGED <<panel, firewall_vars, ws, wire, shown, log_excused, cleared>>

\* A call fails, handled or not: api returns null.
LosesStats ==
  \E i \in DOMAIN calls["stats"] :
    /\ calls' = Without("stats", i)
    /\ UNCHANGED <<panel, firewall_vars, ws, wire, shown, log_excused, list_excused, cleared>>

LosesLog ==
  \E i \in DOMAIN calls["log"] :
    /\ calls' = Without("log", i)
    /\ log_excused' = TRUE
    /\ UNCHANGED <<panel, firewall_vars, ws, wire, shown, list_excused, cleared>>

\* fetchDPIPatterns shows an empty list then.
LosesList ==
  \E i \in DOMAIN calls["list"] :
    /\ calls' = Without("list", i)
    /\ shown' = IF panel = "dpi" THEN [shown EXCEPT !.list = NONE] ELSE shown
    /\ list_excused' = TRUE
    /\ UNCHANGED <<panel, firewall_vars, ws, wire, log_excused, cleared>>

\* A call that was not handled is a failure to the page; see OtherChange.
LosesChange ==
  \E i \in DOMAIN calls["change"] :
    /\ IF panel = "rules"
         THEN FetchAfter(i)
         ELSE calls' = Without("change", i) /\ list_excused' = TRUE
    /\ UNCHANGED <<panel, firewall_vars, ws, wire, shown, log_excused, cleared>>

-----------------------------------------------------------------------------

\* page_init
Init ==
  /\ panel \in Panels
  /\ stats = 0 /\ events = 0 /\ due = <<>> /\ list = 0
  /\ ws = "connecting"
  /\ wire = <<>>
  /\ calls = [k \in Kinds |-> <<>>]
  /\ shown = [stats |-> 0, log |-> <<>>, list |-> NONE]
  /\ log_excused = FALSE
  /\ list_excused = FALSE
  /\ cleared = 0

Next ==
  \/ AllowPacket \/ BlockPacket \/ OtherChange \/ Push \/ PushFails
  \/ AnswerStats \/ AnswerLog \/ AnswerList \/ AnswerChange \/ RefuseChange
  \/ Accept \/ Open \/ Close \/ Reconnect \/ Receive \/ Clear
  \/ Poll \/ Change
  \/ GetsStats \/ GetsLog \/ GetsList \/ GetsChange
  \/ LosesStats \/ LosesLog \/ LosesList \/ LosesChange

\* The timer of the poll fires again and again, and a poll that is repeated for
\* ever is answered again and again.
Fairness == WF_vars(Poll) /\ SF_vars(AnswerStats) /\ SF_vars(GetsStats)

Spec     == Init /\ [][Next]_vars
FairSpec == Spec /\ Fairness

-----------------------------------------------------------------------------
(* Properties                                                              *)

\* The types of the variables; appendLog keeps at most DomCap entries.
TypeOK ==
  /\ panel \in Panels
  /\ stats \in 0..MaxStats /\ events \in 0..MaxEvents /\ list \in 0..events
  /\ ws \in {"closed", "connecting", "accepted", "open"}
  /\ ~Connected => wire = <<>>
  /\ Len(due) <= MaxDue
  /\ cleared \in 0..events
  /\ \A k \in Kinds : UnderWay(k) <= MaxCalls
  /\ shown.stats \in 0..MaxStats
  /\ shown.list \in {NONE} \cup 0..events
  /\ Len(shown.log) <= DomCap

\* When nothing is on its way to an open page, no broadcast of _log included, it
\* shows the latest event of the log, although events are logged while the
\* connection is down, while it is opened, while the log is fetched and while a
\* broadcast waits for another client.  It may not when the user has cleared the
\* log since that event, when the broadcast of an event failed or was overtaken,
\* when the log could not be fetched or when two fetches of it crossed; the next
\* connection makes up for that.
LatestShown ==
  /\ panel = "log" /\ ws = "open" /\ events > cleared
  /\ due = <<>> /\ wire = <<>> /\ UnderWay("log") = 0
  /\ ~log_excused
  => \E i \in DOMAIN shown.log : shown.log[i] = events

\* When no call about the list is under way on a page that has been open, it
\* shows the list in force, unless somebody else changed it, a call failed, or
\* two fetches crossed (a late answer then overwrites a newer one) and no fetch
\* of it was answered since.
ListShown ==
  Fetch = "list" /\ ws = "open" /\ UnderWay("list") = 0 /\ UnderWay("change") = 0 /\ ~list_excused
    => shown.list = list

\* "Poll stats every 5s (fallback if WS misses)": the counters shown catch up
\* with those of the firewall, although allowed packets push nothing, pushes are
\* lost and old answers arrive after new ones.
StatsCatchUp == panel = "stats" => <>[](shown.stats = stats)
=============================================================================
