----------------------------- MODULE RateLimiter -----------------------------
(***************************************************************************)
(* The rate limiter of FirewallApp: _check_ip_rate_limit, which keeps a    *)
(* deque of timestamps per source, and the REST request set_rate_limit,    *)
(* which changes the limit and the window while packets arrive.  Neither   *)
(* blocks between its reads and its writes, so each is one step.           *)
(*                                                                         *)
(* time.time() follows the wall clock: it advances, and it is set back     *)
(* when the clock is corrected.  Time is counted in ticks, Second of them  *)
(* to a second, because timestamps are fractions and the window is not.    *)
(*                                                                         *)
(* Firewall leaves the limiter's verdict open; this module is about which  *)
(* verdict it is.                                                          *)
(***************************************************************************)
EXTENDS Integers, Sequences, FiniteSets

CONSTANTS
  Ips,               \* the sources
  Second,            \* ticks in a second
  DefaultLimit,      \* rate_limit of a new application, 1000 in the code
  DefaultWindow,     \* rate_window of a new application, in seconds
  LimitFields,       \* what a request may hold under 'limit'
  WindowFields,      \* what a request may hold under 'window', in ticks
  Absent,            \* the request does not name the field
  Bad,               \* int() raises for the field
  MaxTime,           \* bound on the clock
  MaxPassed,         \* bound on the packets of a source that pass
  MaxSetBack         \* bound on what the clock is set back in all

ASSUME LimiterAssumption ==
  /\ Second \in Nat \ {0}
  /\ DefaultLimit \in Int
  /\ DefaultWindow \in Int
  /\ MaxTime \in Nat
  /\ MaxPassed \in Nat
  /\ MaxSetBack \in Nat
  /\ LimitFields \subseteq Int \cup {Absent, Bad}
  /\ WindowFields \subseteq Int \cup {Absent, Bad}
  /\ Absent \notin Int
  /\ Bad \notin Int

VARIABLES
  now,               \* time.time()
  rate_tracker,      \* the deque of each source
  rate_limit,
  rate_window,       \* in ticks
  passed,            \* history: when the packets of a source passed
  horizon,           \* history: up to here a check may have popped timestamps
  settled,           \* history: the clock when it was last set back, at most;
                     \* -1 when it never was
  silent,            \* history: ticks since a packet of the source last passed
  set_back           \* history: what the clock was set back in all

vars == <<now, rate_tracker, rate_limit, rate_window, passed, horizon, settled, silent,
          set_back>>

Larger(a, b) == IF a >= b THEN a ELSE b

-----------------------------------------------------------------------------
(* _check_ip_rate_limit                                                    *)

\* A timestamp that the loop at the head of the deque does not pop.
InWindow(t) == now - t < rate_window

\* A mistake: a timestamp as old as the window is kept.
TrimmedLate(tracker) ==
  LET gone == {i \in DOMAIN tracker : \A j \in 1..i : now - tracker[j] > rate_window}
  IN  SubSeq(tracker, Cardinality(gone) + 1, Len(tracker))

\* What is left when the loop has popped every timestamp before the first one
\* inside the window.
Trimmed(tracker) ==
  LET kept(i) == \E j \in 1..i : InWindow(tracker[j])
      gone    == {i \in DOMAIN tracker : ~kept(i)}
  IN  SubSeq(tracker, Cardinality(gone) + 1, Len(tracker))

\* Mistakes: one packet too many, and a deque that is not trimmed.
OverLimitByOne(ip) == Len(Trimmed(rate_tracker[ip])) > rate_limit
OverLimitUntrimmed(ip) == Len(rate_tracker[ip]) >= rate_limit

\* The test of the code, on the trimmed deque.
OverLimit(ip) == Len(Trimmed(rate_tracker[ip])) >= rate_limit

\* The check of one packet: trim, then refuse it or record it.
Refuse(ip) ==
  /\ OverLimit(ip)
  /\ rate_tracker' = [rate_tracker EXCEPT ![ip] = Trimmed(@)]
  /\ horizon' = [horizon EXCEPT ![ip] = Larger(@, now - rate_window)]
  /\ UNCHANGED <<now, rate_limit, rate_window, passed, settled, silent, set_back>>

Pass(ip) ==
  /\ ~OverLimit(ip)
  /\ Len(passed[ip]) < MaxPassed
  /\ rate_tracker' = [rate_tracker EXCEPT ![ip] = Append(Trimmed(@), now)]
  /\ passed' = [passed EXCEPT ![ip] = Append(@, now)]
  /\ horizon' = [horizon EXCEPT ![ip] = Larger(@, now - rate_window)]
  /\ silent' = [silent EXCEPT ![ip] = 0]
  /\ UNCHANGED <<now, rate_limit, rate_window, settled, set_back>>

-----------------------------------------------------------------------------
(* set_rate_limit                                                          *)

\* int() of a number of ticks, in whole seconds: it drops the fraction.
WholeSeconds(v) == IF v >= 0 THEN (v \div Second) * Second
                             ELSE -(((-v) \div Second) * Second)

\* A mistake: the fields are not converted.
SetRateLimitUnparsed(limit, window) ==
  /\ rate_limit' = limit
  /\ rate_window' = window
  /\ UNCHANGED <<now, rate_tracker, passed, horizon, settled, silent, set_back>>

\* The limit is assigned before the window is read: a request whose window is
\* bad has changed the limit when it fails.
SetRateLimit(limit, window) ==
  /\ rate_limit' = IF limit \in {Absent, Bad} THEN rate_limit ELSE limit
  /\ rate_window' = IF limit = Bad \/ window \in {Absent, Bad} THEN rate_window
                    ELSE WholeSeconds(window)
  /\ UNCHANGED <<now, rate_tracker, passed, horizon, settled, silent, set_back>>

-----------------------------------------------------------------------------
(* The clock                                                               *)

Tick ==
  /\ now < MaxTime
  /\ now' = now + 1
  /\ silent' = [ip \in Ips |-> silent[ip] + 1]
  /\ UNCHANGED <<rate_tracker, rate_limit, rate_window, passed, horizon, settled, set_back>>

ClockSetBack ==
  /\ \E d \in 1..(MaxSetBack - set_back) :
       d <= now /\ now' = now - d /\ set_back' = set_back + d
  /\ settled' = Larger(settled, now)
  /\ UNCHANGED <<rate_tracker, rate_limit, rate_window, passed, horizon, silent>>

-----------------------------------------------------------------------------

Init ==
  /\ now = 0
  /\ rate_tracker = [ip \in Ips |-> <<>>]
  /\ rate_limit = DefaultLimit
  /\ rate_window = DefaultWindow * Second
  /\ passed = [ip \in Ips |-> <<>>]
  /\ horizon = [ip \in Ips |-> -(DefaultWindow * Second)]
  /\ settled = -1
  /\ silent = [ip \in Ips |-> 0]
  /\ set_back = 0

Next ==
  \/ \E ip \in Ips : Refuse(ip) \/ Pass(ip)
  \/ \E limit \in LimitFields, window \in WindowFields : SetRateLimit(limit, window)
  \/ Tick
  \/ ClockSetBack

Spec == Init /\ [][Next]_vars

-----------------------------------------------------------------------------
(* What the docstring promises: "check the number of timestamps in the     *)
(* time window".  Recent is that number's definition from the history of   *)
(* what passed, independent of the deque.  A timestamp later than the      *)
(* clock, which a clock that is set back leaves behind, counts as recent:  *)
(* the difference that the code compares is negative.                      *)

Recent(ip) == {i \in DOMAIN passed[ip] : now - passed[ip][i] < rate_window}

\* The types of the variables.
TypeOK ==
  /\ now \in 0..MaxTime
  /\ rate_tracker \in [Ips -> Seq(Nat)]
  /\ rate_limit \in Int
  /\ rate_window \in Int
  /\ passed \in [Ips -> Seq(Nat)]
  /\ horizon \in [Ips -> Int]
  /\ settled \in -1..MaxTime
  /\ silent \in [Ips -> Nat]
  /\ set_back \in 0..MaxSetBack

\* No undercount: a packet that _check_ip_rate_limit would let through now has
\* fewer than rate_limit packets of its source in the window before it.  The
\* deque forgets what a wider window or an earlier clock brings back, so this
\* is said of the moments at which nothing behind the horizon is in the window;
\* these come back by themselves once time has passed.
NoUndercount ==
  \A ip \in Ips : horizon[ip] <= now - rate_window /\ ~OverLimit(ip)
                    => Cardinality(Recent(ip)) < rate_limit

\* No overcount: a packet that _check_ip_rate_limit would refuse now has at
\* least rate_limit packets in the window.  Popping from the head only is
\* enough while the deque is in order, which a clock that is set back disturbs
\* until it is a window past where it had been.
NoOvercount ==
  \A ip \in Ips : (settled < 0 \/ now >= settled + rate_window) /\ OverLimit(ip)
                    => Cardinality(Recent(ip)) >= rate_limit

\* A refusal does not outlast the silence of its source by more than the clock
\* was set back: when nothing of a source has passed for a window and as long
\* again as the clock was set back in all, _check_ip_rate_limit lets its next
\* packet through, unless the limit itself is zero or negative.  A window of
\* silence alone is not enough: a timestamp from before the clock was set back
\* stays at the head of the deque, and keeps those behind it, until the clock
\* is a window past it.
SilenceHeals ==
  \A ip \in Ips : rate_limit > 0 /\ silent[ip] >= rate_window + set_back
                    => ~OverLimit(ip)
=============================================================================
