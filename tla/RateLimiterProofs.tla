-------------------------- MODULE RateLimiterProofs --------------------------
(***************************************************************************)
(* Proofs about RateLimiter, for every number of sources, every setting    *)
(* and every course of the clock.                                          *)
(***************************************************************************)
EXTENDS RateLimiter, FiniteSetTheorems, SequenceTheorems, TLAPS

-----------------------------------------------------------------------------
(* What the loop at the head of the deque removes.                         *)

\* Trimming removes the k timestamps before the first one inside the window.
RemovesFirst(tracker, k) ==
  /\ Trimmed(tracker) \in Seq(Nat)
  /\ Len(Trimmed(tracker)) = Len(tracker) - k
  /\ \A i \in 1..(Len(tracker) - k) : Trimmed(tracker)[i] = tracker[k + i]
  /\ \A i \in 1..k : ~InWindow(tracker[i])
  /\ k < Len(tracker) => InWindow(tracker[k + 1])

LEMMA SubSeqFrom ==
  ASSUME NEW s \in Seq(Nat), NEW k \in 0..Len(s)
  PROVE  /\ SubSeq(s, k + 1, Len(s)) \in Seq(Nat)
         /\ Len(SubSeq(s, k + 1, Len(s))) = Len(s) - k
         /\ \A i \in 1..(Len(s) - k) : SubSeq(s, k + 1, Len(s))[i] = s[k + i]
OBVIOUS

(* A set of positions that contains every position before one of its own   *)
(* is an interval: as many positions as it has, from the first on.         *)
LEMMA DownwardClosed ==
  ASSUME NEW n \in Nat, NEW S \in SUBSET (1..n),
         \A i \in S : \A j \in 1..i : j \in S
  PROVE  /\ Cardinality(S) \in 0..n
         /\ S = 1..Cardinality(S)
<1> DEFINE k == Cardinality(S)
<1>1. IsFiniteSet(1..n) /\ Cardinality(1..n) = n
  BY FS_Interval
<1>2. IsFiniteSet(S) /\ k <= n
  BY <1>1, FS_Subset
<1>3. k \in Nat
  BY <1>2, FS_CardinalityType
<1>4. IsFiniteSet(1..k) /\ Cardinality(1..k) = k
  BY <1>3, FS_Interval
<1>5. ASSUME NEW i \in S PROVE i <= k
  <2>1. (1..i) \in SUBSET S
    OBVIOUS
  <2>2. Cardinality(1..i) = i
    BY FS_Interval
  <2> QED
    BY <2>1, <2>2, <1>2, FS_Subset
<1>6. S \in SUBSET (1..k)
  BY <1>5, <1>3
<1>7. S = 1..k
  BY <1>4, <1>6, FS_Subset
<1> QED
  BY <1>2, <1>3, <1>7

LEMMA TrimmedRemovesFirst ==
  ASSUME NEW tracker \in Seq(Nat), now \in Int, rate_window \in Int
  PROVE  \E k \in 0..Len(tracker) : RemovesFirst(tracker, k)
<1> DEFINE gone == {i \in DOMAIN tracker : ~(\E j \in 1..i : InWindow(tracker[j]))}
           k    == Cardinality(gone)
<1>1. DOMAIN tracker = 1..Len(tracker) /\ Len(tracker) \in Nat
  OBVIOUS
<1>2. gone \in SUBSET (1..Len(tracker))
  BY <1>1
<1>3. \A i \in gone : \A j \in 1..i : j \in gone
  BY <1>1
<1> HIDE DEF gone
<1>4. k \in 0..Len(tracker) /\ gone = 1..k
  BY <1>1, <1>2, <1>3, DownwardClosed
<1>5. Trimmed(tracker) = SubSeq(tracker, k + 1, Len(tracker))
  BY DEF Trimmed, gone
<1>6. \A i \in 1..k : ~InWindow(tracker[i])
  BY <1>1, <1>4 DEF gone
<1>7. ASSUME k < Len(tracker) PROVE InWindow(tracker[k + 1])
  <2>1. k + 1 \in DOMAIN tracker /\ k + 1 \notin gone
    BY <1>1, <1>4, <1>7
  <2>2. PICK j \in 1..(k + 1) : InWindow(tracker[j])
    BY <2>1 DEF gone
  <2>3. j = k + 1
    BY <2>2, <1>4, <1>6
  <2> QED
    BY <2>2, <2>3
<1> HIDE DEF k
<1> QED
  BY <1>4, <1>5, <1>6, <1>7, SubSeqFrom DEF RemovesFirst

-----------------------------------------------------------------------------
(* Types.                                                                  *)

LEMMA LargerType ==
  ASSUME NEW a \in Int, NEW b \in Int
  PROVE  /\ Larger(a, b) \in {a, b}
         /\ Larger(a, b) >= a /\ Larger(a, b) >= b
BY DEF Larger

LEMMA ProductType ==
  ASSUME NEW a \in Int, NEW b \in Int
  PROVE  a * b \in Int
OBVIOUS

LEMMA WholeSecondsType ==
  ASSUME NEW v \in Int
  PROVE  WholeSeconds(v) \in Int
<1>1. ASSUME NEW w \in Int PROVE w \div Second \in Int
  BY LimiterAssumption
<1>2. Second \in Int
  BY LimiterAssumption
<1>3. (v \div Second) * Second \in Int /\ ((-v) \div Second) * Second \in Int
  <2>1. v \div Second \in Int /\ (-v) \div Second \in Int
    BY <1>1
  <2> QED
    BY <2>1, <1>2, ProductType
<1> QED
  BY <1>3 DEF WholeSeconds

LEMMA TypeInductive == Init => TypeOK
<1>1. DefaultWindow * Second \in Int
  BY LimiterAssumption, ProductType
<1> QED
  BY <1>1, LimiterAssumption DEF Init, TypeOK

LEMMA TypeStep == TypeOK /\ [Next]_vars => TypeOK'
<1> SUFFICES ASSUME TypeOK, [Next]_vars PROVE TypeOK'
  OBVIOUS
<1> USE LimiterAssumption
<1>1. ASSUME NEW ip \in Ips, Refuse(ip) \/ Pass(ip) PROVE TypeOK'
  <2>1. rate_tracker[ip] \in Seq(Nat) /\ now \in Nat /\ rate_window \in Int
    BY DEF TypeOK
  <2>2. Trimmed(rate_tracker[ip]) \in Seq(Nat)
    BY <2>1, TrimmedRemovesFirst DEF RemovesFirst
  <2>3. Larger(horizon[ip], now - rate_window) \in Int
    BY <2>1, LargerType DEF TypeOK
  <2>4. CASE Refuse(ip)
    BY <2>2, <2>3, <2>4 DEF Refuse, TypeOK
  <2>5. CASE Pass(ip)
    <3>1. Append(Trimmed(rate_tracker[ip]), now) \in Seq(Nat)
      BY <2>1, <2>2
    <3>2. Append(passed[ip], now) \in Seq(Nat)
      BY <2>1 DEF TypeOK
    <3> QED
      BY <2>3, <2>5, <3>1, <3>2 DEF Pass, TypeOK
  <2> QED
    BY <1>1, <2>4, <2>5
<1>2. ASSUME NEW limit \in LimitFields, NEW window \in WindowFields,
             SetRateLimit(limit, window)
      PROVE  TypeOK'
  <2>1. rate_limit' \in Int
    BY <1>2 DEF SetRateLimit, TypeOK
  <2>2. rate_window' \in Int
    BY <1>2, WholeSecondsType DEF SetRateLimit, TypeOK
  <2> QED
    BY <1>2, <2>1, <2>2 DEF SetRateLimit, TypeOK
<1>3. CASE Tick
  BY <1>3 DEF Tick, TypeOK
<1>4. CASE ClockSetBack
  <2>1. settled' \in -1..MaxTime
    BY <1>4 DEF ClockSetBack, TypeOK, Larger
  <2>2. now' \in 0..MaxTime /\ set_back' \in 0..MaxSetBack
    BY <1>4 DEF ClockSetBack, TypeOK
  <2> QED
    BY <1>4, <2>1, <2>2 DEF ClockSetBack, TypeOK
<1>5. CASE UNCHANGED vars
  BY <1>5 DEF vars, TypeOK
<1> QED
  BY <1>1, <1>2, <1>3, <1>4, <1>5 DEF Next

(* The variables of RateLimiter keep their types: no request leaves a      *)
(* limit or a window that is not a whole number, whatever its fields.      *)
THEOREM LimiterTypes == Spec => []TypeOK
<1> QED
  BY TypeInductive, TypeStep, PTL DEF Spec

-----------------------------------------------------------------------------
(* The deque and the history.                                              *)

\* r holds the latest entries of p in their order, and what r lacks lies at or
\* before h.
SuffixUpTo(r, p, h) ==
  /\ Len(r) <= Len(p)
  /\ \A i \in 1..Len(r) : r[i] = p[Len(p) - Len(r) + i]
  /\ \A i \in 1..(Len(p) - Len(r)) : p[i] <= h

\* The deque of a source is the end of its history, up to the horizon.
DequeIsSuffix == \A ip \in Ips : SuffixUpTo(rate_tracker[ip], passed[ip], horizon[ip])

\* A packet passed before the present, or before the clock was set back.
PastOrSettled ==
  \A ip \in Ips : \A i \in 1..Len(passed[ip]) :
    passed[ip][i] <= now \/ passed[ip][i] <= settled

\* Packets passed in the order of their timestamps, except for those from
\* before the clock was set back.
OrderedOrSettled ==
  \A ip \in Ips : \A i, j \in 1..Len(passed[ip]) :
    i < j => passed[ip][i] <= passed[ip][j] \/ passed[ip][i] <= settled

LimiterInv == TypeOK /\ DequeIsSuffix /\ PastOrSettled /\ OrderedOrSettled

LEMMA InvInit == Init => LimiterInv
<1> SUFFICES ASSUME Init PROVE LimiterInv
  OBVIOUS
<1>1. TypeOK
  BY TypeInductive
<1>2. \A ip \in Ips : passed[ip] = <<>> /\ rate_tracker[ip] = <<>>
  BY DEF Init
<1>3. \A h : SuffixUpTo(<<>>, <<>>, h)
  BY DEF SuffixUpTo
<1>4. DequeIsSuffix
  BY <1>2, <1>3 DEF DequeIsSuffix
<1>5. PastOrSettled /\ OrderedOrSettled
  <2>1. \A ip \in Ips : Len(passed[ip]) = 0
    BY <1>2
  <2> QED
    BY <2>1 DEF PastOrSettled, OrderedOrSettled
<1> QED
  BY <1>1, <1>4, <1>5 DEF LimiterInv

(* Popping from the head what is not in the window leaves a suffix up to   *)
(* the horizon of that check.                                              *)
LEMMA TrimKeepsSuffix ==
  ASSUME NEW r \in Seq(Nat), NEW p \in Seq(Nat), NEW h \in Int, NEW g \in Int,
         now \in Int, rate_window \in Int,
         SuffixUpTo(r, p, h), g >= h, g >= now - rate_window
  PROVE  SuffixUpTo(Trimmed(r), p, g)
<1>1. PICK k \in 0..Len(r) : RemovesFirst(r, k)
  BY TrimmedRemovesFirst
<1> DEFINE d == Len(p) - Len(r)
           u == Trimmed(r)
<1>2. Len(u) = Len(r) - k /\ u \in Seq(Nat)
  BY <1>1 DEF RemovesFirst
<1>3. d \in Nat /\ Len(p) - Len(u) = d + k /\ Len(u) <= Len(p) /\ k \in Nat /\ Len(r) \in Nat
  BY <1>2 DEF SuffixUpTo
<1>4. ASSUME NEW i \in 1..Len(u) PROVE u[i] = p[d + k + i]
  <2>1. u[i] = r[k + i] /\ k + i \in 1..Len(r)
    BY <1>1, <1>2, <1>3 DEF RemovesFirst
  <2>2. r[k + i] = p[d + (k + i)]
    BY <2>1 DEF SuffixUpTo
  <2>3. d + (k + i) = d + k + i
    BY <1>3
  <2> QED
    BY <2>1, <2>2, <2>3
<1>5. ASSUME NEW i \in 1..(d + k) PROVE p[i] <= g
  <2>1. i \in 1..Len(p) /\ p[i] \in Int
    BY <1>2, <1>3
  <2>2. CASE i <= d
    <3>1. p[i] <= h
      BY <1>3, <2>2 DEF SuffixUpTo
    <3> QED
      BY <2>1, <3>1
  <2>3. CASE i > d
    <3>1. i - d \in 1..k /\ i - d \in 1..Len(r) /\ d + (i - d) = i
      BY <1>3, <2>3
    <3>2. r[i - d] = p[d + (i - d)]
      BY <3>1 DEF SuffixUpTo
    <3>3. ~InWindow(r[i - d])
      BY <1>1, <3>1 DEF RemovesFirst
    <3>4. r[i - d] = p[i]
      BY <3>1, <3>2
    <3>5. ~(now - p[i] < rate_window)
      BY <3>3, <3>4 DEF InWindow
    <3> HIDE DEF d
    <3> QED
      BY <2>1, <3>5
  <2> QED
    BY <1>3, <2>2, <2>3
<1> HIDE DEF d, u
<1> QED
  BY <1>3, <1>4, <1>5 DEF SuffixUpTo, u

LEMMA AppendKeepsSuffix ==
  ASSUME NEW r \in Seq(Nat), NEW p \in Seq(Nat), NEW h \in Int, NEW x \in Nat,
         SuffixUpTo(r, p, h)
  PROVE  SuffixUpTo(Append(r, x), Append(p, x), h)
<1> DEFINE d == Len(p) - Len(r)
           u == Append(r, x)
           v == Append(p, x)
<1>1. /\ d \in Nat /\ Len(u) = Len(r) + 1 /\ Len(v) = Len(p) + 1
      /\ Len(r) \in Nat /\ Len(p) \in Nat
  BY DEF SuffixUpTo
<1>2. /\ \A i \in 1..Len(r) : u[i] = r[i]
      /\ \A i \in 1..Len(p) : v[i] = p[i]
      /\ u[Len(r) + 1] = x /\ v[Len(p) + 1] = x
  OBVIOUS
<1>3. ASSUME NEW i \in 1..Len(u) PROVE u[i] = v[d + i]
  <2>1. CASE i = Len(r) + 1
    BY <1>1, <1>2, <2>1
  <2>2. CASE i # Len(r) + 1
    <3>1. i \in 1..Len(r) /\ d + i \in 1..Len(p)
      BY <1>1, <2>2
    <3>2. r[i] = p[d + i]
      BY <3>1 DEF SuffixUpTo
    <3> QED
      BY <1>2, <3>1, <3>2
  <2> QED
    BY <2>1, <2>2
<1>4. ASSUME NEW i \in 1..d PROVE v[i] <= h
  <2>1. i \in 1..Len(p)
    BY <1>1
  <2>2. p[i] <= h
    BY DEF SuffixUpTo
  <2> QED
    BY <1>2, <2>1, <2>2
<1>5. Len(v) - Len(u) = d /\ Len(u) <= Len(v)
  BY <1>1
<1> HIDE DEF d, u, v
<1> QED
  BY <1>3, <1>4, <1>5 DEF SuffixUpTo, u, v

-----------------------------------------------------------------------------
(* The invariant is kept by every step.                                    *)

LEMMA CheckKeepsSuffix ==
  ASSUME LimiterInv, NEW ip \in Ips, Refuse(ip) \/ Pass(ip)
  PROVE  DequeIsSuffix'
<1>1. /\ rate_tracker[ip] \in Seq(Nat) /\ passed[ip] \in Seq(Nat)
      /\ now \in Nat /\ now \in Int /\ rate_window \in Int /\ horizon[ip] \in Int
      /\ now - rate_window \in Int
  BY DEF LimiterInv, TypeOK
<1> DEFINE u == Trimmed(rate_tracker[ip])
           g == Larger(horizon[ip], now - rate_window)
<1>2. g \in Int /\ g >= horizon[ip] /\ g >= now - rate_window
  BY <1>1, LargerType
<1>3. SuffixUpTo(u, passed[ip], g)
  BY <1>1, <1>2, TrimKeepsSuffix DEF LimiterInv, DequeIsSuffix
<1>4. u \in Seq(Nat)
  BY <1>1, TrimmedRemovesFirst DEF RemovesFirst
<1>5. horizon'[ip] = g
  BY DEF Refuse, Pass, LimiterInv, TypeOK
<1>6. SuffixUpTo(rate_tracker'[ip], passed'[ip], horizon'[ip])
  <2>1. CASE Refuse(ip)
    <3>1. rate_tracker'[ip] = u /\ passed'[ip] = passed[ip]
      BY <2>1 DEF Refuse, LimiterInv, TypeOK
    <3> QED
      BY <1>3, <1>5, <3>1
  <2>2. CASE Pass(ip)
    <3>1. rate_tracker'[ip] = Append(u, now) /\ passed'[ip] = Append(passed[ip], now)
      BY <2>2 DEF Pass, LimiterInv, TypeOK
    <3> HIDE DEF u, g
    <3> QED
      BY <1>1, <1>2, <1>3, <1>4, <1>5, <3>1, AppendKeepsSuffix
  <2> QED
    BY <2>1, <2>2
<1>7. ASSUME NEW o \in Ips, o # ip
      PROVE  /\ rate_tracker'[o] = rate_tracker[o] /\ passed'[o] = passed[o]
             /\ horizon'[o] = horizon[o]
  BY <1>7 DEF Refuse, Pass, LimiterInv, TypeOK
<1> QED
  BY <1>6, <1>7 DEF LimiterInv, DequeIsSuffix

LEMMA PassKeepsOrder ==
  ASSUME LimiterInv, NEW ip \in Ips, Pass(ip)
  PROVE  PastOrSettled' /\ OrderedOrSettled'
<1> DEFINE p == passed[ip]
           v == Append(p, now)
<1>1. p \in Seq(Nat) /\ now \in Nat /\ settled \in Int
  BY LimiterAssumption DEF LimiterInv, TypeOK
<1>2. /\ passed'[ip] = v /\ now' = now /\ settled' = settled
      /\ \A o \in Ips : o # ip => passed'[o] = passed[o]
  BY DEF Pass, LimiterInv, TypeOK
<1>3. /\ Len(v) = Len(p) + 1 /\ Len(p) \in Nat
      /\ \A i \in 1..Len(p) : v[i] = p[i]
      /\ v[Len(p) + 1] = now
  BY <1>1
<1>4. \A i \in 1..Len(p) : p[i] <= now \/ p[i] <= settled
  BY DEF LimiterInv, PastOrSettled
<1>5. \A i, j \in 1..Len(p) : i < j => p[i] <= p[j] \/ p[i] <= settled
  BY DEF LimiterInv, OrderedOrSettled
<1>6. ASSUME NEW i \in 1..Len(v) PROVE v[i] <= now \/ v[i] <= settled
  <2>1. CASE i = Len(p) + 1
    BY <1>1, <1>3, <2>1
  <2>2. CASE i # Len(p) + 1
    BY <1>3, <1>4, <2>2
  <2> QED
    BY <2>1, <2>2
<1>7. ASSUME NEW i \in 1..Len(v), NEW j \in 1..Len(v), i < j
      PROVE  v[i] <= v[j] \/ v[i] <= settled
  <2>1. i \in 1..Len(p)
    BY <1>3, <1>7
  <2>2. CASE j = Len(p) + 1
    BY <1>3, <1>4, <2>1, <2>2
  <2>3. CASE j # Len(p) + 1
    <3>1. j \in 1..Len(p)
      BY <1>3, <2>3
    <3> QED
      BY <1>3, <1>5, <1>7, <2>1, <3>1
  <2> QED
    BY <2>2, <2>3
<1> HIDE DEF v
<1>8. ASSUME NEW o \in Ips
      PROVE  /\ \A i \in 1..Len(passed'[o]) :
                  passed'[o][i] <= now' \/ passed'[o][i] <= settled'
             /\ \A i, j \in 1..Len(passed'[o]) :
                  i < j => passed'[o][i] <= passed'[o][j] \/ passed'[o][i] <= settled'
  <2>1. CASE o = ip
    BY <1>2, <1>6, <1>7, <2>1
  <2>2. CASE o # ip
    <3>1. passed'[o] = passed[o]
      BY <1>2, <2>2
    <3> QED
      BY <1>2, <3>1 DEF LimiterInv, PastOrSettled, OrderedOrSettled
  <2> QED
    BY <2>1, <2>2
<1> QED
  BY <1>8 DEF PastOrSettled, OrderedOrSettled

LEMMA TickKeepsOrder ==
  ASSUME LimiterInv, Tick
  PROVE  PastOrSettled' /\ OrderedOrSettled'
<1>1. now \in Int /\ now' = now + 1 /\ passed' = passed /\ settled' = settled
  BY DEF LimiterInv, TypeOK, Tick
<1>2. ASSUME NEW o \in Ips, NEW i \in 1..Len(passed[o])
      PROVE  passed[o][i] <= now + 1 \/ passed[o][i] <= settled
  <2>1. passed[o][i] \in Nat
    BY DEF LimiterInv, TypeOK
  <2>2. passed[o][i] <= now \/ passed[o][i] <= settled
    BY DEF LimiterInv, PastOrSettled
  <2> QED
    BY <1>1, <2>1, <2>2
<1> QED
  BY <1>1, <1>2 DEF LimiterInv, PastOrSettled, OrderedOrSettled

(* After the clock is set back everything that passed is settled.          *)
LEMMA SetBackKeepsOrder ==
  ASSUME LimiterInv, ClockSetBack
  PROVE  PastOrSettled' /\ OrderedOrSettled'
<1>1. /\ now \in Int /\ settled \in Int /\ passed' = passed
      /\ settled' = Larger(settled, now)
  BY LimiterAssumption DEF LimiterInv, TypeOK, ClockSetBack
<1>2. settled' \in Int /\ settled' >= settled /\ settled' >= now
  BY <1>1, LargerType
<1>3. ASSUME NEW o \in Ips, NEW i \in 1..Len(passed[o])
      PROVE  passed[o][i] <= settled'
  <2>1. passed[o][i] \in Nat
    BY DEF LimiterInv, TypeOK
  <2>2. passed[o][i] <= now \/ passed[o][i] <= settled
    BY DEF LimiterInv, PastOrSettled
  <2> QED
    BY <1>1, <1>2, <2>1, <2>2
<1> QED
  BY <1>1, <1>3 DEF PastOrSettled, OrderedOrSettled

LEMMA InvStep == LimiterInv /\ [Next]_vars => LimiterInv'
<1> SUFFICES ASSUME LimiterInv, [Next]_vars PROVE LimiterInv'
  OBVIOUS
<1>1. TypeOK'
  BY TypeStep DEF LimiterInv
<1>2. ASSUME NEW ip \in Ips, Refuse(ip) PROVE LimiterInv'
  <2>1. DequeIsSuffix'
    BY <1>2, CheckKeepsSuffix
  <2>2. passed' = passed /\ now' = now /\ settled' = settled
    BY <1>2 DEF Refuse
  <2> QED
    BY <1>1, <2>1, <2>2 DEF LimiterInv, PastOrSettled, OrderedOrSettled
<1>3. ASSUME NEW ip \in Ips, Pass(ip) PROVE LimiterInv'
  BY <1>1, <1>3, CheckKeepsSuffix, PassKeepsOrder DEF LimiterInv
<1>4. ASSUME NEW limit, NEW window, SetRateLimit(limit, window) PROVE LimiterInv'
  BY <1>1, <1>4 DEF SetRateLimit, LimiterInv, DequeIsSuffix, PastOrSettled, OrderedOrSettled
<1>5. CASE Tick
  <2>1. DequeIsSuffix'
    BY <1>5 DEF Tick, LimiterInv, DequeIsSuffix
  <2> QED
    BY <1>1, <1>5, <2>1, TickKeepsOrder DEF LimiterInv
<1>6. CASE ClockSetBack
  <2>1. DequeIsSuffix'
    BY <1>6 DEF ClockSetBack, LimiterInv, DequeIsSuffix
  <2> QED
    BY <1>1, <1>6, <2>1, SetBackKeepsOrder DEF LimiterInv
<1>7. CASE UNCHANGED vars
  BY <1>1, <1>7 DEF vars, LimiterInv, DequeIsSuffix, PastOrSettled, OrderedOrSettled
<1> QED
  BY <1>2, <1>3, <1>4, <1>5, <1>6, <1>7 DEF Next

LEMMA InvAlways == Spec => []LimiterInv
<1> QED
  BY InvInit, InvStep, PTL DEF Spec

-----------------------------------------------------------------------------
(* The verdict.                                                            *)

LEMMA HistoryTypes ==
  ASSUME LimiterInv, NEW ip \in Ips
  PROVE  /\ rate_tracker[ip] \in Seq(Nat) /\ passed[ip] \in Seq(Nat)
         /\ now \in Int /\ rate_window \in Int /\ rate_limit \in Int
         /\ horizon[ip] \in Int /\ settled \in Int /\ settled >= -1
         /\ SuffixUpTo(rate_tracker[ip], passed[ip], horizon[ip])
         /\ DOMAIN passed[ip] = 1..Len(passed[ip])
BY LimiterAssumption DEF LimiterInv, TypeOK, DequeIsSuffix

LEMMA IntervalSize ==
  ASSUME NEW a \in Nat, NEW b \in Nat, a <= b
  PROVE  IsFiniteSet((a + 1)..b) /\ Cardinality((a + 1)..b) = b - a
<1>1. a + 1 \in Int /\ b \in Int
  OBVIOUS
<1>2. /\ IsFiniteSet((a + 1)..b)
      /\ Cardinality((a + 1)..b) = IF a + 1 > b THEN 0 ELSE b - (a + 1) + 1
  BY <1>1, FS_Interval
<1> QED
  BY <1>2

LEMMA RecentFinite ==
  ASSUME LimiterInv, NEW ip \in Ips
  PROVE  IsFiniteSet(Recent(ip)) /\ Cardinality(Recent(ip)) \in Nat
<1>1. Len(passed[ip]) \in Nat
  BY HistoryTypes
<1>2. IsFiniteSet(1..Len(passed[ip]))
  BY <1>1, FS_Interval
<1>3. Recent(ip) \in SUBSET (1..Len(passed[ip]))
  BY HistoryTypes DEF Recent
<1>4. IsFiniteSet(Recent(ip))
  BY <1>2, <1>3, FS_Subset
<1> QED
  BY <1>4, FS_CardinalityType

(* The positions of the history p that the trimmed deque r holds.          *)
LEMMA TrimmedSuffix ==
  ASSUME NEW r \in Seq(Nat), NEW p \in Seq(Nat), NEW h \in Int,
         now \in Int, rate_window \in Int, SuffixUpTo(r, p, h)
  PROVE  \E n \in 0..Len(p) :
           /\ Len(Trimmed(r)) = Len(p) - n
           /\ n < Len(p) => InWindow(p[n + 1])
           /\ h <= now - rate_window => \A i \in 1..n : ~InWindow(p[i])
<1> DEFINE d == Len(p) - Len(r)
<1>1. PICK k \in 0..Len(r) : RemovesFirst(r, k)
  BY TrimmedRemovesFirst
<1>2. Len(Trimmed(r)) = Len(r) - k
  BY <1>1 DEF RemovesFirst
<1>3. /\ d \in Nat /\ Len(r) \in Nat /\ Len(p) \in Nat /\ k \in Nat
      /\ Len(p) = d + Len(r)
  BY DEF SuffixUpTo
<1>4. d + k \in 0..Len(p) /\ Len(Trimmed(r)) = Len(p) - (d + k)
  BY <1>2, <1>3
<1>5. ASSUME d + k < Len(p) PROVE InWindow(p[(d + k) + 1])
  <2>1. k < Len(r) /\ k + 1 \in 1..Len(r) /\ d + (k + 1) = (d + k) + 1
    BY <1>3, <1>5
  <2>2. r[k + 1] = p[d + (k + 1)]
    BY <2>1 DEF SuffixUpTo
  <2>3. InWindow(r[k + 1])
    BY <1>1, <2>1 DEF RemovesFirst
  <2> QED
    BY <2>1, <2>2, <2>3
<1>6. ASSUME h <= now - rate_window, NEW i \in 1..(d + k)
      PROVE  ~InWindow(p[i])
  <2>1. CASE i <= d
    <3>1. p[i] <= h
      BY <1>3, <2>1 DEF SuffixUpTo
    <3>2. p[i] \in Nat
      BY <1>3
    <3> HIDE DEF d
    <3> QED
      BY <1>6, <3>1, <3>2 DEF InWindow
  <2>2. CASE i > d
    <3>1. i - d \in 1..k /\ i - d \in 1..Len(r) /\ d + (i - d) = i
      BY <1>3, <2>2
    <3>2. r[i - d] = p[d + (i - d)]
      BY <3>1 DEF SuffixUpTo
    <3>3. ~InWindow(r[i - d])
      BY <1>1, <3>1 DEF RemovesFirst
    <3>4. r[i - d] = p[i]
      BY <3>1, <3>2
    <3> QED
      BY <3>3, <3>4
  <2> QED
    BY <1>3, <2>1, <2>2
<1> HIDE DEF d
<1> QED
  BY <1>4, <1>5, <1>6

LEMMA TrimmedPositions ==
  ASSUME LimiterInv, NEW ip \in Ips
  PROVE  \E n \in 0..Len(passed[ip]) :
           /\ Len(Trimmed(rate_tracker[ip])) = Len(passed[ip]) - n
           /\ n < Len(passed[ip]) => InWindow(passed[ip][n + 1])
           /\ horizon[ip] <= now - rate_window
                => \A i \in 1..n : ~InWindow(passed[ip][i])
BY HistoryTypes, TrimmedSuffix

(* When nothing in the window lies behind the horizon, a packet that is    *)
(* let through by _check_ip_rate_limit has fewer than rate_limit packets   *)
(* of its source in the window before it.                                  *)
THEOREM LimitNotExceeded == Spec => []NoUndercount
<1>1. LimiterInv => NoUndercount
  <2> SUFFICES ASSUME LimiterInv, NEW ip \in Ips,
                      horizon[ip] <= now - rate_window, ~OverLimit(ip)
               PROVE  Cardinality(Recent(ip)) < rate_limit
    BY DEF NoUndercount
  <2>1. PICK n \in 0..Len(passed[ip]) :
          /\ Len(Trimmed(rate_tracker[ip])) = Len(passed[ip]) - n
          /\ \A i \in 1..n : ~InWindow(passed[ip][i])
    BY TrimmedPositions
  <2>2. Len(passed[ip]) \in Nat /\ rate_limit \in Int /\ n \in Nat
    BY HistoryTypes
  <2>3. Recent(ip) \in SUBSET ((n + 1)..Len(passed[ip]))
    <3> SUFFICES ASSUME NEW i \in Recent(ip) PROVE i \in (n + 1)..Len(passed[ip])
      OBVIOUS
    <3>1. i \in 1..Len(passed[ip]) /\ InWindow(passed[ip][i])
      BY HistoryTypes DEF Recent, InWindow
    <3>2. ~(i <= n)
      BY <2>1, <3>1
    <3> QED
      BY <2>2, <3>1, <3>2
  <2>4. /\ IsFiniteSet((n + 1)..Len(passed[ip]))
        /\ Cardinality((n + 1)..Len(passed[ip])) = Len(passed[ip]) - n
    BY <2>1, <2>2, IntervalSize
  <2>5. Cardinality(Recent(ip)) <= Len(passed[ip]) - n
    BY <2>3, <2>4, FS_Subset
  <2>6. Cardinality(Recent(ip)) \in Nat
    BY RecentFinite
  <2> QED
    BY <2>1, <2>2, <2>5, <2>6 DEF OverLimit
<1> QED
  BY <1>1, InvAlways, PTL

(* When the clock has never been set back, or is a window past where it    *)
(* was, _check_ip_rate_limit refuses a packet only when rate_limit packets *)
(* of its source passed within the window.                                 *)
THEOREM RefusalJustified == Spec => []NoOvercount
<1>1. LimiterInv => NoOvercount
  <2> SUFFICES ASSUME LimiterInv, NEW ip \in Ips,
                      settled < 0 \/ now >= settled + rate_window, OverLimit(ip)
               PROVE  Cardinality(Recent(ip)) >= rate_limit
    BY DEF NoOvercount
  <2> DEFINE p == passed[ip]
  <2>1. PICK n \in 0..Len(p) :
          /\ Len(Trimmed(rate_tracker[ip])) = Len(p) - n
          /\ n < Len(p) => InWindow(p[n + 1])
    BY TrimmedPositions
  <2>2. /\ Len(p) \in Nat /\ rate_limit \in Int /\ n \in Nat /\ p \in Seq(Nat)
        /\ now \in Int /\ rate_window \in Int /\ settled \in Int
    BY HistoryTypes
  <2>3. Len(p) - n >= rate_limit
    BY <2>1 DEF OverLimit
  <2> HIDE DEF p
  <2>4. ((n + 1)..Len(p)) \in SUBSET Recent(ip)
    <3> SUFFICES ASSUME NEW i \in (n + 1)..Len(p) PROVE i \in Recent(ip)
      OBVIOUS
    <3>1. n < Len(p) /\ n + 1 \in 1..Len(p) /\ i \in 1..Len(p) /\ i \in DOMAIN p
      BY <2>2
    <3>2. p[n + 1] \in Nat /\ p[i] \in Nat
      BY <2>2, <3>1
    <3>3. now - p[n + 1] < rate_window
      BY <2>1, <3>1 DEF InWindow
    <3>4. n + 1 < i => p[n + 1] <= p[i] \/ p[n + 1] <= settled
      BY <3>1 DEF LimiterInv, OrderedOrSettled, p
    <3>5. p[n + 1] > settled
      BY <2>2, <3>2, <3>3
    <3>6. p[n + 1] <= p[i]
      <4>1. CASE n + 1 = i
        BY <4>1, <3>2
      <4>2. CASE n + 1 # i
        BY <4>2, <2>2, <3>2, <3>4, <3>5
      <4> QED
        BY <4>1, <4>2
    <3>7. now - p[i] < rate_window
      BY <2>2, <3>2, <3>3, <3>6
    <3> QED
      BY <3>1, <3>7 DEF Recent, p
  <2>5. Cardinality((n + 1)..Len(p)) = Len(p) - n
    BY <2>1, <2>2, IntervalSize
  <2>6. IsFiniteSet(Recent(ip)) /\ Cardinality(Recent(ip)) \in Nat
    BY RecentFinite
  <2>7. Len(p) - n <= Cardinality(Recent(ip))
    BY <2>4, <2>5, <2>6, FS_Subset
  <2> QED
    BY <2>2, <2>3, <2>6, <2>7
<1> QED
  BY <1>1, InvAlways, PTL

-----------------------------------------------------------------------------
(* Silence.                                                                *)

\* A timestamp of the deque is at least as far behind the clock as its source
\* has been silent, less what the clock was set back.
SilenceBehind ==
  \A ip \in Ips : \A i \in 1..Len(rate_tracker[ip]) :
    rate_tracker[ip][i] + silent[ip] <= now + set_back

LEMMA SilenceTypes ==
  ASSUME TypeOK, NEW ip \in Ips
  PROVE  /\ rate_tracker[ip] \in Seq(Nat) /\ silent[ip] \in Nat
         /\ now \in Nat /\ set_back \in Nat /\ rate_window \in Int /\ rate_limit \in Int
         /\ \A i \in 1..Len(rate_tracker[ip]) : rate_tracker[ip][i] \in Nat
BY LimiterAssumption DEF TypeOK

LEMMA AppendEntries ==
  ASSUME NEW s \in Seq(Nat), NEW x \in Nat
  PROVE  /\ Len(Append(s, x)) = Len(s) + 1
         /\ \A j \in 1..Len(s) : Append(s, x)[j] = s[j]
         /\ Append(s, x)[Len(s) + 1] = x
OBVIOUS

LEMMA CheckKeepsSilence ==
  ASSUME TypeOK, SilenceBehind, NEW ip \in Ips, Refuse(ip) \/ Pass(ip)
  PROVE  SilenceBehind'
<1> DEFINE r == rate_tracker[ip]
           u == Trimmed(r)
<1>1. /\ r \in Seq(Nat) /\ silent[ip] \in Nat /\ now \in Nat /\ now \in Int
      /\ set_back \in Nat /\ rate_window \in Int
      /\ \A i \in 1..Len(r) : r[i] \in Nat /\ r[i] + silent[ip] <= now + set_back
  BY SilenceTypes DEF SilenceBehind
<1> HIDE DEF r
<1>2. PICK k \in 0..Len(r) : RemovesFirst(r, k)
  BY <1>1, TrimmedRemovesFirst
<1>3. u \in Seq(Nat) /\ Len(u) = Len(r) - k /\ Len(u) \in Nat
  BY <1>2 DEF RemovesFirst
<1>4. ASSUME NEW i \in 1..Len(u) PROVE u[i] \in Nat /\ u[i] + silent[ip] <= now + set_back
  <2>1. k + i \in 1..Len(r) /\ u[i] = r[k + i]
    BY <1>1, <1>2, <1>3 DEF RemovesFirst
  <2> QED
    BY <1>1, <2>1
<1> HIDE DEF u
<1>5. now' = now /\ set_back' = set_back
  BY DEF Refuse, Pass
<1>6. ASSUME NEW i \in 1..Len(rate_tracker'[ip])
      PROVE  rate_tracker'[ip][i] + silent'[ip] <= now' + set_back'
  <2>1. CASE Refuse(ip)
    <3>1. rate_tracker'[ip] = u /\ silent'[ip] = silent[ip]
      BY <2>1 DEF Refuse, TypeOK, u, r
    <3> QED
      BY <1>4, <1>5, <1>6, <3>1
  <2>2. CASE Pass(ip)
    <3>1. rate_tracker'[ip] = Append(u, now) /\ silent'[ip] = 0
      BY <2>2 DEF Pass, TypeOK, u, r
    <3>2. /\ Len(Append(u, now)) = Len(u) + 1
          /\ \A j \in 1..Len(u) : Append(u, now)[j] = u[j]
          /\ Append(u, now)[Len(u) + 1] = now
      BY <1>1, <1>3, AppendEntries
    <3>3. CASE i = Len(u) + 1
      BY <1>1, <1>5, <3>1, <3>2, <3>3
    <3>4. CASE i # Len(u) + 1
      <4>1. i \in 1..Len(u)
        BY <1>3, <1>6, <3>1, <3>2, <3>4
      <4>2. rate_tracker'[ip][i] = u[i] /\ u[i] \in Nat /\ u[i] + silent[ip] <= now + set_back
        BY <1>4, <3>1, <3>2, <4>1
      <4> QED
        BY <1>1, <1>5, <3>1, <4>2
    <3> QED
      BY <3>3, <3>4
  <2> QED
    BY <2>1, <2>2
<1>7. ASSUME NEW o \in Ips, o # ip
      PROVE  rate_tracker'[o] = rate_tracker[o] /\ silent'[o] = silent[o]
  BY <1>7 DEF Refuse, Pass, TypeOK
<1>8. ASSUME NEW o \in Ips, NEW i \in 1..Len(rate_tracker'[o])
      PROVE  rate_tracker'[o][i] + silent'[o] <= now' + set_back'
  <2>1. CASE o = ip
    BY <1>6, <1>8, <2>1
  <2>2. CASE o # ip
    BY <1>5, <1>7, <1>8, <2>2 DEF SilenceBehind
  <2> QED
    BY <2>1, <2>2
<1> QED
  BY <1>8 DEF SilenceBehind

(* A tick ages every timestamp by as much as every silence; what the clock *)
(* loses when it is set back is added to what it was set back.             *)
LEMMA ClockKeepsSilence ==
  ASSUME TypeOK, SilenceBehind, Tick \/ ClockSetBack
  PROVE  SilenceBehind'
<1>1. ASSUME NEW ip \in Ips, NEW i \in 1..Len(rate_tracker[ip])
      PROVE  rate_tracker[ip][i] + silent'[ip] <= now' + set_back'
  <2>1. /\ rate_tracker[ip][i] \in Nat /\ silent[ip] \in Nat /\ now \in Nat /\ set_back \in Nat
        /\ rate_tracker[ip][i] + silent[ip] <= now + set_back
    BY SilenceTypes DEF SilenceBehind
  <2>2. CASE Tick
    <3>1. now' = now + 1 /\ silent'[ip] = silent[ip] + 1 /\ set_back' = set_back
      BY <2>2 DEF Tick
    <3> QED
      BY <2>1, <3>1
  <2>3. CASE ClockSetBack
    <3>1. PICK d \in Int : now' = now - d /\ set_back' = set_back + d
      BY <2>3 DEF ClockSetBack
    <3>2. silent'[ip] = silent[ip]
      BY <2>3 DEF ClockSetBack
    <3> QED
      BY <2>1, <3>1, <3>2
  <2> QED
    BY <2>2, <2>3
<1>2. rate_tracker' = rate_tracker
  BY DEF Tick, ClockSetBack
<1> QED
  BY <1>1, <1>2 DEF SilenceBehind

LEMMA SilenceStep == TypeOK /\ SilenceBehind /\ [Next]_vars => SilenceBehind'
<1> SUFFICES ASSUME TypeOK, SilenceBehind, [Next]_vars PROVE SilenceBehind'
  OBVIOUS
<1>1. ASSUME NEW ip \in Ips, Refuse(ip) \/ Pass(ip) PROVE SilenceBehind'
  BY <1>1, CheckKeepsSilence
<1>2. ASSUME NEW limit, NEW window, SetRateLimit(limit, window) PROVE SilenceBehind'
  BY <1>2 DEF SetRateLimit, SilenceBehind
<1>3. CASE Tick \/ ClockSetBack
  BY <1>3, ClockKeepsSilence
<1>4. CASE UNCHANGED vars
  BY <1>4 DEF vars, SilenceBehind
<1> QED
  BY <1>1, <1>2, <1>3, <1>4 DEF Next

(* For every limit, window and course of the clock, a source is let        *)
(* through by _check_ip_rate_limit when it has been silent for a window    *)
(* and for as long again as the clock was ever set back: a clock that is   *)
(* set back prolongs a refusal, and by no more than that.                  *)
THEOREM SilenceAlwaysHeals == Spec => []SilenceHeals
<1>1. Init => SilenceBehind
  <2> SUFFICES ASSUME Init, NEW ip \in Ips PROVE Len(rate_tracker[ip]) = 0
    BY DEF SilenceBehind
  <2> QED
    BY DEF Init
<1>2. TypeOK /\ SilenceBehind => SilenceHeals
  <2> SUFFICES ASSUME TypeOK, SilenceBehind, NEW ip \in Ips, rate_limit > 0,
                      silent[ip] >= rate_window + set_back
               PROVE  ~OverLimit(ip)
    BY DEF SilenceHeals
  <2> DEFINE r == rate_tracker[ip]
  <2>1. /\ r \in Seq(Nat) /\ silent[ip] \in Nat /\ now \in Nat /\ now \in Int
        /\ set_back \in Nat /\ rate_window \in Int /\ rate_limit \in Int
        /\ \A i \in 1..Len(r) : r[i] \in Nat /\ r[i] + silent[ip] <= now + set_back
    BY SilenceTypes DEF SilenceBehind
  <2> HIDE DEF r
  <2>2. \A i \in 1..Len(r) : ~InWindow(r[i])
    BY <2>1 DEF InWindow
  <2>3. PICK k \in 0..Len(r) : RemovesFirst(r, k)
    BY <2>1, TrimmedRemovesFirst
  <2>4. Len(r) \in Nat /\ Len(Trimmed(r)) = Len(r) - k
    BY <2>1, <2>3 DEF RemovesFirst
  <2>5. ~(k < Len(r))
    <3> SUFFICES ASSUME k < Len(r) PROVE FALSE
      OBVIOUS
    <3>1. InWindow(r[k + 1]) /\ k + 1 \in 1..Len(r)
      BY <2>3, <2>4 DEF RemovesFirst
    <3> QED
      BY <2>2, <3>1
  <2> QED
    BY <2>1, <2>4, <2>5 DEF OverLimit, r
<1> QED
  BY <1>1, <1>2, SilenceStep, LimiterTypes, PTL DEF Spec
=============================================================================
