-------------------------- MODULE DashboardProofs ---------------------------
(***************************************************************************)
(* Proofs about Dashboard, for every number of packets, events and calls   *)
(* and every capacity of the log.                                          *)
(***************************************************************************)
EXTENDS Dashboard, SequenceTheorems, TLAPS

-----------------------------------------------------------------------------
(* The inductive invariant, in parts                                       *)

Message == [type : {"event", "stats"}, data : Nat]
Page    == [stats : 0..MaxStats, log : Seq(Nat), list : Int]

Counters ==
  /\ panel \in Panels
  /\ stats \in 0..MaxStats /\ events \in 0..MaxEvents /\ list \in 0..events
  /\ ws \in {"closed", "connecting", "accepted", "open"}
  /\ log_excused \in BOOLEAN /\ list_excused \in BOOLEAN
  /\ cleared \in 0..events
  /\ due \in Seq(Nat) /\ Len(due) <= MaxDue

OnTheWire ==
  /\ wire \in Seq(Message)
  /\ ~Connected => wire = <<>>
  /\ \A i \in DOMAIN wire : wire[i].type = "stats" => wire[i].data \in 0..MaxStats

\* A fetch of the list takes the place of the change it follows.
Calls ==
  /\ calls \in [Kinds -> Seq(Int)]
  /\ \A i \in DOMAIN calls["stats"] : calls["stats"][i] \in {NotYet} \cup 0..MaxStats
  /\ \A i \in DOMAIN calls["log"] : calls["log"][i] \in {NotYet} \cup Nat
  /\ \A i \in DOMAIN calls["list"] : calls["list"][i] \in {NotYet} \cup 0..events
  /\ Len(calls["stats"]) <= MaxCalls /\ Len(calls["log"]) <= MaxCalls
  /\ Len(calls["list"]) + Len(calls["change"]) <= MaxCalls

Shown ==
  /\ shown \in Page
  /\ shown.list \in {NONE} \cup 0..events
  /\ Len(shown.log) <= DomCap

Types == Counters /\ OnTheWire /\ Calls /\ Shown

\* The latest event is the last of those whose broadcasts are to reach a page
\* that follows the log, and then the last one on its wire; unless there is an
\* excuse, one fetch of the log at most is under way.
LogInOrder ==
  panel = "log" =>
    /\ \A i \in DOMAIN wire : wire[i].type = "event"
    /\ ~log_excused =>
         /\ Len(calls["log"]) <= 1
         /\ due # <<>> => due[Len(due)] = events
         /\ due = <<>> /\ wire # <<>> => wire[Len(wire)].data = events

\* The latest event is shown so late that a fetch does not push it out.
ShownLate ==
  \E i \in DOMAIN shown.log : shown.log[i] = events /\ Len(shown.log) - i <= FetchCap

ShownLast == shown.log # <<>> /\ shown.log[Len(shown.log)] = events

\* The latest event is on its way to an open page, in a broadcast, on the wire
\* or in the answer of a fetch, or shown; where a fetch may still bring older
\* entries it is the last entry shown.
LogComing ==
  panel = "log" /\ ws = "open" /\ ~log_excused /\ events > cleared =>
    \/ due # <<>> \/ wire # <<>>
    \/ calls["log"] # <<>> /\ calls["log"][1] \in {NotYet, events}
    \/ calls["log"] # <<>> /\ ShownLast
    \/ calls["log"] = <<>> /\ ShownLate

\* Unless there is an excuse, one fetch of the list at most is under way.
OneFetch == Fetch = "list" /\ ~list_excused => Len(calls["list"]) <= 1

\* The list in force is on its way to an open page, or shown, or the page is
\* to learn that it has changed it.
ListComing ==
  Fetch = "list" /\ ws = "open" /\ ~list_excused =>
    \/ calls["list"] # <<>> /\ calls["list"][1] \in {NotYet, list}
    \/ \E i \in DOMAIN calls["change"] : calls["change"][i] = OK
    \/ calls["list"] = <<>> /\ shown.list = list

-----------------------------------------------------------------------------
(* Sequences                                                               *)

LEMMA RemoveAtType ==
  ASSUME NEW S, NEW s \in Seq(S), NEW i \in DOMAIN s
  PROVE  /\ RemoveAt(s, i) \in Seq(S) /\ Len(RemoveAt(s, i)) = Len(s) - 1
         /\ DOMAIN RemoveAt(s, i) = 1..(Len(s) - 1)
         /\ \A j \in 1..(Len(s) - 1) : RemoveAt(s, i)[j] = IF j < i THEN s[j] ELSE s[j + 1]
<1> DEFINE a == SubSeq(s, 1, i - 1)
           b == SubSeq(s, i + 1, Len(s))
<1>1. Len(s) \in Nat /\ i \in 1..Len(s)
  OBVIOUS
<1>2. /\ a \in Seq(S) /\ Len(a) = i - 1
      /\ \A j \in 1..(i - 1) : a[j] = s[j]
  BY <1>1, SubSeqProperties
<1>3. /\ b \in Seq(S) /\ Len(b) = Len(s) - i
      /\ \A j \in 1..(Len(s) - i) : b[j] = s[j + i]
  BY <1>1, SubSeqProperties
<1>4. RemoveAt(s, i) = a \o b
  BY DEF RemoveAt
<1> HIDE DEF a, b
<1>5. /\ a \o b \in Seq(S) /\ Len(a \o b) = Len(a) + Len(b)
      /\ \A j \in 1..(Len(a) + Len(b)) :
           (a \o b)[j] = IF j <= Len(a) THEN a[j] ELSE b[j - Len(a)]
  BY <1>2, <1>3, ConcatProperties
<1>6. Len(a) + Len(b) = Len(s) - 1
  BY <1>1, <1>2, <1>3
<1>7. ASSUME NEW j \in 1..(Len(s) - 1)
      PROVE  (a \o b)[j] = IF j < i THEN s[j] ELSE s[j + 1]
  <2>1. CASE j < i
    BY <1>1, <1>2, <1>5, <1>6, <2>1
  <2>2. CASE ~(j < i)
    <3>1. (a \o b)[j] = b[j - (i - 1)]
      BY <1>1, <1>2, <1>5, <1>6, <2>2
    <3>2. j - (i - 1) \in 1..(Len(s) - i) /\ (j - (i - 1)) + i = j + 1
      BY <1>1, <2>2
    <3> QED
      BY <1>3, <2>2, <3>1, <3>2
  <2> QED
    BY <2>1, <2>2
<1> QED
  BY <1>4, <1>5, <1>6, <1>7

LEMMA AppendType ==
  ASSUME NEW S, NEW s \in Seq(S), NEW x \in S
  PROVE  /\ Append(s, x) \in Seq(S) /\ Len(Append(s, x)) = Len(s) + 1
         /\ DOMAIN Append(s, x) = 1..(Len(s) + 1)
         /\ \A i \in 1..Len(s) : Append(s, x)[i] = s[i]
         /\ Append(s, x)[Len(s) + 1] = x
BY AppendProperties

\* One message more on the wire.
LEMMA ConcatOne ==
  ASSUME NEW S, NEW s \in Seq(S), NEW x \in S
  PROVE  /\ s \o <<x>> \in Seq(S) /\ Len(s \o <<x>>) = Len(s) + 1
         /\ \A i \in 1..Len(s) : (s \o <<x>>)[i] = s[i]
         /\ (s \o <<x>>)[Len(s) + 1] = x
<1> DEFINE t == <<x>>
<1>1. t \in Seq(S) /\ Len(t) = 1 /\ t[1] = x
  OBVIOUS
<1> HIDE DEF t
<1>2. /\ s \o t \in Seq(S) /\ Len(s \o t) = Len(s) + Len(t)
      /\ \A j \in 1..(Len(s) + Len(t)) : (s \o t)[j] = IF j <= Len(s) THEN s[j] ELSE t[j - Len(s)]
  BY <1>1, ConcatProperties
<1>3. Len(s) \in Nat
  OBVIOUS
<1>4. (s \o t)[Len(s) + 1] = t[1]
  BY <1>1, <1>2, <1>3
<1>5. \A i \in 1..Len(s) : (s \o t)[i] = s[i]
  BY <1>1, <1>2, <1>3
<1> QED
  BY <1>1, <1>2, <1>4, <1>5 DEF t

LEMMA TailType ==
  ASSUME NEW S, NEW s \in Seq(S), s # <<>>
  PROVE  /\ Len(s) \in Nat \ {0} /\ Head(s) = s[1] /\ Head(s) \in S
         /\ Tail(s) \in Seq(S) /\ Len(Tail(s)) = Len(s) - 1
         /\ \A i \in 1..(Len(s) - 1) : Tail(s)[i] = s[i + 1]
BY HeadTailProperties

\* The last n entries, as far as there are so many.
LEMMA LatestType ==
  ASSUME NEW S, NEW s \in Seq(S), NEW n \in Nat \ {0}
  PROVE  /\ Latest(n, s) \in Seq(S) /\ Len(Latest(n, s)) \in Nat
         /\ Len(Latest(n, s)) <= n /\ Len(Latest(n, s)) <= Len(s)
         /\ Len(Latest(n, s)) = n \/ Len(Latest(n, s)) = Len(s)
         /\ \A j \in 1..Len(Latest(n, s)) :
              Latest(n, s)[j] = s[Len(s) - Len(Latest(n, s)) + j]
<1> DEFINE m == IF Len(s) > n THEN Len(s) - n + 1 ELSE 1
<1>1. Len(s) \in Nat /\ m \in Nat \ {0} /\ m <= Len(s) + 1
  OBVIOUS
<1>2. Latest(n, s) = SubSeq(s, m, Len(s))
  BY DEF Latest
<1>3. Len(s) - m + 1 = IF Len(s) > n THEN n ELSE Len(s)
  BY <1>1
<1> HIDE DEF m
<1>4. /\ SubSeq(s, m, Len(s)) \in Seq(S) /\ Len(SubSeq(s, m, Len(s))) = Len(s) - m + 1
      /\ \A j \in 1..(Len(s) - m + 1) : SubSeq(s, m, Len(s))[j] = s[m + j - 1]
  BY <1>1, SubSeqProperties
<1>5. Len(Latest(n, s)) \in Nat /\ Len(Latest(n, s)) = Len(s) - m + 1
  BY <1>1, <1>2, <1>4
<1>6. ASSUME NEW j \in 1..Len(Latest(n, s))
      PROVE  Latest(n, s)[j] = s[Len(s) - Len(Latest(n, s)) + j]
  <2>1. Latest(n, s)[j] = s[m + j - 1]
    BY <1>2, <1>4, <1>5
  <2>2. m + j - 1 = Len(s) - Len(Latest(n, s)) + j
    BY <1>1, <1>5
  <2> QED
    BY <2>1, <2>2
<1> QED
  BY <1>1, <1>2, <1>3, <1>4, <1>5, <1>6

-----------------------------------------------------------------------------
(* What a step does to the calls under way                                 *)

LEMMA KindIds == Kinds = {"stats", "log", "list", "change"}
BY DEF Kinds

LEMMA CallsType ==
  ASSUME Types, NEW k \in Kinds
  PROVE  /\ calls \in [Kinds -> Seq(Int)] /\ calls[k] \in Seq(Int) /\ Len(calls[k]) \in Nat
         /\ DOMAIN calls[k] = 1..Len(calls[k]) /\ (calls[k] = <<>> <=> Len(calls[k]) = 0)
BY DEF Types, Calls

\* Only the calls of kind k change.
Only(k) == \A j \in Kinds \ {k} : calls'[j] = calls[j]

LEMMA CallingEffect ==
  ASSUME Types, NEW k \in Kinds, calls' = Calling({k})
  PROVE  /\ calls' \in [Kinds -> Seq(Int)] /\ Only(k)
         /\ Len(calls'[k]) = Len(calls[k]) + 1
         /\ \A j \in 1..Len(calls[k]) : calls'[k][j] = calls[k][j]
         /\ calls'[k][Len(calls[k]) + 1] = NotYet
         /\ DOMAIN calls'[k] = 1..(Len(calls[k]) + 1)
<1>1. \A j \in Kinds : calls'[j] = IF j = k THEN Append(calls[j], NotYet) ELSE calls[j]
  BY DEF Calling
<1>2. NotYet \in Int
  BY DEF NotYet
<1>3. /\ Append(calls[k], NotYet) \in Seq(Int)
      /\ Len(Append(calls[k], NotYet)) = Len(calls[k]) + 1
      /\ \A j \in 1..Len(calls[k]) : Append(calls[k], NotYet)[j] = calls[k][j]
      /\ Append(calls[k], NotYet)[Len(calls[k]) + 1] = NotYet
      /\ DOMAIN Append(calls[k], NotYet) = 1..(Len(calls[k]) + 1)
  BY <1>2, CallsType, AppendType
<1>4. calls' \in [Kinds -> Seq(Int)]
  <2>1. calls' = [j \in Kinds |-> IF j = k THEN Append(calls[j], NotYet) ELSE calls[j]]
    BY DEF Calling
  <2> QED
    BY <1>3, <2>1, CallsType
<1> QED
  BY <1>1, <1>3, <1>4 DEF Only

LEMMA WithoutEffect ==
  ASSUME Types, NEW k \in Kinds, NEW i \in DOMAIN calls[k], calls' = Without(k, i)
  PROVE  /\ calls' \in [Kinds -> Seq(Int)] /\ Only(k)
         /\ Len(calls'[k]) = Len(calls[k]) - 1 /\ Len(calls[k]) \in Nat \ {0}
         /\ DOMAIN calls'[k] = 1..(Len(calls[k]) - 1)
         /\ \A j \in 1..(Len(calls[k]) - 1) :
              calls'[k][j] = IF j < i THEN calls[k][j] ELSE calls[k][j + 1]
<1>1. calls' = [calls EXCEPT ![k] = RemoveAt(calls[k], i)]
  BY DEF Without
<1>2. /\ RemoveAt(calls[k], i) \in Seq(Int) /\ Len(RemoveAt(calls[k], i)) = Len(calls[k]) - 1
      /\ DOMAIN RemoveAt(calls[k], i) = 1..(Len(calls[k]) - 1)
      /\ \A j \in 1..(Len(calls[k]) - 1) :
           RemoveAt(calls[k], i)[j] = IF j < i THEN calls[k][j] ELSE calls[k][j + 1]
  BY CallsType, RemoveAtType
<1>3. calls' \in [Kinds -> Seq(Int)] /\ Only(k) /\ calls'[k] = RemoveAt(calls[k], i)
  BY <1>1, <1>2, CallsType DEF Only
<1>4. Len(calls[k]) \in Nat \ {0}
  BY CallsType
<1> QED
  BY <1>2, <1>3, <1>4

LEMMA AnsweredEffect ==
  ASSUME Types, NEW k \in Kinds, NEW a \in Int, NEW i \in Unanswered(k),
         calls' = Answered(k, i, a)
  PROVE  /\ calls' \in [Kinds -> Seq(Int)] /\ Only(k)
         /\ Len(calls'[k]) = Len(calls[k]) /\ DOMAIN calls'[k] = DOMAIN calls[k]
         /\ i \in DOMAIN calls[k] /\ calls[k][i] = NotYet
         /\ \A j \in DOMAIN calls[k] : calls'[k][j] = IF j = i THEN a ELSE calls[k][j]
<1>1. i \in DOMAIN calls[k] /\ calls[k][i] = NotYet
  BY DEF Unanswered
<1>2. calls' = [calls EXCEPT ![k] = [calls[k] EXCEPT ![i] = a]]
  BY DEF Answered
<1>3. calls' \in [Kinds -> Seq(Int)] /\ Only(k) /\ calls'[k] = [calls[k] EXCEPT ![i] = a]
  <2>1. [calls[k] EXCEPT ![i] = a] \in Seq(Int)
    BY <1>1, CallsType
  <2> QED
    BY <1>2, <2>1, CallsType DEF Only
<1>4. /\ Len(calls'[k]) = Len(calls[k]) /\ DOMAIN calls'[k] = DOMAIN calls[k]
      /\ \A j \in DOMAIN calls[k] : calls'[k][j] = IF j = i THEN a ELSE calls[k][j]
  BY <1>1, <1>3, CallsType
<1> QED
  BY <1>1, <1>3, <1>4

\* The fetch that follows a change takes its place.
LEMMA FetchAfterEffect ==
  ASSUME Types, NEW i \in DOMAIN calls["change"],
         calls' = [Calling({"list"}) EXCEPT !["change"] = RemoveAt(@, i)]
  PROVE  /\ calls' \in [Kinds -> Seq(Int)]
         /\ calls'["stats"] = calls["stats"] /\ calls'["log"] = calls["log"]
         /\ Len(calls'["list"]) = Len(calls["list"]) + 1
         /\ DOMAIN calls'["list"] = 1..(Len(calls["list"]) + 1)
         /\ \A j \in 1..Len(calls["list"]) : calls'["list"][j] = calls["list"][j]
         /\ calls'["list"][Len(calls["list"]) + 1] = NotYet
         /\ Len(calls'["change"]) = Len(calls["change"]) - 1
<1>1. NotYet \in Int
  BY DEF NotYet
<1> DEFINE l == Append(calls["list"], NotYet)
           c == RemoveAt(calls["change"], i)
<1>2. /\ l \in Seq(Int) /\ Len(l) = Len(calls["list"]) + 1
      /\ DOMAIN l = 1..(Len(calls["list"]) + 1)
      /\ \A j \in 1..Len(calls["list"]) : l[j] = calls["list"][j]
      /\ l[Len(calls["list"]) + 1] = NotYet
  BY <1>1, KindIds, CallsType, AppendType
<1>3. c \in Seq(Int) /\ Len(c) = Len(calls["change"]) - 1
  BY KindIds, CallsType, RemoveAtType
<1>4. calls' = [j \in Kinds |-> IF j = "list" THEN l ELSE IF j = "change" THEN c ELSE calls[j]]
  <2>1. Calling({"list"}) = [j \in Kinds |-> IF j = "list" THEN l ELSE calls[j]]
    BY DEF Calling
  <2> QED
    BY <2>1, KindIds
<1> HIDE DEF l, c
<1>5. /\ calls'["list"] = l /\ calls'["change"] = c
      /\ calls'["stats"] = calls["stats"] /\ calls'["log"] = calls["log"]
  BY <1>4, KindIds
<1>6. calls' \in [Kinds -> Seq(Int)]
  BY <1>2, <1>3, <1>4, CallsType
<1> QED
  BY <1>2, <1>3, <1>5, <1>6

LEMMA NumberTypes ==
  ASSUME Types
  PROVE  /\ stats \in Nat /\ events \in Nat /\ list \in Nat /\ list <= events
         /\ MaxCalls \in Nat /\ MaxStats \in Nat /\ MaxEvents \in Nat /\ MaxDue \in Nat
         /\ FetchCap \in Nat \ {0} /\ DomCap \in Nat \ {0} /\ DomCap > FetchCap
BY DashboardAssumption DEF Types, Counters

\* The calls of kind k are those there were, and perhaps one with the value a.
From(k, a) ==
  \A j \in DOMAIN calls'[k] :
    calls'[k][j] = a \/ \E i \in DOMAIN calls[k] : calls'[k][j] = calls[k][i]

LEMMA CallsKeep ==
  ASSUME Types, NEW k \in Kinds, NEW a \in Int, calls' \in [Kinds -> Seq(Int)], Only(k),
         From(k, a), events' \in Nat, events <= events',
         k = "stats" => a \in {NotYet} \cup 0..MaxStats,
         k = "log" => a \in {NotYet} \cup Nat,
         k = "list" => a \in {NotYet} \cup 0..events,
         \/ Len(calls'[k]) <= Len(calls[k])
         \/ k \in {"stats", "log"} /\ Len(calls'[k]) <= MaxCalls
         \/ k \in {"list", "change"} /\ RoomForList /\ Len(calls'[k]) = Len(calls[k]) + 1
  PROVE  Calls'
<1>1. /\ \A i \in DOMAIN calls["stats"] : calls["stats"][i] \in {NotYet} \cup 0..MaxStats
      /\ \A i \in DOMAIN calls["log"] : calls["log"][i] \in {NotYet} \cup Nat
      /\ \A i \in DOMAIN calls["list"] : calls["list"][i] \in {NotYet} \cup 0..events
      /\ Len(calls["stats"]) <= MaxCalls /\ Len(calls["log"]) <= MaxCalls
      /\ Len(calls["list"]) + Len(calls["change"]) <= MaxCalls
  BY DEF Types, Calls
<1>2. 0..events \subseteq 0..events'
  BY NumberTypes
<1>3. /\ "stats" \in Kinds /\ "log" \in Kinds /\ "list" \in Kinds /\ "change" \in Kinds
      /\ k \in {"stats", "log", "list", "change"}
  BY KindIds
<1>4. \A j \in Kinds : Len(calls[j]) \in Nat /\ Len(calls'[j]) \in Nat
  BY CallsType
<1>5. /\ "stats" # k => calls'["stats"] = calls["stats"]
      /\ "log" # k => calls'["log"] = calls["log"]
      /\ "list" # k => calls'["list"] = calls["list"]
      /\ "change" # k => calls'["change"] = calls["change"]
  BY <1>3 DEF Only
<1>6. \A i \in DOMAIN calls'["stats"] : calls'["stats"][i] \in {NotYet} \cup 0..MaxStats
  <2>1. CASE k = "stats"
    BY <1>1, <2>1 DEF From
  <2> QED
    BY <1>1, <1>5, <2>1
<1>7. \A i \in DOMAIN calls'["log"] : calls'["log"][i] \in {NotYet} \cup Nat
  <2>1. CASE k = "log"
    BY <1>1, <2>1 DEF From
  <2> QED
    BY <1>1, <1>5, <2>1
<1>8. \A i \in DOMAIN calls'["list"] : calls'["list"][i] \in {NotYet} \cup 0..events'
  <2>1. CASE k = "list"
    BY <1>1, <1>2, <2>1 DEF From
  <2> QED
    BY <1>1, <1>2, <1>5, <2>1
<1>9. Len(calls'["stats"]) <= MaxCalls
  <2>1. CASE k = "stats"
    <3>1. PICK m \in Nat, n \in Nat : m = Len(calls["stats"]) /\ n = Len(calls'["stats"])
      BY <1>3, <1>4
    <3>2. m <= MaxCalls /\ (n <= m \/ n <= MaxCalls) /\ MaxCalls \in Nat
      BY <1>1, <2>1, <3>1, NumberTypes
    <3>3. n <= MaxCalls
      BY <3>2
    <3> QED
      BY <3>1, <3>3
  <2> QED
    BY <1>1, <1>5, <2>1
<1>10. Len(calls'["log"]) <= MaxCalls
  <2>1. CASE k = "log"
    <3>1. PICK m \in Nat, n \in Nat : m = Len(calls["log"]) /\ n = Len(calls'["log"])
      BY <1>3, <1>4
    <3>2. m <= MaxCalls /\ (n <= m \/ n <= MaxCalls) /\ MaxCalls \in Nat
      BY <1>1, <2>1, <3>1, NumberTypes
    <3>3. n <= MaxCalls
      BY <3>2
    <3> QED
      BY <3>1, <3>3
  <2> QED
    BY <1>1, <1>5, <2>1
<1>11. Len(calls'["list"]) + Len(calls'["change"]) <= MaxCalls
  <2>1. CASE k = "list"
    <3>1. calls'["change"] = calls["change"]
      BY <1>5, <2>1
    <3>2. \/ Len(calls'["list"]) <= Len(calls["list"])
          \/ /\ Len(calls["list"]) + Len(calls["change"]) < MaxCalls
             /\ Len(calls'["list"]) = Len(calls["list"]) + 1
      BY <2>1 DEF RoomForList, UnderWay
    <3>3. Len(calls["list"]) \in Nat /\ Len(calls["change"]) \in Nat /\ Len(calls'["list"]) \in Nat
      BY <1>3, <1>4
    <3>4. MaxCalls \in Nat /\ Len(calls["list"]) + Len(calls["change"]) <= MaxCalls
      BY <1>1, NumberTypes
    <3>5. PICK a1 \in Nat, a2 \in Nat, b \in Nat :
            a1 = Len(calls["list"]) /\ a2 = Len(calls["change"]) /\ b = Len(calls'["list"])
      BY <3>3
    <3>6. b + a2 <= MaxCalls
      <4>1. /\ MaxCalls \in Nat /\ a1 + a2 <= MaxCalls
            /\ b <= a1 \/ (a1 + a2 < MaxCalls /\ b = a1 + 1)
        BY <3>2, <3>4, <3>5
      <4> QED
        BY <4>1
    <3> QED
      BY <3>1, <3>5, <3>6
  <2>2. CASE k = "change"
    <3>1. calls'["list"] = calls["list"]
      BY <1>5, <2>2
    <3>2. \/ Len(calls'["change"]) <= Len(calls["change"])
          \/ /\ Len(calls["list"]) + Len(calls["change"]) < MaxCalls
             /\ Len(calls'["change"]) = Len(calls["change"]) + 1
      BY <2>2 DEF RoomForList, UnderWay
    <3>3. Len(calls["list"]) \in Nat /\ Len(calls["change"]) \in Nat /\ Len(calls'["change"]) \in Nat
      BY <1>3, <1>4
    <3>4. MaxCalls \in Nat /\ Len(calls["list"]) + Len(calls["change"]) <= MaxCalls
      BY <1>1, NumberTypes
    <3>5. PICK a1 \in Nat, a2 \in Nat, b \in Nat :
            a1 = Len(calls["list"]) /\ a2 = Len(calls["change"]) /\ b = Len(calls'["change"])
      BY <3>3
    <3>6. a1 + b <= MaxCalls
      <4>1. /\ MaxCalls \in Nat /\ a1 + a2 <= MaxCalls
            /\ b <= a2 \/ (a1 + a2 < MaxCalls /\ b = a2 + 1)
        BY <3>2, <3>4, <3>5
      <4> QED
        BY <4>1
    <3> QED
      BY <3>1, <3>5, <3>6
  <2> QED
    BY <1>1, <1>5, <2>1, <2>2
<1> QED
  BY <1>6, <1>7, <1>8, <1>9, <1>10, <1>11 DEF Calls

LEMMA CallingCalls ==
  ASSUME Types, NEW k \in Kinds, calls' = Calling({k}), UNCHANGED events,
         \/ k \in {"stats", "log"} /\ RoomFor(k)
         \/ k \in {"list", "change"} /\ RoomForList
  PROVE  Calls'
<1>1. /\ calls' \in [Kinds -> Seq(Int)] /\ Only(k)
      /\ Len(calls'[k]) = Len(calls[k]) + 1 /\ Len(calls[k]) \in Nat
  BY CallingEffect, CallsType
<1>2. From(k, NotYet)
  <2>1. /\ DOMAIN calls'[k] = 1..(Len(calls[k]) + 1) /\ DOMAIN calls[k] = 1..Len(calls[k])
        /\ \A j \in 1..Len(calls[k]) : calls'[k][j] = calls[k][j]
        /\ calls'[k][Len(calls[k]) + 1] = NotYet
    BY CallingEffect, CallsType
  <2>2. ASSUME NEW j \in DOMAIN calls'[k]
        PROVE  calls'[k][j] = NotYet \/ \E i \in DOMAIN calls[k] : calls'[k][j] = calls[k][i]
    <3>1. j = Len(calls[k]) + 1 \/ j \in 1..Len(calls[k])
      BY <1>1, <2>1
    <3> QED
      BY <2>1, <3>1
  <2> QED
    BY <2>2 DEF From
<1>3. NotYet \in Int /\ events' \in Nat /\ events <= events'
  BY NumberTypes DEF NotYet
<1>4. k \in {"stats", "log"} => Len(calls'[k]) <= MaxCalls
  BY <1>1, NumberTypes DEF RoomFor, UnderWay
<1> QED
  BY <1>1, <1>2, <1>3, <1>4, CallsKeep

LEMMA WithoutCalls ==
  ASSUME Types, NEW k \in Kinds, NEW i \in DOMAIN calls[k], calls' = Without(k, i),
         UNCHANGED events
  PROVE  Calls'
<1>1. /\ calls' \in [Kinds -> Seq(Int)] /\ Only(k)
      /\ Len(calls'[k]) = Len(calls[k]) - 1 /\ Len(calls[k]) \in Nat
  BY WithoutEffect, CallsType
<1>2. ASSUME NEW j \in DOMAIN calls'[k]
      PROVE  \E m \in DOMAIN calls[k] : calls'[k][j] = calls[k][m]
  <2>1. /\ j \in 1..(Len(calls[k]) - 1) /\ Len(calls[k]) \in Nat
        /\ DOMAIN calls[k] = 1..Len(calls[k])
        /\ calls'[k][j] = IF j < i THEN calls[k][j] ELSE calls[k][j + 1]
    BY WithoutEffect, CallsType
  <2>2. j \in DOMAIN calls[k] /\ j + 1 \in DOMAIN calls[k]
    BY <2>1
  <2> QED
    BY <2>1, <2>2
<1>3. From(k, NotYet)
  BY <1>2 DEF From
<1>4. NotYet \in Int /\ events' \in Nat /\ events <= events' /\ Len(calls'[k]) <= Len(calls[k])
  BY <1>1, NumberTypes DEF NotYet
<1> QED
  BY <1>1, <1>3, <1>4, CallsKeep

LEMMA AnsweredCalls ==
  ASSUME Types, NEW k \in Kinds, NEW a \in Nat, NEW i \in Unanswered(k),
         calls' = Answered(k, i, a), events' \in Nat, events <= events',
         k = "stats" => a <= MaxStats, k = "list" => a <= events
  PROVE  Calls'
<1>1. /\ calls' \in [Kinds -> Seq(Int)] /\ Only(k) /\ a \in Int
      /\ Len(calls'[k]) = Len(calls[k]) /\ Len(calls[k]) \in Nat
  BY AnsweredEffect, CallsType
<1>2. From(k, a)
  <2>1. /\ DOMAIN calls'[k] = DOMAIN calls[k]
        /\ \A j \in DOMAIN calls[k] : calls'[k][j] = IF j = i THEN a ELSE calls[k][j]
    BY AnsweredEffect
  <2> QED
    BY <2>1 DEF From
<1>3. /\ k = "stats" => a \in 0..MaxStats
      /\ k = "list" => a \in 0..events
      /\ Len(calls'[k]) <= Len(calls[k])
  BY <1>1, NumberTypes
<1> QED
  BY <1>1, <1>2, <1>3, CallsKeep

LEMMA FetchAfterCalls ==
  ASSUME Types, NEW i \in DOMAIN calls["change"], UNCHANGED events,
         calls' = [Calling({"list"}) EXCEPT !["change"] = RemoveAt(@, i)]
  PROVE  Calls'
<1>1. /\ calls' \in [Kinds -> Seq(Int)]
      /\ calls'["stats"] = calls["stats"] /\ calls'["log"] = calls["log"]
      /\ Len(calls'["list"]) + Len(calls'["change"]) = Len(calls["list"]) + Len(calls["change"])
  <2>1. "list" \in Kinds /\ "change" \in Kinds
    BY KindIds
  <2>2. Len(calls["list"]) \in Nat /\ Len(calls["change"]) \in Nat
    BY <2>1, CallsType
  <2>3. /\ Len(calls'["list"]) = Len(calls["list"]) + 1
        /\ Len(calls'["change"]) = Len(calls["change"]) - 1
        /\ calls' \in [Kinds -> Seq(Int)]
        /\ calls'["stats"] = calls["stats"] /\ calls'["log"] = calls["log"]
    BY FetchAfterEffect
  <2>4. PICK a \in Nat, b \in Nat : a = Len(calls["list"]) /\ b = Len(calls["change"])
    BY <2>2
  <2>5. Len(calls'["list"]) + Len(calls'["change"]) = a + b
    <3>1. Len(calls'["list"]) = a + 1 /\ Len(calls'["change"]) = b - 1
      BY <2>3, <2>4
    <3>2. (a + 1) + (b - 1) = a + b
      OBVIOUS
    <3> QED
      BY <3>1, <3>2, Zenon
  <2> QED
    BY <2>3, <2>4, <2>5, Zenon
<1>2. \A j \in DOMAIN calls'["list"] : calls'["list"][j] \in {NotYet} \cup 0..events
  <2>1. /\ DOMAIN calls'["list"] = 1..(Len(calls["list"]) + 1) /\ Len(calls["list"]) \in Nat
        /\ DOMAIN calls["list"] = 1..Len(calls["list"])
        /\ \A j \in 1..Len(calls["list"]) : calls'["list"][j] = calls["list"][j]
        /\ calls'["list"][Len(calls["list"]) + 1] = NotYet
    BY KindIds, CallsType, FetchAfterEffect
  <2>2. ASSUME NEW j \in DOMAIN calls'["list"]
        PROVE  calls'["list"][j] \in {NotYet} \cup 0..events
    <3>1. j = Len(calls["list"]) + 1 \/ j \in 1..Len(calls["list"])
      BY <2>1
    <3> QED
      BY <2>1, <3>1 DEF Types, Calls
  <2> QED
    BY <2>2
<1> QED
  BY <1>1, <1>2 DEF Types, Calls

-----------------------------------------------------------------------------
(* What a step does to the wire and to the page                            *)

LEMMA WireType ==
  ASSUME Types
  PROVE  /\ wire \in Seq(Message) /\ Len(wire) \in Nat /\ DOMAIN wire = 1..Len(wire)
         /\ (wire = <<>> <=> Len(wire) = 0)
         /\ \A i \in 1..Len(wire) : wire[i].data \in Nat /\ wire[i].type \in {"event", "stats"}
<1>1. wire \in Seq(Message)
  BY DEF Types, OnTheWire
<1>2. \A i \in 1..Len(wire) : wire[i] \in Message
  BY <1>1
<1>3. \A i \in 1..Len(wire) : wire[i].data \in Nat /\ wire[i].type \in {"event", "stats"}
  BY <1>2 DEF Message
<1> HIDE DEF Message
<1> QED
  BY <1>1, <1>3

LEMMA PageType ==
  ASSUME Types
  PROVE  /\ shown \in Page /\ shown.log \in Seq(Nat) /\ Len(shown.log) \in Nat
         /\ DOMAIN shown.log = 1..Len(shown.log)
         /\ shown.stats \in 0..MaxStats /\ shown.list \in Int
BY DEF Types, Shown, Page

LEMMA DueType ==
  ASSUME Types
  PROVE  /\ due \in Seq(Nat) /\ Len(due) \in Nat /\ Len(due) <= MaxDue
         /\ DOMAIN due = 1..Len(due) /\ (due = <<>> <=> Len(due) = 0)
         /\ \A i \in DOMAIN due : due[i] \in Nat
         /\ cleared \in Nat /\ cleared <= events
<1>1. due \in Seq(Nat) /\ Len(due) <= MaxDue /\ cleared \in 0..events
  BY DEF Types, Counters
<1>2. events \in Nat
  BY NumberTypes
<1> QED
  BY <1>1, <1>2

\* _log: one event more, and for a page that follows the log it is the last of
\* those to be broadcast.
LEMMA LogsEffect ==
  ASSUME Types, NEW s \in 0..MaxStats, Logs(s)
  PROVE  /\ events' = events + 1 /\ events' \in 0..MaxEvents
         /\ due' \in Seq(Nat) /\ Len(due') <= MaxDue
         /\ panel = "log" => due' # <<>> /\ due'[Len(due')] = events'
<1>1. events' = events + 1 /\ events' \in 0..MaxEvents /\ events + 1 \in Nat /\ s \in Nat
  BY NumberTypes DEF Logs
<1>2. Len(due) < MaxDue /\ due' = due \o Used(events + 1, s)
  BY DEF Logs
<1>3. ASSUME NEW d \in Nat, due' = due \o <<d>>
      PROVE  /\ due' \in Seq(Nat) /\ Len(due') <= MaxDue
             /\ due' # <<>> /\ due'[Len(due')] = d
  <2>1. /\ due' \in Seq(Nat) /\ Len(due') = Len(due) + 1 /\ due'[Len(due) + 1] = d
        /\ Len(due) \in Nat /\ MaxDue \in Nat
    BY <1>3, DueType, NumberTypes, ConcatOne
  <2> QED
    BY <1>2, <2>1
<1>4. CASE panel = "log"
  <2>1. PICK d \in Nat : d = events + 1
    BY <1>1
  <2>2. due' = due \o <<d>>
    BY <1>2, <1>4, <2>1 DEF Used
  <2> QED
    BY <1>1, <1>3, <2>1, <2>2
<1>5. CASE panel = "stats"
  <2>1. due' = due \o <<s>>
    BY <1>2, <1>5 DEF Used
  <2> QED
    BY <1>1, <1>3, <1>5, <2>1
<1>6. CASE panel \notin {"log", "stats"}
  <2>1. due' = due \o <<>>
    BY <1>2, <1>6 DEF Used
  <2>2. due' = due
    BY <2>1, DueType, ConcatEmptySeq
  <2> QED
    BY <1>1, <1>6, <2>2, DueType
<1> QED
  BY <1>4, <1>5, <1>6

\* A broadcast has come to the page, or has failed: what is left to come.
LEMMA DueLess ==
  ASSUME Types, NEW i \in DOMAIN due, due' = RemoveAt(due, i)
  PROVE  /\ due' \in Seq(Nat) /\ Len(due') <= MaxDue
         /\ due' # <<>> /\ i = 1 => due # <<>> /\ due'[Len(due')] = due[Len(due)]
         /\ due' = <<>> => Len(due) = 1 /\ i = 1
<1>1. /\ due \in Seq(Nat) /\ Len(due) \in Nat /\ Len(due) <= MaxDue /\ i \in 1..Len(due)
      /\ MaxDue \in Nat
  BY DueType, NumberTypes
<1>2. /\ due' \in Seq(Nat) /\ Len(due') = Len(due) - 1
      /\ \A j \in 1..(Len(due) - 1) : due'[j] = IF j < i THEN due[j] ELSE due[j + 1]
  BY <1>1, RemoveAtType
<1>3. ASSUME due' # <<>>, i = 1 PROVE due # <<>> /\ due'[Len(due')] = due[Len(due)]
  <2>1. Len(due') > 0 /\ Len(due') \in 1..(Len(due) - 1) /\ Len(due') + 1 = Len(due)
    BY <1>1, <1>2, <1>3
  <2>2. due'[Len(due')] = due[Len(due') + 1]
    BY <1>2, <1>3, <2>1
  <2> QED
    BY <1>1, <2>1, <2>2
<1>4. ASSUME due' = <<>> PROVE Len(due) = 1 /\ i = 1
  <2>1. Len(due) - 1 = 0
    BY <1>2, <1>4
  <2> QED
    BY <1>1, <2>1
<1>5. Len(due') <= MaxDue
  BY <1>1, <1>2
<1> QED
  BY <1>2, <1>3, <1>4, <1>5

\* What a broadcast puts on the wire.
LEMMA SentType ==
  ASSUME Types, NEW d \in Nat, NEW m \in Sent(d)
  PROVE  /\ m \in Message
         /\ m.type = "stats" => m.data \in 0..MaxStats
         /\ panel = "log" => m.type = "event" /\ m.data = d
<1>1. stats \in Nat /\ stats <= MaxStats /\ MaxStats \in Nat
  BY NumberTypes DEF Types, Counters
<1>2. CASE panel = "log"
  <2>1. m = [type |-> "event", data |-> d]
    BY <1>2 DEF Sent
  <2> QED
    BY <2>1 DEF Message
<1>3. CASE panel # "log"
  <2>1. PICK n \in d..stats : m = [type |-> "stats", data |-> n]
    BY <1>3 DEF Sent
  <2>2. n \in 0..MaxStats /\ n \in Nat
    BY <1>1
  <2> QED
    BY <1>3, <2>1, <2>2 DEF Message
<1> QED
  BY <1>2, <1>3

LEMMA WireMore ==
  ASSUME Types, NEW m \in Message, m.type = "stats" => m.data \in 0..MaxStats,
         Connected, wire' = Append(wire, m), UNCHANGED ws
  PROVE  /\ OnTheWire' /\ wire' # <<>> /\ wire'[Len(wire')] = m
         /\ \A i \in DOMAIN wire' : (i \in DOMAIN wire /\ wire'[i] = wire[i]) \/ wire'[i] = m
<1>1. /\ wire' \in Seq(Message) /\ Len(wire') = Len(wire) + 1
      /\ \A i \in 1..Len(wire) : wire'[i] = wire[i]
      /\ wire'[Len(wire) + 1] = m /\ DOMAIN wire' = 1..(Len(wire) + 1)
  BY WireType, AppendType
<1>2. Len(wire) \in Nat /\ DOMAIN wire = 1..Len(wire)
  BY WireType
<1>3. ASSUME NEW i \in DOMAIN wire' PROVE (i \in DOMAIN wire /\ wire'[i] = wire[i]) \/ wire'[i] = m
  <2>1. i = Len(wire) + 1 \/ i \in 1..Len(wire)
    BY <1>1, <1>2
  <2> QED
    BY <1>1, <1>2, <2>1
<1>4. OnTheWire'
  BY <1>1, <1>3 DEF Types, OnTheWire, Connected
<1>5. wire' # <<>>
  BY <1>1, <1>2
<1> QED
  BY <1>1, <1>3, <1>4, <1>5

\* Where appendLog puts the entries: those that were last stay last.
LEMMA AppendLogEffect ==
  ASSUME Types, NEW entries \in Seq(Nat), shown' = AppendLog(entries)
  PROVE  /\ shown' = [shown EXCEPT !.log = shown'.log] /\ shown' \in Page
         /\ shown'.list = shown.list /\ shown'.stats = shown.stats
         /\ shown'.log \in Seq(Nat) /\ Len(shown'.log) \in Nat /\ Len(shown'.log) <= DomCap
         /\ \A j \in 0..(Len(entries) - 1) : j < DomCap =>
              /\ Len(shown'.log) - j \in DOMAIN shown'.log
              /\ shown'.log[Len(shown'.log) - j] = entries[Len(entries) - j]
         /\ shown.log # <<>> /\ Len(entries) < DomCap =>
              /\ Len(shown'.log) - Len(entries) \in DOMAIN shown'.log
              /\ shown'.log[Len(shown'.log) - Len(entries)] = shown.log[Len(shown.log)]
<1> DEFINE s == shown.log \o entries
           l == Latest(DomCap, s)
<1>1. /\ s \in Seq(Nat) /\ Len(s) = Len(shown.log) + Len(entries)
      /\ \A j \in 1..(Len(shown.log) + Len(entries)) :
           s[j] = IF j <= Len(shown.log) THEN shown.log[j] ELSE entries[j - Len(shown.log)]
  BY PageType, ConcatProperties
<1>2. shown' = [shown EXCEPT !.log = l]
  BY DEF AppendLog
<1> HIDE DEF s
<1>3. /\ l \in Seq(Nat) /\ Len(l) \in Nat /\ Len(l) <= DomCap /\ Len(l) <= Len(s)
      /\ Len(l) = DomCap \/ Len(l) = Len(s)
      /\ \A j \in 1..Len(l) : l[j] = s[Len(s) - Len(l) + j]
  <2>1. s \in Seq(Nat) /\ DomCap \in Nat \ {0}
    BY <1>1, NumberTypes
  <2> QED
    BY <2>1, LatestType
<1> HIDE DEF l
<1>4. /\ shown'.log = l /\ shown' \in Page /\ shown'.list = shown.list
      /\ shown'.stats = shown.stats /\ DOMAIN l = 1..Len(l)
  <2>1. l \in Seq(Nat) /\ DOMAIN l = 1..Len(l)
    BY <1>3
  <2> QED
    BY <1>2, <2>1, PageType DEF Page
<1>5. Len(shown.log) \in Nat /\ Len(entries) \in Nat /\ Len(s) \in Nat /\ DomCap \in Nat
  BY <1>1, PageType, NumberTypes
<1>6. ASSUME NEW j \in 0..(Len(s) - 1), j < DomCap
      PROVE  Len(l) - j \in 1..Len(l) /\ l[Len(l) - j] = s[Len(s) - j]
  <2>1. Len(l) - j \in 1..Len(l)
    BY <1>3, <1>5, <1>6
  <2>2. Len(s) - Len(l) + (Len(l) - j) = Len(s) - j
    BY <1>3, <1>5
  <2> QED
    BY <1>3, <2>1, <2>2
<1>7. ASSUME NEW j \in 0..(Len(entries) - 1), j < DomCap
      PROVE  /\ Len(l) - j \in DOMAIN l
             /\ l[Len(l) - j] = entries[Len(entries) - j]
  <2>1. j \in 0..(Len(s) - 1)
    BY <1>1, <1>5
  <2>2. /\ Len(s) - j \in 1..(Len(shown.log) + Len(entries)) /\ ~(Len(s) - j <= Len(shown.log))
        /\ Len(s) - j - Len(shown.log) = Len(entries) - j
    BY <1>1, <1>5
  <2>3. s[Len(s) - j] = entries[Len(entries) - j]
    BY <1>1, <2>2
  <2> QED
    BY <1>4, <1>6, <1>7, <2>1, <2>3
<1>8. ASSUME shown.log # <<>>, Len(entries) < DomCap
      PROVE  /\ Len(l) - Len(entries) \in DOMAIN l
             /\ l[Len(l) - Len(entries)] = shown.log[Len(shown.log)]
  <2>1. Len(shown.log) > 0
    BY <1>8, PageType
  <2>2. Len(entries) \in 0..(Len(s) - 1)
    BY <1>1, <1>5, <2>1
  <2>3. /\ Len(s) - Len(entries) = Len(shown.log)
        /\ Len(shown.log) \in 1..(Len(shown.log) + Len(entries))
    BY <1>1, <1>5, <2>1
  <2>4. s[Len(s) - Len(entries)] = shown.log[Len(shown.log)]
    BY <1>1, <1>5, <2>3
  <2> QED
    BY <1>4, <1>6, <1>8, <2>2, <2>4
<1> QED
  BY <1>2, <1>3, <1>4, <1>7, <1>8

\* What get_log answers.
LEMMA FetchedType ==
  ASSUME NEW n \in Nat, FetchCap \in Nat \ {0}
  PROVE  LET f == Latest(FetchCap, [e \in 1..n |-> e])
         IN  /\ f \in Seq(Nat) /\ Len(f) \in Nat /\ Len(f) <= FetchCap
             /\ n > 0 => Len(f) > 0 /\ f[Len(f)] = n
<1> DEFINE s == [e \in 1..n |-> e]
           f == Latest(FetchCap, s)
<1>1. s \in Seq(Nat) /\ Len(s) = n /\ \A j \in 1..n : s[j] = j
  OBVIOUS
<1> HIDE DEF s
<1>2. /\ f \in Seq(Nat) /\ Len(f) \in Nat /\ Len(f) <= FetchCap
      /\ Len(f) = FetchCap \/ Len(f) = n
      /\ \A j \in 1..Len(f) : f[j] = s[Len(s) - Len(f) + j] 
      /\ Len(f) <= Len(s)
  BY <1>1, LatestType
<1> HIDE DEF f
<1>3. ASSUME n > 0 PROVE Len(f) > 0 /\ f[Len(f)] = n
  <2>1. Len(f) > 0
    BY <1>2, <1>3
  <2>2. Len(f) \in 1..Len(f) /\ Len(s) - Len(f) + Len(f) = n
    BY <1>1, <1>2, <2>1
  <2>3. f[Len(f)] = s[n]
    BY <1>2, <2>2
  <2> QED
    BY <1>1, <1>3, <2>1, <2>3
<1> QED
  BY <1>2, <1>3 DEF f, s

-----------------------------------------------------------------------------
(* Types                                                                   *)

LEMMA CallsLater ==
  ASSUME Types, UNCHANGED calls, events' \in Nat, events <= events'
  PROVE  Calls'
<1>1. 0..events \subseteq 0..events'
  BY NumberTypes
<1> QED
  BY <1>1 DEF Types, Calls

LEMMA ShownLater ==
  ASSUME Types, UNCHANGED shown, events' \in Nat, events <= events'
  PROVE  Shown'
<1>1. 0..events \subseteq 0..events'
  BY NumberTypes
<1> QED
  BY <1>1 DEF Types, Shown

LEMMA WireSame ==
  ASSUME Types, UNCHANGED wire, Connected' <=> Connected
  PROVE  OnTheWire'
BY DEF Types, OnTheWire

LEMMA TypesInit == Init => Types
<1> SUFFICES ASSUME Init PROVE Types
  OBVIOUS
<1>0. MaxStats \in Nat /\ MaxEvents \in Nat /\ MaxCalls \in Nat /\ DomCap \in Nat
      /\ MaxDue \in Nat
  BY DashboardAssumption
<1>1. Counters
  <2>1. /\ stats = 0 /\ events = 0 /\ list = 0 /\ panel \in Panels /\ ws = "connecting"
        /\ log_excused = FALSE /\ list_excused = FALSE /\ cleared = 0 /\ due = <<>>
    BY DEF Init
  <2>2. /\ stats \in 0..MaxStats /\ events \in 0..MaxEvents /\ list \in 0..events
        /\ cleared \in 0..events /\ due \in Seq(Nat) /\ Len(due) <= MaxDue
    BY <1>0, <2>1
  <2> QED
    BY <2>1, <2>2 DEF Counters
<1>2. OnTheWire
  BY DEF Init, OnTheWire
<1>3. Calls
  <2>1. calls \in [Kinds -> Seq(Int)] /\ \A k \in Kinds : calls[k] = <<>>
    BY DEF Init
  <2>2. /\ calls["stats"] = <<>> /\ calls["log"] = <<>>
        /\ calls["list"] = <<>> /\ calls["change"] = <<>>
    BY <2>1, KindIds
  <2> QED
    BY <1>0, <2>1, <2>2 DEF Calls
<1>4. Shown
  <2>1. /\ shown = [stats |-> 0, log |-> <<>>, list |-> NONE] /\ NONE \in Int
        /\ 0 \in 0..MaxStats /\ <<>> \in Seq(Nat)
    BY <1>0 DEF Init, NONE
  <2>2. shown \in Page /\ shown.list = NONE /\ shown.log = <<>>
    BY <2>1 DEF Page
  <2> QED
    BY <1>0, <2>2 DEF Shown
<1> QED
  BY <1>1, <1>2, <1>3, <1>4 DEF Types

\* An event is logged; what else the step changes is its own matter.
LEMMA TypesLogs ==
  ASSUME Types, stats' \in 0..MaxStats, Logs(stats'),
         UNCHANGED <<panel, ws, wire, shown, log_excused, cleared>>,
         list' \in {list, events + 1}, list_excused' \in BOOLEAN, Calls'
  PROVE  Types'
<1>1. /\ events' = events + 1 /\ events' \in 0..MaxEvents
      /\ due' \in Seq(Nat) /\ Len(due') <= MaxDue
  BY LogsEffect
<1>2. events' \in Nat /\ events <= events' /\ list' \in 0..events' /\ cleared' \in 0..events'
  BY <1>1, NumberTypes, DueType
<1>3. Counters'
  BY <1>1, <1>2 DEF Types, Counters
<1>4. OnTheWire'
  BY WireSame DEF Connected
<1> QED
  BY <1>1, <1>2, <1>3, <1>4, ShownLater DEF Types

\* A broadcast comes to the page, or fails.
LEMMA TypesPush ==
  ASSUME Types, Push \/ PushFails
  PROVE  Types'
<1>1. UNCHANGED <<panel, stats, events, list, ws, calls, shown, list_excused, cleared>>
  BY DEF Push, PushFails
<1>2. PICK i \in DOMAIN due :
        /\ due' = RemoveAt(due, i)
        /\ log_excused' = (log_excused \/ (panel = "log" /\ i # 1))
             \/ log_excused' = (log_excused \/ panel = "log")
        /\ \/ UNCHANGED wire
           \/ Connected /\ \E m \in Sent(due[i]) : wire' = Append(wire, m)
  BY DEF Push, PushFails
<1>3. due' \in Seq(Nat) /\ Len(due') <= MaxDue
  BY <1>2, DueLess
<1>4. log_excused' \in BOOLEAN
  BY <1>2 DEF Types, Counters
<1>5. Counters'
  BY <1>1, <1>3, <1>4 DEF Types, Counters
<1>6. OnTheWire'
  <2>1. CASE UNCHANGED wire
    BY <1>1, <2>1, WireSame DEF Connected
  <2>2. CASE Connected /\ \E m \in Sent(due[i]) : wire' = Append(wire, m)
    <3>1. PICK m \in Sent(due[i]) : wire' = Append(wire, m)
      BY <2>2
    <3>2. m \in Message /\ (m.type = "stats" => m.data \in 0..MaxStats)
      BY DueType, SentType
    <3> QED
      BY <1>1, <2>2, <3>1, <3>2, WireMore
  <2> QED
    BY <1>2, <2>1, <2>2
<1>7. Calls' /\ Shown'
  BY <1>1 DEF Types, Calls, Shown
<1> QED
  BY <1>5, <1>6, <1>7 DEF Types

LEMMA TypesFirewall ==
  ASSUME Types,
         \/ AllowPacket \/ BlockPacket \/ OtherChange
         \/ AnswerStats \/ AnswerLog \/ AnswerList \/ AnswerChange \/ RefuseChange
  PROVE  Types'
<1>0. /\ stats \in 0..MaxStats /\ events \in Nat /\ list \in 0..events
      /\ log_excused \in BOOLEAN /\ list_excused \in BOOLEAN
  BY NumberTypes DEF Types, Counters
<1>1. CASE AllowPacket
  <2>1. stats' \in 0..MaxStats
    BY <1>1, NumberTypes DEF AllowPacket
  <2>2. Counters'
    BY <1>1, <2>1 DEF AllowPacket, Types, Counters
  <2> QED
    BY <1>1, <2>2 DEF AllowPacket, Types, OnTheWire, Connected, Calls, Shown
<1>2. CASE BlockPacket
  <2>1. stats' \in 0..MaxStats /\ Logs(stats')
    BY <1>2, NumberTypes DEF BlockPacket
  <2>2. events' \in Nat /\ events <= events'
    BY <1>0, <1>2 DEF BlockPacket, Logs
  <2>3. Calls'
    BY <1>2, <2>2, CallsLater DEF BlockPacket
  <2> QED
    BY <1>0, <1>2, <2>1, <2>3, TypesLogs DEF BlockPacket
<1>3. CASE OtherChange
  <2>1. stats' \in 0..MaxStats /\ Logs(stats')
    BY <1>0, <1>3 DEF OtherChange
  <2>2. events' \in Nat /\ events <= events'
    BY <1>0, <1>3 DEF OtherChange, Logs
  <2>3. Calls'
    BY <1>3, <2>2, CallsLater DEF OtherChange
  <2> QED
    BY <1>3, <2>1, <2>3, TypesLogs DEF OtherChange
<1>4. CASE AnswerChange
  <2>1. stats' \in 0..MaxStats /\ Logs(stats')
    BY <1>0, <1>4 DEF AnswerChange
  <2>2. events' \in Nat /\ events <= events'
    BY <1>0, <1>4 DEF AnswerChange, Logs
  <2>3. Calls'
    <3>1. PICK i \in Unanswered("change") : calls' = Answered("change", i, OK)
      BY <1>4 DEF AnswerChange
    <3>2. "change" \in Kinds /\ OK \in Nat
      BY KindIds DEF OK
    <3> QED
      BY <2>2, <3>1, <3>2, AnsweredCalls
  <2> QED
    BY <1>0, <1>4, <2>1, <2>3, TypesLogs DEF AnswerChange
<1>5. ASSUME UNCHANGED <<panel, firewall_vars, ws, wire, shown, cleared>>, Calls',
             log_excused' \in BOOLEAN, list_excused' \in BOOLEAN
      PROVE  Types'
  <2>1. Counters' /\ OnTheWire'
    BY <1>5 DEF firewall_vars, Types, Counters, OnTheWire, Connected
  <2> QED
    BY <1>0, <1>5, <2>1, ShownLater DEF firewall_vars, Types
<1>6. CASE AnswerStats
  <2>1. PICK i \in Unanswered("stats") : calls' = Answered("stats", i, stats)
    BY <1>6 DEF AnswerStats
  <2>2. /\ "stats" \in Kinds /\ stats \in Nat /\ stats <= MaxStats
        /\ events' \in Nat /\ events <= events'
    BY <1>0, <1>6, KindIds DEF AnswerStats, firewall_vars
  <2>3. Calls'
    BY <2>1, <2>2, AnsweredCalls
  <2> QED
    BY <1>0, <1>5, <1>6, <2>3 DEF AnswerStats
<1>7. CASE AnswerLog
  <2>1. PICK i \in Unanswered("log") : calls' = Answered("log", i, events)
    BY <1>7 DEF AnswerLog
  <2>2. "log" \in Kinds /\ events \in Nat /\ events' \in Nat /\ events <= events'
    BY <1>0, <1>7, KindIds DEF AnswerLog, firewall_vars
  <2>3. Calls'
    BY <2>1, <2>2, AnsweredCalls
  <2> QED
    BY <1>0, <1>5, <1>7, <2>3 DEF AnswerLog
<1>8. CASE AnswerList
  <2>1. PICK i \in Unanswered("list") : calls' = Answered("list", i, list)
    BY <1>8 DEF AnswerList
  <2>2. /\ "list" \in Kinds /\ list \in Nat /\ list <= events
        /\ events' \in Nat /\ events <= events'
    BY <1>0, <1>8, KindIds DEF AnswerList, firewall_vars
  <2>3. Calls'
    BY <2>1, <2>2, AnsweredCalls
  <2> QED
    BY <1>0, <1>5, <1>8, <2>3 DEF AnswerList
<1>9. CASE RefuseChange
  <2>1. PICK i \in Unanswered("change") : calls' = Answered("change", i, ERROR)
    BY <1>9 DEF RefuseChange
  <2>2. "change" \in Kinds /\ ERROR \in Nat /\ events' \in Nat /\ events <= events'
    BY <1>0, <1>9, KindIds DEF RefuseChange, firewall_vars, ERROR
  <2>3. Calls'
    BY <2>1, <2>2, AnsweredCalls
  <2> QED
    BY <1>0, <1>5, <1>9, <2>3 DEF RefuseChange
<1> QED
  BY <1>1, <1>2, <1>3, <1>4, <1>6, <1>7, <1>8, <1>9

LEMMA FetchKind ==
  ASSUME Types
  PROVE  /\ Fetch \in {"stats", "log", "list"} /\ Fetch \in Kinds
         /\ (Fetch = "log" <=> panel = "log")
         /\ (Fetch = "list" <=> panel \in {"rules", "dpi"})
         /\ panel \in {"stats", "log", "rules", "dpi"}
BY DashboardAssumption, KindIds DEF Fetch, Types, Counters

\* The page gets or loses an answer to a call of kind k.
LEMMA TypesAnswer ==
  ASSUME Types, NEW k \in Kinds, NEW i \in DOMAIN calls[k], calls' = Without(k, i),
         UNCHANGED <<panel, firewall_vars, ws, wire, cleared>>,
         log_excused' \in BOOLEAN, list_excused' \in BOOLEAN, Shown'
  PROVE  Types'
<1>1. Calls'
  BY WithoutCalls DEF firewall_vars
<1>2. Counters' /\ OnTheWire'
  BY DEF firewall_vars, Types, Counters, OnTheWire, Connected
<1> QED
  BY <1>1, <1>2 DEF Types

LEMMA TypesSocket ==
  ASSUME Types, Accept \/ Open \/ Close \/ Reconnect \/ Receive \/ Clear \/ Poll \/ Change
  PROVE  Types'
<1>0. /\ log_excused \in BOOLEAN /\ list_excused \in BOOLEAN
      /\ ws \in {"closed", "connecting", "accepted", "open"}
      /\ cleared \in 0..events /\ 0 \in 0..events /\ events \in 0..events
  BY NumberTypes DEF Types, Counters
<1>1. CASE Accept \/ Close \/ Reconnect
  <2>1. ws' \in {"closed", "connecting", "accepted", "open"}
    BY <1>1 DEF Accept, Close, Reconnect
  <2>2. UNCHANGED <<panel, firewall_vars, calls, shown, log_excused, list_excused, cleared>>
    BY <1>1 DEF Accept, Close, Reconnect
  <2>3. OnTheWire'
    <3>1. wire = <<>> \/ ws \notin {"closed", "connecting"}
      BY DEF Types, OnTheWire, Connected
    <3>2. wire' = wire \/ wire' = <<>>
      BY <1>1 DEF Accept, Close, Reconnect
    <3>3. ws' \in {"closed", "connecting"} => wire' = <<>>
      BY <1>1, <3>1 DEF Accept, Close, Reconnect
    <3>4. wire' \in Seq(Message)
      <4>1. <<>> \in Seq(Message) /\ wire \in Seq(Message)
        BY WireType
      <4> QED
        BY <3>2, <4>1
    <3> QED
      BY <2>1, <3>2, <3>3, <3>4 DEF Types, OnTheWire, Connected
  <2> QED
    BY <2>1, <2>2, <2>3 DEF Types, Counters, Calls, Shown, firewall_vars
<1>2. ASSUME NEW k \in Kinds, calls' = Calling({k}), UNCHANGED <<panel, firewall_vars, wire, shown>>,
             \/ k \in {"stats", "log"} /\ RoomFor(k)
             \/ k \in {"list", "change"} /\ RoomForList,
             log_excused' \in BOOLEAN, list_excused' \in BOOLEAN, cleared' \in 0..events,
             ws' = ws \/ (ws = "accepted" /\ ws' = "open")
      PROVE  Types'
  <2>1. Calls'
    BY <1>2, CallingCalls DEF firewall_vars
  <2>2. Counters' /\ OnTheWire' /\ Shown'
    BY <1>0, <1>2 DEF firewall_vars, Types, Counters, OnTheWire, Connected, Shown
  <2> QED
    BY <2>1, <2>2 DEF Types
<1>3. CASE Open
  <2>1. Fetch \in Kinds /\ Fetch \in {"stats", "log", "list"}
    BY FetchKind
  <2>2. PICK k \in Kinds : k = Fetch
    BY <2>1
  <2> QED
    BY <1>0, <1>2, <1>3, <2>1, <2>2 DEF Open
<1>4. CASE Receive
  <2>1. /\ wire # <<>> /\ wire' = Tail(wire) /\ ws = "open"
        /\ UNCHANGED <<panel, firewall_vars, ws, calls, log_excused, list_excused, cleared>>
    BY <1>4 DEF Receive
  <2>2. /\ Len(wire) \in Nat \ {0} /\ Head(wire) = wire[1] /\ Head(wire) \in Message
        /\ Tail(wire) \in Seq(Message) /\ Len(Tail(wire)) = Len(wire) - 1
        /\ \A i \in 1..(Len(wire) - 1) : Tail(wire)[i] = wire[i + 1]
    BY <2>1, WireType, TailType
  <2>3. OnTheWire'
    <3>1. ASSUME NEW i \in DOMAIN wire' PROVE i + 1 \in DOMAIN wire /\ wire'[i] = wire[i + 1]
      <4>1. DOMAIN wire' = 1..(Len(wire) - 1) /\ DOMAIN wire = 1..Len(wire)
        BY <2>1, <2>2, WireType
      <4> QED
        BY <2>1, <2>2, <4>1
    <3>2. \A i \in DOMAIN wire' : wire'[i].type = "stats" => wire'[i].data \in 0..MaxStats
      BY <3>1 DEF Types, OnTheWire
    <3> QED
      BY <2>1, <2>2, <3>2 DEF OnTheWire, Connected
  <2>4. Shown'
    <3>1. CASE Head(wire).type = "event"
      <4>1. shown' = AppendLog(<<Head(wire).data>>)
        BY <1>4, <3>1 DEF Receive
      <4>2. <<Head(wire).data>> \in Seq(Nat)
        BY <2>2 DEF Message
      <4>3. shown' \in Page /\ shown'.list = shown.list /\ Len(shown'.log) <= DomCap
        BY <4>1, <4>2, AppendLogEffect
      <4> QED
        BY <2>1, <4>3 DEF Types, Shown, firewall_vars
    <3>2. CASE Head(wire).type # "event"
      <4>1. Head(wire).type = "stats"
        BY <2>2, <3>2 DEF Message
      <4>2. 1 \in DOMAIN wire
        BY <2>2, WireType
      <4>3. PICK a \in 0..MaxStats : a = Head(wire).data
        BY <2>2, <4>1, <4>2 DEF Types, OnTheWire
      <4>4. shown' = [shown EXCEPT !.stats = a]
        BY <1>4, <3>2, <4>3 DEF Receive
      <4>5. shown' \in Page /\ shown'.list = shown.list /\ shown'.log = shown.log
        BY <4>4, PageType DEF Page
      <4> QED
        BY <2>1, <4>5 DEF Types, Shown, firewall_vars
    <3> QED
      BY <3>1, <3>2
  <2> QED
    BY <2>1, <2>3, <2>4 DEF Types, Counters, Calls, firewall_vars
<1>5. CASE Poll
  BY <1>0, <1>2, <1>5, KindIds DEF Poll
<1>6. CASE Change
  BY <1>0, <1>2, <1>6, KindIds DEF Change
<1>7. CASE Clear
  <2>1. /\ shown' = [shown EXCEPT !.log = <<>>] /\ cleared' = events
        /\ UNCHANGED <<panel, firewall_vars, ws, wire, calls, log_excused, list_excused>>
    BY <1>7 DEF Clear
  <2>2. shown' \in Page /\ shown'.list = shown.list /\ shown'.log = <<>>
    <3>1. <<>> \in Seq(Nat)
      OBVIOUS
    <3> QED
      BY <2>1, <3>1, PageType DEF Page
  <2>3. Shown'
    BY <2>1, <2>2, NumberTypes DEF Types, Shown, firewall_vars
  <2>4. Counters' /\ OnTheWire' /\ Calls'
    BY <1>0, <2>1 DEF firewall_vars, Types, Counters, OnTheWire, Connected, Calls
  <2> QED
    BY <2>3, <2>4 DEF Types
<1> QED
  BY <1>1, <1>3, <1>4, <1>5, <1>6, <1>7

\* The answer to a change, or its failure: the calls and the excuse.
LEMMA TypesFetchAfter ==
  ASSUME Types, NEW i \in DOMAIN calls["change"],
         FetchAfter(i) \/ (calls' = Without("change", i) /\ list_excused' = TRUE),
         UNCHANGED <<panel, firewall_vars, ws, wire, shown, log_excused, cleared>>
  PROVE  Types'
<1>0. log_excused' \in BOOLEAN /\ list_excused \in BOOLEAN /\ Shown' /\ "change" \in Kinds
  BY KindIds DEF Types, Counters, Shown, firewall_vars
<1>1. CASE calls' = Without("change", i) /\ list_excused' \in BOOLEAN
  BY <1>0, <1>1, TypesAnswer
<1>2. CASE /\ calls' = [Calling({"list"}) EXCEPT !["change"] = RemoveAt(@, i)]
           /\ list_excused' \in BOOLEAN
  <2>1. Calls'
    BY <1>2, FetchAfterCalls DEF firewall_vars
  <2>2. Counters' /\ OnTheWire'
    BY <1>0, <1>2 DEF firewall_vars, Types, Counters, OnTheWire, Connected
  <2> QED
    BY <1>0, <2>1, <2>2 DEF Types
<1>3. list_excused' \in BOOLEAN
  BY <1>0 DEF FetchAfter
<1> QED
  BY <1>1, <1>2, <1>3 DEF FetchAfter

LEMMA TypesCalls ==
  ASSUME Types,
         \/ GetsStats \/ GetsLog \/ GetsList \/ GetsChange
         \/ LosesStats \/ LosesLog \/ LosesList \/ LosesChange
  PROVE  Types'
<1>0. /\ log_excused \in BOOLEAN /\ list_excused \in BOOLEAN /\ TRUE \in BOOLEAN
      /\ "stats" \in Kinds /\ "log" \in Kinds /\ "list" \in Kinds /\ "change" \in Kinds
      /\ Shown
  BY KindIds DEF Types, Counters
<1>1. CASE GetsStats
  <2>1. PICK i \in AnswersOf("stats") :
          /\ calls' = Without("stats", i)
          /\ shown' = [shown EXCEPT !.stats = calls["stats"][i]]
          /\ UNCHANGED <<panel, firewall_vars, ws, wire, log_excused, list_excused, cleared>>
    BY <1>1 DEF GetsStats
  <2>2. i \in DOMAIN calls["stats"] /\ calls["stats"][i] \in 0..MaxStats
    BY DEF AnswersOf, Unanswered, Types, Calls
  <2>3. PICK a \in 0..MaxStats : a = calls["stats"][i]
    BY <2>2
  <2>4. shown' \in Page /\ shown'.list = shown.list /\ shown'.log = shown.log
    BY <2>1, <2>3, PageType DEF Page
  <2>5. Shown'
    BY <1>0, <2>1, <2>4 DEF Shown, firewall_vars
  <2> QED
    BY <1>0, <2>1, <2>2, <2>5, TypesAnswer
<1>2. CASE GetsLog
  <2>1. PICK i \in AnswersOf("log") :
          /\ calls' = Without("log", i)
          /\ shown' = AppendLog(Latest(FetchCap, [e \in 1..calls["log"][i] |-> e]))
          /\ UNCHANGED <<panel, firewall_vars, ws, wire, log_excused, list_excused, cleared>>
    BY <1>2 DEF GetsLog
  <2>2. i \in DOMAIN calls["log"] /\ calls["log"][i] \in Nat
    BY DEF AnswersOf, Unanswered, Types, Calls
  <2>3. Latest(FetchCap, [e \in 1..calls["log"][i] |-> e]) \in Seq(Nat)
    BY <2>2, NumberTypes, FetchedType
  <2>4. shown' \in Page /\ shown'.list = shown.list /\ Len(shown'.log) <= DomCap
    BY <2>1, <2>3, AppendLogEffect
  <2>5. Shown'
    BY <1>0, <2>1, <2>4 DEF Shown, firewall_vars
  <2> QED
    BY <1>0, <2>1, <2>2, <2>5, TypesAnswer
<1>3. CASE GetsList
  <2>1. PICK i \in AnswersOf("list") :
          /\ calls' = Without("list", i)
          /\ shown' = [shown EXCEPT !.list = calls["list"][i]]
          /\ UNCHANGED <<panel, firewall_vars, ws, wire, log_excused, list_excused, cleared>>
    BY <1>3 DEF GetsList
  <2>2. i \in DOMAIN calls["list"] /\ calls["list"][i] \in 0..events
    BY DEF AnswersOf, Unanswered, Types, Calls
  <2>3. PICK a \in 0..events : a = calls["list"][i]
    BY <2>2
  <2>4. shown' \in Page /\ shown'.list = a /\ shown'.log = shown.log
    BY <2>1, <2>3, PageType DEF Page
  <2>5. Shown'
    BY <1>0, <2>1, <2>4 DEF Shown, firewall_vars
  <2> QED
    BY <1>0, <2>1, <2>2, <2>5, TypesAnswer
<1>4. CASE GetsChange
  <2>1. PICK i \in AnswersOf("change") :
          FetchAfter(i) /\ UNCHANGED <<panel, firewall_vars, ws, wire, shown, log_excused, cleared>>
    BY <1>4 DEF GetsChange
  <2> QED
    BY <2>1, TypesFetchAfter DEF AnswersOf
<1>5. CASE LosesStats
  <2>1. Shown'
    BY <1>0, <1>5 DEF LosesStats, Shown, firewall_vars
  <2> QED
    BY <1>0, <1>5, <2>1, TypesAnswer DEF LosesStats
<1>6. CASE LosesLog
  <2>1. Shown'
    BY <1>0, <1>6 DEF LosesLog, Shown, firewall_vars
  <2> QED
    BY <1>0, <1>6, <2>1, TypesAnswer DEF LosesLog
<1>7. CASE LosesList
  <2>1. /\ shown' = shown \/ shown' = [shown EXCEPT !.list = NONE]
        /\ UNCHANGED events
    BY <1>7 DEF LosesList, firewall_vars
  <2>2. /\ shown' \in Page /\ shown'.log = shown.log
        /\ shown'.list \in {shown.list, NONE}
    BY <2>1, PageType DEF Page, NONE
  <2>3. Shown'
    BY <1>0, <2>1, <2>2 DEF Shown
  <2> QED
    BY <1>0, <1>7, <2>3, TypesAnswer DEF LosesList
<1>8. CASE LosesChange
  <2>1. PICK i \in DOMAIN calls["change"] :
          /\ FetchAfter(i) \/ (calls' = Without("change", i) /\ list_excused' = TRUE)
          /\ UNCHANGED <<panel, firewall_vars, ws, wire, shown, log_excused, cleared>>
    BY <1>8 DEF LosesChange
  <2> QED
    BY <2>1, TypesFetchAfter
<1> QED
  BY <1>1, <1>2, <1>3, <1>4, <1>5, <1>6, <1>7, <1>8

LEMMA TypesNext == Types /\ [Next]_vars => Types'
<1> SUFFICES ASSUME Types, [Next]_vars PROVE Types'
  OBVIOUS
<1>1. CASE UNCHANGED vars
  BY <1>1 DEF vars, firewall_vars, Types, Counters, OnTheWire, Connected, Calls, Shown
<1> QED
  BY <1>1, TypesFirewall, TypesPush, TypesSocket, TypesCalls DEF Next

\* The types of the variables hold always; in particular appendLog keeps at
\* most DomCap entries, and a page never has more calls of a kind under way
\* than its bound allows, although a fetch follows every change.
THEOREM TypesStay == Spec => []TypeOK
<1>1. Types => TypeOK
  <2> SUFFICES ASSUME Types PROVE TypeOK
    OBVIOUS
  <2>1. ASSUME NEW k \in Kinds PROVE Len(calls[k]) <= MaxCalls
    <3>1. /\ Len(calls["stats"]) <= MaxCalls /\ Len(calls["log"]) <= MaxCalls
          /\ Len(calls["list"]) + Len(calls["change"]) <= MaxCalls
      BY DEF Types, Calls
    <3>2. PICK a \in Nat, b \in Nat : a = Len(calls["list"]) /\ b = Len(calls["change"])
      BY KindIds, CallsType
    <3>3. a <= MaxCalls /\ b <= MaxCalls
      <4>1. a + b <= MaxCalls /\ MaxCalls \in Nat
        BY <3>1, <3>2, NumberTypes
      <4> QED
        BY <4>1
    <3> QED
      BY <3>1, <3>2, <3>3, KindIds
  <2>2. /\ shown.stats \in 0..MaxStats /\ shown.list \in {NONE} \cup 0..events
        /\ Len(shown.log) <= DomCap /\ (~Connected => wire = <<>>)
        /\ Len(due) <= MaxDue /\ cleared \in 0..events
    BY PageType DEF Types, Counters, Shown, OnTheWire
  <2> QED
    BY <2>1, <2>2 DEF Types, Counters, TypeOK, UnderWay
<1> QED
  BY <1>1, TypesInit, TypesNext, PTL DEF Spec

-----------------------------------------------------------------------------
(* The panel of the log                                                    *)

LogInv == Types /\ LogInOrder /\ LogComing

\* Nothing that the panel of the log depends on changes, or it is not open.
LEMMA LogSame ==
  ASSUME LogInOrder, LogComing, UNCHANGED <<panel, events, due, wire, log_excused, cleared>>,
         calls'["log"] = calls["log"], shown'.log = shown.log, ws' = ws \/ ws' # "open"
  PROVE  LogInOrder' /\ LogComing'
<1>1. LogInOrder'
  BY DEF LogInOrder
<1>2. /\ ShownLate' <=> ShownLate
      /\ ShownLast' <=> ShownLast
  BY DEF ShownLate, ShownLast
<1> QED
  BY <1>1, <1>2 DEF LogComing

LEMMA LogOfOthers ==
  ASSUME panel # "log", UNCHANGED panel
  PROVE  LogInOrder' /\ LogComing'
BY DEF LogInOrder, LogComing

\* An event is logged.
LEMMA LogLogs ==
  ASSUME LogInv, NEW s \in 0..MaxStats, Logs(s), UNCHANGED <<panel, wire, log_excused>>,
         calls'["log"] = calls["log"]
  PROVE  LogInOrder' /\ LogComing'
<1>1. CASE panel # "log"
  BY <1>1, LogOfOthers
<1>2. CASE panel = "log"
  <2>1. due' # <<>> /\ due'[Len(due')] = events'
    BY <1>2, LogsEffect DEF LogInv
  <2>2. LogInOrder'
    BY <1>2, <2>1 DEF LogInv, LogInOrder
  <2>3. LogComing'
    BY <2>1 DEF LogComing
  <2> QED
    BY <2>2, <2>3
<1> QED
  BY <1>1, <1>2

\* A broadcast comes to the page: unless there is an excuse it is the first of
\* those that were to come, and the last of them brings the latest event.
LEMMA LogPush ==
  ASSUME LogInv, Push
  PROVE  LogInOrder' /\ LogComing'
<1>0. Types
  BY DEF LogInv
<1>1. CASE panel # "log"
  BY <1>1, LogOfOthers DEF Push
<1>2. CASE panel = "log"
  <2>0. PICK i \in DOMAIN due : \E m \in Sent(due[i]) :
          /\ due' = RemoveAt(due, i)
          /\ wire' = IF Connected THEN Append(wire, m) ELSE wire
          /\ log_excused' = (log_excused \/ (panel = "log" /\ i # 1))
    BY DEF Push
  <2>1. PICK m \in Sent(due[i]) :
          /\ due' = RemoveAt(due, i)
          /\ wire' = IF Connected THEN Append(wire, m) ELSE wire
          /\ log_excused' = (log_excused \/ (panel = "log" /\ i # 1))
    BY <2>0
  <2>2. UNCHANGED <<panel, events, ws, calls, shown, cleared>>
    BY DEF Push
  <2>3. /\ m \in Message /\ m.type = "event" /\ m.data = due[i]
        /\ (m.type = "stats" => m.data \in 0..MaxStats)
    BY <1>0, <1>2, DueType, SentType
  <2>4. log_excused \in BOOLEAN
    BY <1>0 DEF Types, Counters
  <2>5. ~log_excused' => ~log_excused /\ i = 1
    BY <1>2, <2>1, <2>4
  <2>6. /\ due' # <<>> /\ i = 1 => due # <<>> /\ due'[Len(due')] = due[Len(due)]
        /\ due' = <<>> => Len(due) = 1 /\ i = 1
        /\ due # <<>>
    BY <1>0, <2>1, DueLess, DueType
  <2>7. ~log_excused => due[Len(due)] = events
    BY <1>2, <2>6 DEF LogInv, LogInOrder
  <2>8. \A j \in DOMAIN wire : wire[j].type = "event"
    BY <1>2 DEF LogInv, LogInOrder
  <2>9. ~Connected => wire = <<>>
    BY <1>0 DEF Types, OnTheWire
  <2>10. ASSUME Connected
         PROVE  /\ wire' # <<>> /\ wire'[Len(wire')] = m
                /\ \A j \in DOMAIN wire' :
                     (j \in DOMAIN wire /\ wire'[j] = wire[j]) \/ wire'[j] = m
    <3>1. wire' = Append(wire, m)
      BY <2>1, <2>10
    <3> QED
      BY <1>0, <2>2, <2>3, <2>10, <3>1, WireMore
  <2>11. \A j \in DOMAIN wire' : wire'[j].type = "event"
    BY <2>1, <2>3, <2>8, <2>10
  <2>12. ASSUME ~log_excused', due' = <<>>, Connected
         PROVE  wire'[Len(wire')].data = events
    BY <2>3, <2>5, <2>6, <2>7, <2>10, <2>12
  <2>13. LogInOrder'
    <3>1. ASSUME ~log_excused'
          PROVE  /\ Len(calls'["log"]) <= 1
                 /\ due' # <<>> => due'[Len(due')] = events'
      BY <1>2, <2>2, <2>5, <2>6, <2>7, <3>1 DEF LogInv, LogInOrder
    <3>2. ~Connected => wire' = <<>>
      BY <2>1, <2>9
    <3> QED
      BY <2>2, <2>11, <2>12, <3>1, <3>2 DEF LogInOrder
  <2>14. LogComing'
    <3>1. ws' = "open" => wire' # <<>>
      BY <2>2, <2>10 DEF Connected
    <3> QED
      BY <3>1 DEF LogComing
  <2> QED
    BY <2>13, <2>14
<1> QED
  BY <1>1, <1>2

LEMMA LogAnswer ==
  ASSUME LogInv, AnswerLog
  PROVE  LogInOrder' /\ LogComing'
<1>0. Types /\ "log" \in Kinds /\ events \in Int
  BY KindIds, NumberTypes DEF LogInv
<1>1. PICK i \in Unanswered("log") : calls' = Answered("log", i, events)
  BY DEF AnswerLog
<1>2. /\ log_excused' = (log_excused /\ (UnderWay("log") > 1 \/ wire # <<>> \/ due # <<>>))
      /\ UNCHANGED <<panel, events, due, ws, wire, shown, cleared>>
  BY DEF AnswerLog, firewall_vars
<1>3. /\ Len(calls'["log"]) = Len(calls["log"]) /\ i \in DOMAIN calls["log"]
      /\ \A j \in DOMAIN calls["log"] : calls'["log"][j] = IF j = i THEN events ELSE calls["log"][j]
      /\ DOMAIN calls'["log"] = DOMAIN calls["log"]
  BY <1>0, <1>1, AnsweredEffect
<1>4. Len(calls["log"]) \in Nat /\ DOMAIN calls["log"] = 1..Len(calls["log"])
  BY <1>0, CallsType
<1>5. log_excused \in BOOLEAN
  BY <1>0 DEF Types, Counters
<1>6. ASSUME panel = "log", ~log_excused'
      PROVE  Len(calls["log"]) <= 1 /\ (wire # <<>> \/ due # <<>> => ~log_excused)
  <2>1. CASE ~log_excused
    BY <1>6, <2>1 DEF LogInv, LogInOrder
  <2>2. CASE log_excused
    <3>1. PICK n \in Nat : n = Len(calls["log"])
      BY <1>4
    <3>2. ~(n > 1) /\ wire = <<>> /\ due = <<>>
      BY <1>2, <1>6, <2>2, <3>1, Zenon DEF UnderWay
    <3>3. n <= 1
      BY <3>2
    <3> QED
      BY <3>1, <3>2, <3>3
  <2> QED
    BY <1>5, <2>1, <2>2
<1>7. LogInOrder'
  <2>1. ASSUME panel = "log" PROVE \A j \in DOMAIN wire : wire[j].type = "event"
    BY <2>1 DEF LogInv, LogInOrder
  <2>2. ASSUME panel = "log", ~log_excused', due = <<>>, wire # <<>>
        PROVE  wire[Len(wire)].data = events
    BY <1>6, <2>2 DEF LogInv, LogInOrder
  <2>3. ASSUME panel = "log", ~log_excused', due # <<>> PROVE due[Len(due)] = events
    BY <1>6, <2>3 DEF LogInv, LogInOrder
  <2> QED
    BY <1>2, <1>3, <1>6, <2>1, <2>2, <2>3 DEF LogInOrder
<1>8. ASSUME panel = "log", ~log_excused'
      PROVE  calls'["log"] # <<>> /\ calls'["log"][1] = events
  <2>1. i = 1 /\ 1 \in DOMAIN calls["log"]
    BY <1>3, <1>4, <1>6, <1>8
  <2>2. 1 \in DOMAIN calls'["log"] /\ calls'["log"][1] = events
    BY <1>3, <2>1
  <2> QED
    BY <2>2
<1>9. LogComing'
  BY <1>2, <1>8 DEF LogComing
<1> QED
  BY <1>7, <1>9

\* onopen fetches the log.
LEMMA LogOpen ==
  ASSUME LogInv, Open
  PROVE  LogInOrder' /\ LogComing'
<1>0. Types /\ "log" \in Kinds /\ log_excused \in BOOLEAN
  BY KindIds DEF LogInv, Types, Counters
<1>1. CASE panel # "log"
  BY <1>1, LogOfOthers DEF Open
<1>2. CASE panel = "log"
  <2>1. Fetch = "log"
    BY <1>2 DEF Fetch
  <2>2. /\ calls' = Calling({"log"}) /\ UNCHANGED <<panel, events, due, wire>>
        /\ log_excused' = (log_excused \/ UnderWay("log") > 0)
    BY <2>1 DEF Open, firewall_vars
  <2>3. /\ Len(calls["log"]) \in Nat
        /\ Len(calls'["log"]) = Len(calls["log"]) + 1
        /\ calls'["log"][Len(calls["log"]) + 1] = NotYet
        /\ DOMAIN calls'["log"] = 1..(Len(calls["log"]) + 1)
    BY <1>0, <2>2, CallsType, CallingEffect
  <2>4. ASSUME ~log_excused' PROVE ~log_excused /\ Len(calls["log"]) = 0
    <3>1. PICK n \in Nat : n = Len(calls["log"])
      BY <2>3
    <3>2. ~log_excused /\ ~(n > 0)
      BY <2>2, <2>4, <3>1, Zenon DEF UnderWay
    <3>3. n = 0
      BY <3>2
    <3> QED
      BY <3>1, <3>2, <3>3
  <2>5. ASSUME ~log_excused'
        PROVE  /\ Len(calls'["log"]) <= 1 /\ calls'["log"] # <<>> /\ calls'["log"][1] = NotYet
    <3>1. Len(calls["log"]) + 1 = 1
      BY <2>4, <2>5
    <3>2. Len(calls'["log"]) = 1 /\ calls'["log"][1] = NotYet /\ DOMAIN calls'["log"] = 1..1
      BY <2>3, <3>1
    <3> QED
      BY <3>2
  <2>6. LogInOrder'
    BY <1>2, <2>2, <2>4, <2>5 DEF LogInv, LogInOrder
  <2>7. LogComing'
    BY <2>5 DEF LogComing
  <2> QED
    BY <2>6, <2>7
<1> QED
  BY <1>1, <1>2

LEMMA LogClose ==
  ASSUME LogInv, Close
  PROVE  LogInOrder' /\ LogComing'
<1>1. /\ ws' = "closed" /\ wire' = <<>>
      /\ UNCHANGED <<panel, events, due, calls, log_excused>>
  BY DEF Close, firewall_vars
<1>2. LogInOrder'
  BY <1>1 DEF LogInv, LogInOrder
<1>3. LogComing'
  BY <1>1 DEF LogComing
<1> QED
  BY <1>2, <1>3

\* A message is received and shown.
LEMMA LogReceive ==
  ASSUME LogInv, Receive
  PROVE  LogInOrder' /\ LogComing'
<1>0. Types
  BY DEF LogInv
<1>1. CASE panel # "log"
  BY <1>1, LogOfOthers DEF Receive
<1>2. CASE panel = "log"
  <2>1. /\ wire # <<>> /\ wire' = Tail(wire)
        /\ UNCHANGED <<panel, events, due, ws, calls, log_excused, cleared>>
    BY DEF Receive, firewall_vars
  <2>2. /\ Len(wire) \in Nat \ {0} /\ Head(wire) = wire[1] /\ Head(wire) \in Message
        /\ wire' \in Seq(Message) /\ Len(wire') = Len(wire) - 1
        /\ \A i \in 1..(Len(wire) - 1) : wire'[i] = wire[i + 1]
        /\ DOMAIN wire = 1..Len(wire)
    BY <1>0, <2>1, WireType, TailType
  <2>3. /\ DOMAIN wire' = 1..(Len(wire) - 1) /\ (wire' = <<>> <=> Len(wire) = 1)
    BY <2>2
  <2>4. \A i \in DOMAIN wire : wire[i].type = "event"
    BY <1>2 DEF LogInv, LogInOrder
  <2>5. ASSUME NEW i \in DOMAIN wire' PROVE i + 1 \in DOMAIN wire /\ wire'[i] = wire[i + 1]
    BY <2>2, <2>3
  <2>6. LogInOrder'
    <3>1. \A i \in DOMAIN wire' : wire'[i].type = "event"
      BY <2>4, <2>5
    <3>2. ASSUME ~log_excused, due = <<>>, wire' # <<>> PROVE wire'[Len(wire')].data = events
      <4>1. Len(wire') \in 1..(Len(wire) - 1) /\ Len(wire') + 1 = Len(wire)
        BY <2>2, <2>3, <3>2
      <4>2. wire'[Len(wire')] = wire[Len(wire)]
        BY <2>2, <4>1
      <4> QED
        BY <1>2, <2>1, <3>2, <4>2 DEF LogInv, LogInOrder
    <3> QED
      BY <1>2, <2>1, <3>1, <3>2 DEF LogInv, LogInOrder
  <2>7. ASSUME ~log_excused, due = <<>>, wire' = <<>> PROVE ShownLast' /\ ShownLate'
    <3>1. Len(wire) = 1 /\ 1 \in DOMAIN wire
      BY <2>2, <2>3, <2>7
    <3>2. Head(wire).type = "event" /\ Head(wire).data = events
      BY <1>2, <2>1, <2>2, <2>4, <2>7, <3>1 DEF LogInv, LogInOrder
    <3> DEFINE n == <<events>>
    <3>3. shown' = AppendLog(n)
      BY <3>2 DEF Receive
    <3>4. n \in Seq(Nat) /\ Len(n) = 1 /\ n[1] = events
      BY <1>0, NumberTypes
    <3> HIDE DEF n
    <3>5. /\ Len(shown'.log) \in Nat /\ 0 \in 0..(Len(n) - 1) /\ 0 < DomCap
          /\ Len(n) - 0 = 1
      BY <1>0, <3>3, <3>4, NumberTypes, AppendLogEffect
    <3>6. /\ Len(shown'.log) - 0 \in DOMAIN shown'.log
          /\ shown'.log[Len(shown'.log) - 0] = n[Len(n) - 0]
      BY <1>0, <3>3, <3>4, <3>5, AppendLogEffect
    <3>7. Len(shown'.log) - 0 = Len(shown'.log)
      BY <3>5
    <3>8. Len(shown'.log) \in DOMAIN shown'.log /\ shown'.log[Len(shown'.log)] = events
      BY <3>4, <3>5, <3>6, <3>7
    <3>9. Len(shown'.log) - Len(shown'.log) <= FetchCap
      BY <1>0, <3>5, NumberTypes
    <3> QED
      BY <2>1, <3>8, <3>9 DEF ShownLast, ShownLate
  <2>8. LogComing'
    BY <2>1, <2>7 DEF LogComing
  <2> QED
    BY <2>6, <2>8
<1> QED
  BY <1>1, <1>2

\* An answer with the log arrives and is appended.
LEMMA LogGets ==
  ASSUME LogInv, GetsLog
  PROVE  LogInOrder' /\ LogComing'
<1>0. Types /\ "log" \in Kinds
  BY KindIds DEF LogInv
<1>1. CASE panel # "log"
  BY <1>1, LogOfOthers DEF GetsLog
<1>2. CASE panel = "log"
  <2>1. PICK i \in AnswersOf("log") :
          /\ calls' = Without("log", i)
          /\ shown' = AppendLog(Latest(FetchCap, [e \in 1..calls["log"][i] |-> e]))
          /\ UNCHANGED <<panel, firewall_vars, ws, wire, log_excused, list_excused, cleared>>
    BY DEF GetsLog
  <2>2. i \in DOMAIN calls["log"] /\ calls["log"][i] \in Nat /\ calls["log"][i] # NotYet
    BY <1>0 DEF AnswersOf, Unanswered, Types, Calls
  <2>3. /\ Len(calls'["log"]) = Len(calls["log"]) - 1 /\ Len(calls["log"]) \in Nat
        /\ DOMAIN calls["log"] = 1..Len(calls["log"])
        /\ calls' \in [Kinds -> Seq(Int)]
    BY <1>0, <2>1, <2>2, WithoutEffect, CallsType
  <2>4. LogInOrder'
    <3>1. ~log_excused => Len(calls'["log"]) <= 1
      BY <1>2, <2>3 DEF LogInv, LogInOrder
    <3> QED
      BY <2>1, <3>1 DEF LogInv, LogInOrder, firewall_vars
  <2>5. ASSUME ws = "open", ~log_excused, events > cleared, due = <<>>, wire = <<>>
        PROVE  calls'["log"] = <<>> /\ ShownLate'
    <3>1. Len(calls["log"]) <= 1
      BY <1>2, <2>5 DEF LogInv, LogInOrder
    <3>2. i = 1 /\ Len(calls'["log"]) = 0
      <4>1. PICK n \in Nat : n = Len(calls["log"])
        BY <2>3
      <4>2. n <= 1 /\ i \in 1..n /\ Len(calls'["log"]) = n - 1
        BY <2>2, <2>3, <3>1, <4>1
      <4>3. i = 1 /\ n - 1 = 0
        BY <4>2
      <4> QED
        BY <4>2, <4>3
    <3>3. calls'["log"] = <<>>
      BY <1>0, <2>3, <3>2
    <3>4. calls["log"] # <<>>
      BY <2>2
    <3>5. PICK a \in Nat : a = calls["log"][1]
      BY <2>2, <3>2
    <3> DEFINE f == Latest(FetchCap, [e \in 1..a |-> e])
    <3>6. /\ f \in Seq(Nat) /\ Len(f) \in Nat /\ Len(f) <= FetchCap
          /\ a > 0 => Len(f) > 0 /\ f[Len(f)] = a
      BY <1>0, NumberTypes, FetchedType
    <3>7. shown' = AppendLog(f)
      BY <2>1, <3>2, <3>5
    <3> HIDE DEF f
    <3>8. a = events \/ ShownLast
      BY <1>2, <2>2, <2>5, <3>2, <3>4, <3>5 DEF LogInv, LogComing
    <3>9. /\ FetchCap \in Nat /\ DomCap \in Nat /\ FetchCap < DomCap
          /\ Len(shown'.log) \in Nat
      BY <1>0, <3>6, <3>7, NumberTypes, AppendLogEffect
    <3>10. CASE a = events
      <4>1. a > 0 /\ Len(f) > 0 /\ f[Len(f)] = a
        BY <1>0, <2>5, <3>6, <3>10, NumberTypes, DueType
      <4>2. 0 \in 0..(Len(f) - 1) /\ 0 < DomCap
        BY <3>6, <3>9, <4>1
      <4>3. /\ Len(shown'.log) - 0 \in DOMAIN shown'.log
            /\ shown'.log[Len(shown'.log) - 0] = f[Len(f) - 0]
        BY <1>0, <3>6, <3>7, <4>2, AppendLogEffect
      <4>4. Len(shown'.log) - 0 = Len(shown'.log) /\ Len(f) - 0 = Len(f)
        BY <3>6, <3>9
      <4>5. Len(shown'.log) \in DOMAIN shown'.log /\ shown'.log[Len(shown'.log)] = events
        BY <3>10, <4>1, <4>3, <4>4
      <4>6. Len(shown'.log) - Len(shown'.log) <= FetchCap
        BY <3>9
      <4> QED
        BY <2>1, <3>3, <4>5, <4>6 DEF ShownLate, firewall_vars
    <3>11. CASE ShownLast
      <4>1. Len(f) < DomCap /\ shown.log # <<>> /\ shown.log[Len(shown.log)] = events
        BY <3>6, <3>9, <3>11 DEF ShownLast
      <4>2. PICK m : m = Len(shown'.log) - Len(f)
        OBVIOUS
      <4>3. m \in DOMAIN shown'.log /\ shown'.log[m] = events
        BY <1>0, <3>6, <3>7, <4>1, <4>2, AppendLogEffect
      <4>4. Len(shown'.log) - m <= FetchCap
        <5>1. PICK a1 \in Nat, a2 \in Nat : a1 = Len(shown'.log) /\ a2 = Len(f)
          BY <3>6, <3>9
        <5>2. a1 - (a1 - a2) = a2 /\ a2 <= FetchCap
          BY <3>6, <5>1
        <5> QED
          BY <4>2, <5>1, <5>2
      <4> QED
        BY <2>1, <3>3, <4>3, <4>4 DEF ShownLate, firewall_vars
    <3> QED
      BY <3>8, <3>10, <3>11
  <2>6. LogComing'
    BY <2>1, <2>5 DEF LogComing, firewall_vars
  <2> QED
    BY <2>4, <2>6
<1> QED
  BY <1>1, <1>2

\* The calls of kind k change, and nothing else that the log depends on.
LEMMA LogOtherCalls ==
  ASSUME LogInOrder, LogComing, NEW k \in Kinds \ {"log"}, Only(k),
         UNCHANGED <<panel, events, due, ws, wire, log_excused, cleared>>,
         shown'.log = shown.log
  PROVE  LogInOrder' /\ LogComing'
<1>1. calls'["log"] = calls["log"]
  BY KindIds DEF Only
<1> QED
  BY <1>1, LogSame

LEMMA LogFirewall ==
  ASSUME LogInv,
         \/ Push \/ PushFails
         \/ AllowPacket \/ BlockPacket \/ OtherChange
         \/ AnswerStats \/ AnswerLog \/ AnswerList \/ AnswerChange \/ RefuseChange
  PROVE  LogInOrder' /\ LogComing'
<1>0. /\ Types /\ LogInOrder /\ LogComing
      /\ "stats" \in Kinds \ {"log"} /\ "list" \in Kinds \ {"log"} /\ "change" \in Kinds \ {"log"}
  BY KindIds DEF LogInv
<1>1. CASE AllowPacket
  BY <1>0, <1>1, LogSame DEF AllowPacket
<1>2. CASE BlockPacket
  <2>1. stats + 1 \in 0..MaxStats
    BY <1>0, <1>2, NumberTypes DEF BlockPacket
  <2> QED
    BY <1>2, <2>1, LogLogs DEF BlockPacket
<1>3. stats \in 0..MaxStats
  BY <1>0 DEF Types, Counters
<1>4. CASE OtherChange
  BY <1>3, <1>4, LogLogs DEF OtherChange
<1>5. CASE AnswerChange
  <2>1. PICK i \in Unanswered("change") : calls' = Answered("change", i, OK)
    BY <1>5 DEF AnswerChange
  <2>2. Only("change") /\ calls'["log"] = calls["log"]
    BY <1>0, <2>1, KindIds, AnsweredEffect DEF OK, Only
  <2> QED
    BY <1>3, <1>5, <2>2, LogLogs DEF AnswerChange
<1>6. CASE AnswerLog
  BY <1>6, LogAnswer
<1>7. CASE AnswerStats
  <2>1. PICK i \in Unanswered("stats") : calls' = Answered("stats", i, stats)
    BY <1>7 DEF AnswerStats
  <2>2. Only("stats")
    BY <1>0, <2>1, NumberTypes, AnsweredEffect
  <2> QED
    BY <1>0, <1>7, <2>2, LogOtherCalls DEF AnswerStats, firewall_vars
<1>8. CASE AnswerList
  <2>1. PICK i \in Unanswered("list") : calls' = Answered("list", i, list)
    BY <1>8 DEF AnswerList
  <2>2. Only("list")
    BY <1>0, <2>1, NumberTypes, AnsweredEffect
  <2> QED
    BY <1>0, <1>8, <2>2, LogOtherCalls DEF AnswerList, firewall_vars
<1>9. CASE RefuseChange
  <2>1. PICK i \in Unanswered("change") : calls' = Answered("change", i, ERROR)
    BY <1>9 DEF RefuseChange
  <2>2. Only("change")
    BY <1>0, <2>1, AnsweredEffect DEF ERROR
  <2> QED
    BY <1>0, <1>9, <2>2, LogOtherCalls DEF RefuseChange, firewall_vars
<1>10. CASE PushFails
  <2>1. /\ panel = "log" => log_excused' = TRUE
        /\ UNCHANGED <<panel, wire>>
    BY <1>10 DEF PushFails
  <2> QED
    BY <1>0, <2>1 DEF LogInOrder, LogComing
<1> QED
  BY <1>1, <1>2, <1>4, <1>5, <1>6, <1>7, <1>8, <1>9, <1>10, LogPush

LEMMA LogSocket ==
  ASSUME LogInv, Accept \/ Open \/ Close \/ Reconnect \/ Receive \/ Clear \/ Poll \/ Change
  PROVE  LogInOrder' /\ LogComing'
<1>0. /\ Types /\ LogInOrder /\ LogComing
      /\ "stats" \in Kinds \ {"log"} /\ "change" \in Kinds \ {"log"}
  BY KindIds DEF LogInv
<1>1. CASE Accept \/ Reconnect
  BY <1>0, <1>1, LogSame DEF Accept, Reconnect, firewall_vars
<1>2. CASE Poll
  <2>1. Only("stats")
    BY <1>0, <1>2, CallingEffect DEF Poll
  <2> QED
    BY <1>0, <1>2, <2>1, LogOtherCalls DEF Poll, firewall_vars
<1>3. CASE Change
  <2>1. Only("change")
    BY <1>0, <1>3, CallingEffect DEF Change
  <2> QED
    BY <1>0, <1>3, <2>1, LogOtherCalls DEF Change, firewall_vars
<1>4. CASE Clear
  <2>1. cleared' = events /\ UNCHANGED <<panel, events, due, wire, calls, log_excused>>
    BY <1>4 DEF Clear, firewall_vars
  <2>2. ~(events' > cleared')
    BY <1>0, <2>1, NumberTypes
  <2>3. LogInOrder'
    BY <1>0, <2>1 DEF LogInOrder
  <2>4. LogComing'
    BY <2>2 DEF LogComing
  <2> QED
    BY <2>3, <2>4
<1> QED
  BY <1>1, <1>2, <1>3, <1>4, LogOpen, LogClose, LogReceive

\* What the answer to a change, or its failure, does to the other calls.
LEMMA FetchAfterOthers ==
  ASSUME Types, NEW i \in DOMAIN calls["change"], FetchAfter(i) \/ calls' = Without("change", i)
  PROVE  calls'["log"] = calls["log"]
<1>1. CASE calls' = Without("change", i)
  BY <1>1, KindIds, WithoutEffect DEF Only
<1>2. CASE calls' = [Calling({"list"}) EXCEPT !["change"] = RemoveAt(@, i)]
  BY <1>2, FetchAfterEffect
<1> QED
  BY <1>1, <1>2 DEF FetchAfter

LEMMA LogCalls ==
  ASSUME LogInv,
         \/ GetsStats \/ GetsLog \/ GetsList \/ GetsChange
         \/ LosesStats \/ LosesLog \/ LosesList \/ LosesChange
  PROVE  LogInOrder' /\ LogComing'
<1>0. /\ Types /\ LogInOrder /\ LogComing
      /\ "stats" \in Kinds \ {"log"} /\ "list" \in Kinds \ {"log"} /\ "change" \in Kinds \ {"log"}
  BY KindIds DEF LogInv
<1>1. CASE GetsStats
  <2>1. PICK i \in AnswersOf("stats") :
          /\ calls' = Without("stats", i)
          /\ shown' = [shown EXCEPT !.stats = calls["stats"][i]]
          /\ UNCHANGED <<panel, firewall_vars, ws, wire, log_excused, list_excused, cleared>>
    BY <1>1 DEF GetsStats
  <2>2. Only("stats") /\ shown'.log = shown.log
    BY <1>0, <2>1, WithoutEffect, PageType DEF AnswersOf, Page
  <2> QED
    BY <1>0, <2>1, <2>2, LogOtherCalls DEF firewall_vars
<1>2. CASE GetsLog
  BY <1>2, LogGets
<1>3. CASE GetsList
  <2>1. PICK i \in AnswersOf("list") :
          /\ calls' = Without("list", i)
          /\ shown' = [shown EXCEPT !.list = calls["list"][i]]
          /\ UNCHANGED <<panel, firewall_vars, ws, wire, log_excused, list_excused, cleared>>
    BY <1>3 DEF GetsList
  <2>2. Only("list") /\ shown'.log = shown.log
    BY <1>0, <2>1, WithoutEffect, PageType DEF AnswersOf, Page
  <2> QED
    BY <1>0, <2>1, <2>2, LogOtherCalls DEF firewall_vars
<1>4. CASE GetsChange \/ LosesChange
  <2>1. PICK i \in DOMAIN calls["change"] :
          /\ FetchAfter(i) \/ calls' = Without("change", i)
          /\ UNCHANGED <<panel, firewall_vars, ws, wire, shown, log_excused, cleared>>
    BY <1>4 DEF GetsChange, LosesChange, AnswersOf
  <2>2. calls'["log"] = calls["log"]
    BY <1>0, <2>1, FetchAfterOthers
  <2> QED
    BY <1>0, <2>1, <2>2, LogSame DEF firewall_vars
<1>5. CASE LosesStats
  <2>1. PICK i \in DOMAIN calls["stats"] : calls' = Without("stats", i)
    BY <1>5 DEF LosesStats
  <2>2. Only("stats")
    BY <1>0, <2>1, WithoutEffect
  <2> QED
    BY <1>0, <1>5, <2>2, LogOtherCalls DEF LosesStats, firewall_vars
<1>6. CASE LosesLog
  <2>1. log_excused' = TRUE /\ UNCHANGED <<panel, wire>>
    BY <1>6 DEF LosesLog
  <2> QED
    BY <1>0, <2>1 DEF LogInOrder, LogComing
<1>7. CASE LosesList
  <2>1. PICK i \in DOMAIN calls["list"] : calls' = Without("list", i)
    BY <1>7 DEF LosesList
  <2>2. Only("list")
    BY <1>0, <2>1, WithoutEffect
  <2>3. shown'.log = shown.log
    <3>1. shown' = shown \/ shown' = [shown EXCEPT !.list = NONE]
      BY <1>7 DEF LosesList
    <3> QED
      BY <1>0, <3>1, PageType DEF Page
  <2> QED
    BY <1>0, <1>7, <2>2, <2>3, LogOtherCalls DEF LosesList, firewall_vars
<1> QED
  BY <1>1, <1>2, <1>3, <1>4, <1>5, <1>6, <1>7

LEMMA LogInit == Init => LogInv
<1> SUFFICES ASSUME Init PROVE LogInv
  OBVIOUS
<1>1. /\ ws = "connecting" /\ due = <<>> /\ wire = <<>> /\ calls["log"] = <<>>
  BY KindIds DEF Init
<1> QED
  BY <1>1, TypesInit DEF LogInv, LogInOrder, LogComing

LEMMA LogNext == LogInv /\ [Next]_vars => LogInv'
<1> SUFFICES ASSUME LogInv, [Next]_vars PROVE LogInv'
  OBVIOUS
<1>1. Types'
  BY TypesNext DEF LogInv
<1>2. CASE UNCHANGED vars
  <2>1. LogInOrder' /\ LogComing'
    BY <1>2, LogSame DEF vars, firewall_vars, LogInv
  <2> QED
    BY <1>1, <2>1 DEF LogInv
<1>3. CASE Next
  <2>1. LogInOrder' /\ LogComing'
    BY <1>3, LogFirewall, LogSocket, LogCalls DEF Next
  <2> QED
    BY <1>1, <2>1 DEF LogInv
<1> QED
  BY <1>2, <1>3

\* A page that is connected and has nothing on its way shows the latest event
\* of the log, unless it was cleared since: broadcasts that wait for other
\* clients still bring the latest event last, onopen fetches the log after the
\* server has begun to push, and appendLog keeps more entries than a fetch of
\* the log brings, so that an old answer which arrives late does not drive the
\* latest event out.
THEOREM TheLatestEventIsShown == Spec => []LatestShown
<1>1. LogInv => LatestShown
  <2> SUFFICES ASSUME LogInv, panel = "log", ws = "open", events > cleared,
                      due = <<>>, wire = <<>>, UnderWay("log") = 0, ~log_excused
               PROVE  \E i \in DOMAIN shown.log : shown.log[i] = events
    BY DEF LatestShown
  <2>1. calls["log"] = <<>>
    BY KindIds, CallsType DEF LogInv, UnderWay
  <2>2. ShownLate
    BY <2>1 DEF LogInv, LogComing
  <2> QED
    BY <2>2 DEF ShownLate
<1> QED
  BY <1>1, LogInit, LogNext, PTL DEF Spec

-----------------------------------------------------------------------------
(* The list of rules or patterns                                           *)

ListInv == Types /\ OneFetch /\ ListComing

\* The page is to learn that a change of its own was made.
ChangeMade == \E i \in DOMAIN calls["change"] : calls["change"][i] = OK

LEMMA FetchSame ==
  ASSUME UNCHANGED panel
  PROVE  Fetch' = Fetch
BY DEF Fetch

\* Nothing about the list changes but calls that tell of changes, and those
\* that tell of one that was made stay; or the page is not open.
LEMMA ListSame ==
  ASSUME OneFetch, ListComing, UNCHANGED <<panel, list, list_excused>>,
         calls'["list"] = calls["list"], ChangeMade => ChangeMade',
         shown'.list = shown.list, ws' = ws \/ ws' # "open"
  PROVE  OneFetch' /\ ListComing'
<1>1. Fetch' = Fetch
  BY FetchSame
<1>2. OneFetch'
  BY <1>1 DEF OneFetch
<1>3. ListComing'
  BY <1>1 DEF ListComing, ChangeMade
<1> QED
  BY <1>2, <1>3

LEMMA ListExcused ==
  ASSUME UNCHANGED panel, Fetch = "list" => list_excused' = TRUE
  PROVE  OneFetch' /\ ListComing'
<1>1. Fetch' = Fetch
  BY FetchSame
<1> QED
  BY <1>1 DEF OneFetch, ListComing

LEMMA ListOtherCalls ==
  ASSUME OneFetch, ListComing, NEW k \in {"stats", "log"}, Only(k),
         UNCHANGED <<panel, list, list_excused>>,
         shown'.list = shown.list, ws' = ws \/ ws' # "open"
  PROVE  OneFetch' /\ ListComing'
<1>1. calls'["list"] = calls["list"] /\ calls'["change"] = calls["change"]
  BY KindIds DEF Only
<1>2. ChangeMade => ChangeMade'
  BY <1>1 DEF ChangeMade
<1> QED
  BY <1>1, <1>2, ListSame

\* The server makes a change, or refuses it.
LEMMA ListAnswerChange ==
  ASSUME ListInv, AnswerChange
  PROVE  OneFetch' /\ ListComing'
<1>0. Types /\ OneFetch /\ "change" \in Kinds /\ OK \in Int
  BY KindIds DEF ListInv, OK
<1>1. PICK i \in Unanswered("change") : calls' = Answered("change", i, OK)
  BY DEF AnswerChange
<1>2. /\ Only("change") /\ i \in DOMAIN calls'["change"] /\ calls'["change"][i] = OK
  BY <1>0, <1>1, AnsweredEffect
<1>3. ChangeMade' /\ calls'["list"] = calls["list"] /\ Fetch' = Fetch
  BY <1>2, KindIds, FetchSame DEF ChangeMade, Only, AnswerChange
<1>4. OneFetch'
  BY <1>0, <1>3 DEF OneFetch, AnswerChange
<1>5. ListComing'
  BY <1>3 DEF ListComing, ChangeMade
<1> QED
  BY <1>4, <1>5

LEMMA ListRefuseChange ==
  ASSUME ListInv, RefuseChange
  PROVE  OneFetch' /\ ListComing'
<1>0. Types /\ "change" \in Kinds /\ ERROR \in Int /\ NotYet # OK
  BY KindIds DEF ListInv, OK, ERROR, NotYet
<1>1. PICK i \in Unanswered("change") : calls' = Answered("change", i, ERROR)
  BY DEF RefuseChange
<1>2. /\ Only("change") /\ calls["change"][i] = NotYet
      /\ DOMAIN calls'["change"] = DOMAIN calls["change"]
      /\ \A j \in DOMAIN calls["change"] :
           calls'["change"][j] = IF j = i THEN ERROR ELSE calls["change"][j]
  BY <1>0, <1>1, AnsweredEffect
<1>3. ChangeMade => ChangeMade'
  BY <1>0, <1>2 DEF ChangeMade
<1>4. calls'["list"] = calls["list"]
  BY <1>2, KindIds DEF Only
<1> QED
  BY <1>3, <1>4, ListSame DEF ListInv, RefuseChange, firewall_vars

\* The server answers with the list in force.
LEMMA ListAnswer ==
  ASSUME ListInv, AnswerList
  PROVE  OneFetch' /\ ListComing'
<1>0. Types /\ "list" \in Kinds /\ list \in Int /\ list_excused \in BOOLEAN
  BY KindIds, NumberTypes DEF ListInv, Types, Counters
<1>1. PICK i \in Unanswered("list") : calls' = Answered("list", i, list)
  BY DEF AnswerList
<1>2. /\ Len(calls'["list"]) = Len(calls["list"]) /\ i \in DOMAIN calls["list"]
      /\ DOMAIN calls'["list"] = DOMAIN calls["list"]
      /\ \A j \in DOMAIN calls["list"] :
           calls'["list"][j] = IF j = i THEN list ELSE calls["list"][j]
  BY <1>0, <1>1, AnsweredEffect
<1>3. /\ list_excused' = (list_excused /\ UnderWay("list") > 1)
      /\ UNCHANGED <<panel, list>> /\ Fetch' = Fetch
  BY FetchSame DEF AnswerList, firewall_vars
<1>4. PICK n \in Nat : n = Len(calls["list"]) /\ DOMAIN calls["list"] = 1..n
  BY <1>0, CallsType
<1>5. ASSUME Fetch = "list", ~list_excused' PROVE n <= 1
  <2>1. CASE ~list_excused
    BY <1>4, <1>5, <2>1 DEF ListInv, OneFetch
  <2>2. CASE list_excused
    <3>1. ~(n > 1)
      BY <1>3, <1>4, <1>5, <2>2, Zenon DEF UnderWay
    <3> QED
      BY <3>1
  <2> QED
    BY <1>0, <2>1, <2>2
<1>6. OneFetch'
  BY <1>2, <1>3, <1>4, <1>5 DEF OneFetch
<1>7. ASSUME Fetch = "list", ~list_excused'
      PROVE  calls'["list"] # <<>> /\ calls'["list"][1] = list
  <2>1. i = 1
    BY <1>2, <1>4, <1>5, <1>7
  <2>2. 1 \in DOMAIN calls'["list"] /\ calls'["list"][1] = list
    BY <1>2, <2>1
  <2> QED
    BY <2>2
<1>8. ListComing'
  BY <1>3, <1>7 DEF ListComing
<1> QED
  BY <1>6, <1>8

\* A fetch of the list begins; if another is under way the page is excused.
LEMMA ListFetch ==
  ASSUME ListInv, UNCHANGED panel,
         list_excused' = (list_excused \/ UnderWay("list") > 0),
         Len(calls'["list"]) = Len(calls["list"]) + 1,
         DOMAIN calls'["list"] = 1..(Len(calls["list"]) + 1),
         calls'["list"][Len(calls["list"]) + 1] = NotYet
  PROVE  OneFetch' /\ ListComing'
<1>1. PICK n \in Nat : n = Len(calls["list"])
  BY KindIds, CallsType DEF ListInv
<1>2. ASSUME ~list_excused'
      PROVE  Len(calls'["list"]) <= 1 /\ calls'["list"] # <<>> /\ calls'["list"][1] = NotYet
  <2>1. ~(n > 0)
    BY <1>1, <1>2, Zenon DEF UnderWay
  <2>2. n + 1 = 1
    BY <2>1
  <2>3. Len(calls'["list"]) = 1 /\ DOMAIN calls'["list"] = 1..1 /\ calls'["list"][1] = NotYet
    BY <1>1, <2>2
  <2> QED
    BY <2>3
<1> QED
  BY <1>2 DEF OneFetch, ListComing

LEMMA ListOpen ==
  ASSUME ListInv, Open
  PROVE  OneFetch' /\ ListComing'
<1>0. Types /\ OneFetch /\ "list" \in Kinds /\ list_excused \in BOOLEAN /\ UNCHANGED panel
  BY KindIds DEF ListInv, Types, Counters, Open
<1>1. CASE Fetch # "list"
  BY <1>0, <1>1, ListExcused
<1>2. CASE Fetch = "list"
  <2>1. calls' = Calling({"list"}) /\ list_excused' = (list_excused \/ UnderWay("list") > 0)
    BY <1>2 DEF Open
  <2> QED
    BY <1>0, <2>1, CallingEffect, ListFetch
<1> QED
  BY <1>1, <1>2

\* The answer to a change arrives: the list is fetched, unless the page knows
\* that the change was refused.
LEMMA ListFetchAfter ==
  ASSUME ListInv, NEW i \in DOMAIN calls["change"], FetchAfter(i),
         UNCHANGED <<panel, list, ws, shown>>
  PROVE  OneFetch' /\ ListComing'
<1>0. Types /\ OneFetch /\ ListComing /\ "change" \in Kinds
  BY KindIds DEF ListInv
<1>1. CASE panel = "rules" \/ calls["change"][i] = OK
  <2>1. /\ calls' = [Calling({"list"}) EXCEPT !["change"] = RemoveAt(@, i)]
        /\ list_excused' = (list_excused \/ UnderWay("list") > 0)
    BY <1>1 DEF FetchAfter
  <2>2. /\ Len(calls'["list"]) = Len(calls["list"]) + 1
        /\ DOMAIN calls'["list"] = 1..(Len(calls["list"]) + 1)
        /\ calls'["list"][Len(calls["list"]) + 1] = NotYet
    BY <1>0, <2>1, FetchAfterEffect
  <2> QED
    BY <2>1, <2>2, ListFetch
<1>2. CASE ~(panel = "rules" \/ calls["change"][i] = OK)
  <2>1. calls' = Without("change", i) /\ UNCHANGED list_excused
    BY <1>2 DEF FetchAfter
  <2>2. /\ Only("change") /\ DOMAIN calls'["change"] = 1..(Len(calls["change"]) - 1)
        /\ \A j \in 1..(Len(calls["change"]) - 1) :
             calls'["change"][j] = IF j < i THEN calls["change"][j] ELSE calls["change"][j + 1]
    BY <1>0, <2>1, WithoutEffect
  <2>3. PICK n \in Nat : n = Len(calls["change"]) /\ DOMAIN calls["change"] = 1..n
    BY <1>0, CallsType
  <2>4. ASSUME ChangeMade PROVE ChangeMade'
    <3>1. PICK j \in 1..n : calls["change"][j] = OK
      BY <2>3, <2>4 DEF ChangeMade
    <3>2. j # i /\ i \in 1..n
      BY <1>2, <2>3, <3>1
    <3>3. CASE j < i
      <4>1. j \in 1..(n - 1)
        BY <3>2, <3>3
      <4>2. j \in DOMAIN calls'["change"] /\ calls'["change"][j] = OK
        BY <2>2, <2>3, <3>1, <3>3, <4>1
      <4> QED
        BY <4>2 DEF ChangeMade
    <3>4. CASE ~(j < i)
      <4>1. j - 1 \in 1..(n - 1) /\ ~(j - 1 < i) /\ (j - 1) + 1 = j
        BY <3>2, <3>4
      <4>2. j - 1 \in DOMAIN calls'["change"] /\ calls'["change"][j - 1] = OK
        BY <2>2, <2>3, <3>1, <4>1
      <4> QED
        BY <4>2 DEF ChangeMade
    <3> QED
      BY <3>3, <3>4
  <2>5. calls'["list"] = calls["list"]
    BY <2>2, KindIds DEF Only
  <2> QED
    BY <1>0, <2>1, <2>4, <2>5, ListSame
<1> QED
  BY <1>1, <1>2

\* The answer to the fetch arrives and is shown.
LEMMA ListGets ==
  ASSUME ListInv, GetsList
  PROVE  OneFetch' /\ ListComing'
<1>0. Types /\ OneFetch /\ ListComing /\ "list" \in Kinds
  BY KindIds DEF ListInv
<1>1. PICK i \in AnswersOf("list") :
        /\ calls' = Without("list", i)
        /\ shown' = [shown EXCEPT !.list = calls["list"][i]]
        /\ UNCHANGED <<panel, firewall_vars, ws, wire, log_excused, list_excused, cleared>>
  BY DEF GetsList
<1>2. i \in DOMAIN calls["list"] /\ calls["list"][i] # NotYet
  BY DEF AnswersOf, Unanswered
<1>3. /\ Only("list") /\ Len(calls'["list"]) = Len(calls["list"]) - 1
      /\ calls' \in [Kinds -> Seq(Int)]
  BY <1>0, <1>1, <1>2, WithoutEffect
<1>4. PICK n \in Nat : n = Len(calls["list"]) /\ DOMAIN calls["list"] = 1..n
  BY <1>0, CallsType
<1>5. /\ Fetch' = Fetch /\ UNCHANGED <<ws, list, list_excused>>
      /\ shown'.list = calls["list"][i]
  BY <1>0, <1>1, FetchSame, PageType DEF firewall_vars, Page
<1>6. ASSUME Fetch = "list", ~list_excused
      PROVE  Len(calls'["list"]) = 0 /\ i = 1
  <2>1. n <= 1 /\ i \in 1..n
    BY <1>0, <1>2, <1>4, <1>6 DEF OneFetch
  <2>2. n - 1 = 0 /\ i = 1
    BY <2>1
  <2> QED
    BY <1>3, <1>4, <2>2
<1>7. OneFetch'
  BY <1>5, <1>6 DEF OneFetch
<1>8. ASSUME Fetch = "list", ws = "open", ~list_excused
      PROVE  ChangeMade' \/ (calls'["list"] = <<>> /\ shown'.list = list)
  <2>1. calls'["list"] = <<>> /\ calls["list"] # <<>> /\ i = 1
    <3>1. calls'["list"] \in Seq(Int) /\ Len(calls'["list"]) = 0 /\ i = 1
      BY <1>0, <1>3, <1>6, <1>8
    <3>2. calls'["list"] = <<>>
      BY <3>1
    <3>3. calls["list"] # <<>>
      BY <1>2
    <3> QED
      BY <3>1, <3>2, <3>3
  <2>2. calls["list"][1] = list \/ ChangeMade
    BY <1>0, <1>2, <1>8, <2>1 DEF ListComing, ChangeMade
  <2>3. ChangeMade => ChangeMade'
    <3>1. calls'["change"] = calls["change"]
      BY <1>3, KindIds DEF Only
    <3> QED
      BY <3>1 DEF ChangeMade
  <2> QED
    BY <1>5, <2>1, <2>2, <2>3
<1>9. ListComing'
  BY <1>5, <1>8 DEF ListComing, ChangeMade
<1> QED
  BY <1>7, <1>9

LEMMA ListFirewall ==
  ASSUME ListInv,
         \/ Push \/ PushFails
         \/ AllowPacket \/ BlockPacket \/ OtherChange
         \/ AnswerStats \/ AnswerLog \/ AnswerList \/ AnswerChange \/ RefuseChange
  PROVE  OneFetch' /\ ListComing'
<1>0. Types /\ OneFetch /\ ListComing /\ "stats" \in Kinds /\ "log" \in Kinds
  BY KindIds DEF ListInv
<1>1. CASE AllowPacket \/ BlockPacket \/ Push \/ PushFails
  <2>1. UNCHANGED <<panel, list, ws, calls, shown, list_excused>>
    BY <1>1 DEF AllowPacket, BlockPacket, Push, PushFails
  <2>2. ChangeMade => ChangeMade'
    BY <2>1 DEF ChangeMade
  <2> QED
    BY <1>0, <2>1, <2>2, ListSame
<1>2. CASE OtherChange
  BY <1>2, ListExcused DEF OtherChange
<1>3. CASE AnswerStats
  <2>1. PICK i \in Unanswered("stats") : calls' = Answered("stats", i, stats)
    BY <1>3 DEF AnswerStats
  <2>2. Only("stats")
    BY <1>0, <2>1, NumberTypes, AnsweredEffect
  <2> QED
    BY <1>0, <1>3, <2>2, ListOtherCalls DEF AnswerStats, firewall_vars
<1>4. CASE AnswerLog
  <2>1. PICK i \in Unanswered("log") : calls' = Answered("log", i, events)
    BY <1>4 DEF AnswerLog
  <2>2. Only("log")
    BY <1>0, <2>1, NumberTypes, AnsweredEffect
  <2> QED
    BY <1>0, <1>4, <2>2, ListOtherCalls DEF AnswerLog, firewall_vars
<1> QED
  BY <1>1, <1>2, <1>3, <1>4, ListAnswer, ListAnswerChange, ListRefuseChange

LEMMA ListSocket ==
  ASSUME ListInv, Accept \/ Open \/ Close \/ Reconnect \/ Receive \/ Clear \/ Poll \/ Change
  PROVE  OneFetch' /\ ListComing'
<1>0. Types /\ OneFetch /\ ListComing /\ "stats" \in Kinds /\ "change" \in Kinds
  BY KindIds DEF ListInv
<1>1. CASE Accept \/ Close \/ Reconnect
  <2>1. /\ UNCHANGED <<panel, list, calls, shown, list_excused>> /\ ws' # "open"
    BY <1>1 DEF Accept, Close, Reconnect, firewall_vars
  <2>2. ChangeMade => ChangeMade'
    BY <2>1 DEF ChangeMade
  <2> QED
    BY <1>0, <2>1, <2>2, ListSame
<1>2. CASE Receive \/ Clear
  <2>1. UNCHANGED <<panel, list, ws, calls, list_excused>>
    BY <1>2 DEF Receive, Clear, firewall_vars
  <2>2. shown'.list = shown.list
    <3>1. PICK a : \/ shown' = AppendLog(a) \/ shown' = [shown EXCEPT !.stats = a]
                   \/ shown' = [shown EXCEPT !.log = a]
      BY <1>2 DEF Receive, Clear
    <3> QED
      BY <1>0, <3>1, PageType DEF AppendLog, Page
  <2>3. ChangeMade => ChangeMade'
    BY <2>1 DEF ChangeMade
  <2> QED
    BY <1>0, <2>1, <2>2, <2>3, ListSame
<1>3. CASE Poll
  <2>1. Only("stats")
    BY <1>0, <1>3, CallingEffect DEF Poll
  <2> QED
    BY <1>0, <1>3, <2>1, ListOtherCalls DEF Poll, firewall_vars
<1>4. CASE Change
  <2>1. /\ Only("change") /\ Len(calls["change"]) \in Nat
        /\ \A j \in 1..Len(calls["change"]) : calls'["change"][j] = calls["change"][j]
        /\ DOMAIN calls'["change"] = 1..(Len(calls["change"]) + 1)
        /\ DOMAIN calls["change"] = 1..Len(calls["change"])
    BY <1>0, <1>4, CallingEffect, CallsType DEF Change
  <2>2. \A j \in DOMAIN calls["change"] : j \in DOMAIN calls'["change"]
    BY <2>1
  <2>3. ChangeMade => ChangeMade'
    BY <2>1, <2>2 DEF ChangeMade
  <2>4. calls'["list"] = calls["list"]
    BY <2>1, KindIds DEF Only
  <2> QED
    BY <1>0, <1>4, <2>3, <2>4, ListSame DEF Change, firewall_vars
<1> QED
  BY <1>1, <1>2, <1>3, <1>4, ListOpen

LEMMA ListCalls ==
  ASSUME ListInv,
         \/ GetsStats \/ GetsLog \/ GetsList \/ GetsChange
         \/ LosesStats \/ LosesLog \/ LosesList \/ LosesChange
  PROVE  OneFetch' /\ ListComing'
<1>0. Types /\ OneFetch /\ ListComing /\ "stats" \in Kinds /\ "log" \in Kinds
  BY KindIds DEF ListInv
<1>1. CASE GetsStats \/ LosesStats
  <2>1. PICK i \in DOMAIN calls["stats"] : calls' = Without("stats", i)
    BY <1>1 DEF GetsStats, LosesStats, AnswersOf
  <2>2. Only("stats")
    BY <1>0, <2>1, WithoutEffect
  <2>3. UNCHANGED <<panel, list, ws, list_excused>>
    BY <1>1 DEF GetsStats, LosesStats, firewall_vars
  <2>4. shown'.list = shown.list
    <3>1. PICK a : shown' = shown \/ shown' = [shown EXCEPT !.stats = a]
      BY <1>1 DEF GetsStats, LosesStats
    <3> QED
      BY <1>0, <3>1, PageType DEF Page
  <2> QED
    BY <1>0, <2>2, <2>3, <2>4, ListOtherCalls
<1>2. CASE GetsLog \/ LosesLog
  <2>1. PICK i \in DOMAIN calls["log"] : calls' = Without("log", i)
    BY <1>2 DEF GetsLog, LosesLog, AnswersOf
  <2>2. Only("log")
    BY <1>0, <2>1, WithoutEffect
  <2>3. UNCHANGED <<panel, list, ws, list_excused>>
    BY <1>2 DEF GetsLog, LosesLog, firewall_vars
  <2>4. shown'.list = shown.list
    <3>1. PICK a : shown' = shown \/ shown' = AppendLog(a)
      BY <1>2 DEF GetsLog, LosesLog
    <3> QED
      BY <1>0, <3>1, PageType DEF AppendLog, Page
  <2> QED
    BY <1>0, <2>2, <2>3, <2>4, ListOtherCalls
<1>3. CASE GetsChange
  <2>1. PICK i \in DOMAIN calls["change"] : FetchAfter(i)
    BY <1>3 DEF GetsChange, AnswersOf
  <2> QED
    BY <1>3, <2>1, ListFetchAfter DEF GetsChange, firewall_vars
<1>4. CASE LosesList
  BY <1>4, ListExcused DEF LosesList
<1>5. CASE LosesChange
  <2>1. PICK i \in DOMAIN calls["change"] : FetchAfter(i) \/ list_excused' = TRUE
    BY <1>5 DEF LosesChange
  <2>2. UNCHANGED <<panel, list, ws, shown>>
    BY <1>5 DEF LosesChange, firewall_vars
  <2> QED
    BY <2>1, <2>2, ListFetchAfter, ListExcused
<1> QED
  BY <1>1, <1>2, <1>3, <1>4, <1>5, ListGets

LEMMA ListInit == Init => ListInv
<1> SUFFICES ASSUME Init PROVE ListInv
  OBVIOUS
<1>1. ws = "connecting" /\ calls["list"] = <<>>
  BY KindIds DEF Init
<1> QED
  BY <1>1, TypesInit DEF ListInv, OneFetch, ListComing

LEMMA ListNext == ListInv /\ [Next]_vars => ListInv'
<1> SUFFICES ASSUME ListInv, [Next]_vars PROVE ListInv'
  OBVIOUS
<1>1. Types'
  BY TypesNext DEF ListInv
<1>2. CASE UNCHANGED vars
  <2>1. ChangeMade => ChangeMade'
    BY <1>2 DEF vars, ChangeMade
  <2>2. OneFetch' /\ ListComing'
    BY <1>2, <2>1, ListSame DEF vars, firewall_vars, ListInv
  <2> QED
    BY <1>1, <2>2 DEF ListInv
<1>3. CASE Next
  <2>1. OneFetch' /\ ListComing'
    BY <1>3, ListFirewall, ListSocket, ListCalls DEF Next
  <2> QED
    BY <1>1, <2>1 DEF ListInv
<1> QED
  BY <1>2, <1>3

\* A page that is connected and has no call about the list under way shows the
\* list in force: it fetches the list when it connects and whenever it learns
\* that a change of its own may have been made.
THEOREM TheListInForceIsShown == Spec => []ListShown
<1>1. ListInv => ListShown
  <2> SUFFICES ASSUME ListInv, Fetch = "list", ws = "open", UnderWay("list") = 0,
                      UnderWay("change") = 0, ~list_excused
               PROVE  shown.list = list
    BY DEF ListShown
  <2>1. calls["list"] = <<>> /\ DOMAIN calls["change"] = 1..0
    BY KindIds, CallsType DEF ListInv, UnderWay
  <2> QED
    BY <2>1 DEF ListInv, ListComing
<1> QED
  BY <1>1, ListInit, ListNext, PTL DEF Spec
=============================================================================
