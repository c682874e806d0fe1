------------------------ MODULE AdministrationProofs ------------------------
(***************************************************************************)
(* Proofs about Administration, for every number of threads, clients and   *)
(* switches and every bound.                                               *)
(***************************************************************************)
EXTENDS Administration, FiniteSetTheorems, SequenceTheorems, TLAPS

-----------------------------------------------------------------------------
(* The inductive invariant, in parts                                       *)

Step     == {"event", "stats", "flush"}
Datapath == [id : Switches, conn : Nat]
Thread   ==
  [steps : Seq(Step), at : Nat, size : Nat, event : Nat, target : Seq(Datapath),
   seen : SUBSET Datapath, flushed : SUBSET Datapath, answer : {"none", "ok", "error"}]

Kept == IF logged < LogCap THEN logged ELSE LogCap

Types ==
  /\ cpu \in Threads \cup {NoThread}
  /\ thread \in [Threads -> Thread]
  /\ logged \in Nat
  /\ event_log = [i \in 1..Kept |-> logged - Kept + i]
  /\ connections \in Seq(Clients)
  /\ client \in [Clients -> {"new", "up", "broken", "gone"}]
  /\ sendlock \in [Clients -> Seq(Threads)]
  /\ received \in [Clients -> Seq(Nat)]
  /\ joined \in [Clients -> Nat]
  /\ disturbed \in SUBSET Nat
  /\ datapaths \in Seq(Datapath)

\* The list of connections holds every client that is up or broken, once; the
\* others have received nothing, and nobody sends to a client not seen yet.
Listed ==
  /\ \A i, j \in DOMAIN connections : connections[i] = connections[j] => i = j
  /\ \A c \in Clients :
       (\E i \in DOMAIN connections : connections[i] = c) <=> client[c] \in {"up", "broken"}
  /\ \A c \in Clients : client[c] \notin {"up", "broken"} => received[c] = <<>>
  /\ \A c \in Clients : client[c] = "new" => sendlock[c] = <<>>

\* No number is larger than that of the last event.
Numbered ==
  /\ \A c \in Clients : joined[c] <= logged
  /\ \A c \in Clients : \A i \in DOMAIN received[c] : received[c][i] <= logged
  /\ \A t \in Threads : InBroadcast(t) => thread[t].event \in 1..logged
  /\ \A e \in disturbed : e <= logged

InSend(t) == Busy(t) /\ Head(thread[t].steps) \in {"event", "stats"} /\ thread[t].at > 0
Waits(t, c) == \E i \in DOMAIN sendlock[c] : sendlock[c][i] = t

\* A thread that waits for a client is in the loop of broadcast, not running,
\* and waits for no other; a thread in that loop waits or runs; one that sends
\* to a datapath is in the loop of the flush.
Waiters ==
  /\ \A c \in Clients, t \in Threads : Waits(t, c) => cpu # t /\ InSend(t)
  /\ \A c, d \in Clients, t \in Threads : Waits(t, c) /\ Waits(t, d) => c = d
  /\ \A c \in Clients : \A i, j \in DOMAIN sendlock[c] :
       sendlock[c][i] = sendlock[c][j] => i = j
  /\ \A t \in Threads : InSend(t) /\ cpu # t => \E c \in Clients : Waits(t, c)
  /\ \A t \in Threads : thread[t].target # <<>> => Busy(t) /\ Head(thread[t].steps) = "flush"

Undisturbed(t) == InBroadcast(t) /\ thread[t].event \notin disturbed

\* The position of thread t in the loop is that of the client it waits for, or,
\* when clients have left since, a later one.
Position ==
  \A c \in Clients, t \in Threads : InBroadcast(t) /\ Waits(t, c) =>
    /\ \A i \in DOMAIN connections : connections[i] = c => i <= thread[t].at
    /\ Undisturbed(t) =>
         thread[t].at \in DOMAIN connections /\ connections[thread[t].at] = c

\* Events under way are distinct; a client that leaves disturbs them all.
Distinct ==
  /\ \A t, u \in Threads :
       InBroadcast(t) /\ InBroadcast(u) /\ thread[t].event = thread[u].event => t = u
  /\ \A t, u \in Threads :
       InBroadcast(t) /\ InBroadcast(u) /\ thread[t].event < thread[u].event
         /\ thread[u].event \in disturbed => thread[t].event \in disturbed

\* Nowhere in the line for client c is u before t.
Ahead(t, u, c) ==
  \A j, k \in DOMAIN sendlock[c] : sendlock[c][j] = t /\ sendlock[c][k] = u => j < k

\* An undisturbed broadcast u does not pass an earlier one, t.
Behind ==
  \A t, u \in Threads :
    InBroadcast(t) /\ Undisturbed(u) /\ thread[t].event < thread[u].event =>
      /\ cpu = t => thread[u].at < thread[t].at
      /\ \A i \in DOMAIN connections : Waits(t, connections[i]) =>
           thread[u].at <= i /\ Ahead(t, u, connections[i])

\* Thread t sends nothing any more to the client in place i.
Past(t, i) ==
  /\ i <= thread[t].at
  /\ cpu = t => i < thread[t].at
  /\ ~Waits(t, connections[i])

\* Thread t waits for a client that is gone, and will fail.
Doomed(t) == \E d \in Clients : client[d] = "gone" /\ Waits(t, d)

\* A client that has an event does not get it, or an earlier one, again.
NotAgain ==
  \A t \in Threads, i \in DOMAIN connections :
    \A k \in DOMAIN received[connections[i]] :
      InBroadcast(t) /\ thread[t].event <= received[connections[i]][k] =>
        \/ Past(t, i)
        \/ Doomed(t)
        \/ /\ thread[t].event # received[connections[i]][k]
           /\ {thread[t].event, received[connections[i]][k]} \subseteq disturbed

Got(c, e) == \E k \in DOMAIN received[c] : received[c][k] = e

\* An undisturbed broadcast has reached the clients before its position.
Reached ==
  \A t \in Threads, i \in DOMAIN connections :
    Undisturbed(t) /\ client[connections[i]] = "up" /\ joined[connections[i]] < thread[t].event
      => i >= thread[t].at \/ Got(connections[i], thread[t].event)

\* An undisturbed broadcast that is over has reached them all.
Complete ==
  \A c \in Clients, e \in 1..logged :
    client[c] = "up" /\ joined[c] < e /\ ~OnItsWay(e) /\ e \notin disturbed => Got(c, e)

\* The part about the broadcasts.
BroadcastInv ==
  /\ Numbered /\ Position /\ Distinct /\ Behind /\ NotAgain /\ EventsInOrder
  /\ Reached /\ Complete

FlushLeft(r) == \E i \in DOMAIN r.steps : r.steps[i] = "flush"
Flushing(r)  == r.steps # <<>> /\ Head(r.steps) = "flush" /\ r.at > 0

\* What a thread with state r knows of its flush: a switch that was registered
\* when its request began still is, with that connection or a later one; its
\* handler flushes once; the loop has sent the deletes to the datapaths before
\* its position, and after the loop to all of them.
FlushState(r) ==
  /\ \A d \in r.seen :
       \E i \in DOMAIN datapaths : datapaths[i].id = d.id /\ d.conn <= datapaths[i].conn
  /\ \A i, j \in DOMAIN r.steps : r.steps[i] = "flush" /\ r.steps[j] = "flush" => i = j
  /\ r.target # <<>> => Flushing(r) /\ Len(r.target) = 1
  /\ r.size > 0 => Flushing(r) \/ ~FlushLeft(r)
  /\ Flushing(r) => \A i \in DOMAIN datapaths : i < r.at /\ datapaths[i] \in r.seen =>
       datapaths[i] \in r.flushed \/ r.target = <<datapaths[i]>>
  /\ r.size > 0 /\ ~FlushLeft(r) => \A i \in DOMAIN datapaths :
       datapaths[i] \in r.seen => datapaths[i] \in r.flushed

\* The part about the flushes; the dictionary has one entry for a switch.
FlushInv ==
  /\ \A i, j \in DOMAIN datapaths : datapaths[i].id = datapaths[j].id => i = j
  /\ \A t \in Threads : FlushState(thread[t])

-----------------------------------------------------------------------------
(* Facts about sequences.                                                  *)

LEMMA TailType ==
  ASSUME NEW S, NEW s \in Seq(S), s # <<>>
  PROVE  /\ Head(s) \in S /\ s[1] = Head(s)
         /\ Tail(s) \in Seq(S)
         /\ Len(s) \in Nat \ {0}
         /\ Len(Tail(s)) = Len(s) - 1
         /\ DOMAIN s = 1..Len(s) /\ DOMAIN Tail(s) = 1..(Len(s) - 1)
         /\ \A i \in 1..(Len(s) - 1) : Tail(s)[i] = s[i + 1]
OBVIOUS

LEMMA AppendType ==
  ASSUME NEW S, NEW s \in Seq(S), NEW x \in S
  PROVE  /\ Append(s, x) \in Seq(S)
         /\ Len(s) \in Nat
         /\ Len(Append(s, x)) = Len(s) + 1
         /\ DOMAIN s = 1..Len(s) /\ DOMAIN Append(s, x) = 1..(Len(s) + 1)
         /\ \A i \in 1..Len(s) : Append(s, x)[i] = s[i]
         /\ Append(s, x)[Len(s) + 1] = x
OBVIOUS

\* list.remove of an element that is there once, in place k.
LEMMA RemoveFirstType ==
  ASSUME NEW S, NEW s \in Seq(S), NEW k \in 1..Len(s),
         \A i \in 1..Len(s) : s[i] = s[k] => i = k
  PROVE  LET r == RemoveFirst(s, s[k])
         IN  /\ r \in Seq(S)
             /\ Len(s) \in Nat \ {0} /\ DOMAIN s = 1..Len(s)
             /\ DOMAIN r = 1..(Len(s) - 1)
             /\ \A i \in 1..(Len(s) - 1) : r[i] = IF i < k THEN s[i] ELSE s[i + 1]
<1> DEFINE r == RemoveFirst(s, s[k])
           I == {i \in 1..Len(s) : s[i] = s[k]}
<1>1. /\ Len(s) \in Nat \ {0} /\ DOMAIN s = 1..Len(s)
  OBVIOUS
<1>2. I = {k}
  OBVIOUS
<1>3. Min(I) = k
  BY <1>2 DEF Min
<1>4. SelectInSeq(s, LAMBDA v : v = s[k]) = k
  BY <1>2, <1>3 DEF SelectInSeq
<1>5. r = SubSeq(s, 1, k - 1) \o SubSeq(s, k + 1, Len(s))
  BY <1>4 DEF RemoveFirst, RemoveAt
<1> DEFINE p == SubSeq(s, 1, k - 1)
           q == SubSeq(s, k + 1, Len(s))
<1>6. /\ p \in Seq(S) /\ Len(p) = k - 1
      /\ \A i \in 1..(k - 1) : p[i] = s[i]
  BY <1>1, SubSeqProperties
<1>7. /\ q \in Seq(S) /\ Len(q) = Len(s) - k
      /\ \A i \in 1..(Len(s) - k) : q[i] = s[k + i]
  <2>1. /\ q \in Seq(S) /\ Len(q) = IF k + 1 <= Len(s) THEN Len(s) - (k + 1) + 1 ELSE 0
        /\ \A i \in 1..(Len(s) - (k + 1) + 1) : q[i] = s[(k + 1) + i - 1]
    BY <1>1, SubSeqProperties
  <2> HIDE DEF q
  <2>2. Len(q) = Len(s) - k /\ Len(s) - (k + 1) + 1 = Len(s) - k
    <3>1. PICK n \in Nat : n = Len(s)
      BY <1>1
    <3>2. k \in 1..n
      BY <3>1
    <3>3. n - (k + 1) + 1 = n - k
      BY <3>2
    <3>4. Len(q) = IF k + 1 <= n THEN n - (k + 1) + 1 ELSE 0
      BY <2>1, <3>1
    <3>5. Len(q) = n - k
      BY <3>2, <3>3, <3>4
    <3> QED
      BY <3>1, <3>3, <3>5
  <2>3. ASSUME NEW i \in 1..(Len(s) - k) PROVE q[i] = s[k + i]
    <3>1. (k + 1) + i - 1 = k + i
      BY <1>1
    <3> QED
      BY <2>1, <2>2, <3>1
  <2> QED
    BY <2>1, <2>2, <2>3
<1> HIDE DEF p, q
<1>8. /\ p \o q \in Seq(S) /\ Len(p \o q) = Len(s) - 1
      /\ DOMAIN (p \o q) = 1..(Len(s) - 1)
  <2>1. p \o q \in Seq(S) /\ Len(p \o q) = Len(p) + Len(q)
    BY <1>6, <1>7, ConcatProperties
  <2> DEFINE pq == p \o q
  <2> HIDE DEF pq
  <2>2. pq \in Seq(S) /\ Len(pq) = Len(p) + Len(q)
    BY <2>1 DEF pq
  <2>3. DOMAIN pq = 1..(Len(s) - 1) /\ Len(pq) = Len(s) - 1
    BY <1>1, <1>6, <1>7, <2>2
  <2> QED
    BY <2>2, <2>3 DEF pq
<1>9. ASSUME NEW i \in 1..(Len(s) - 1)
      PROVE  (p \o q)[i] = IF i < k THEN s[i] ELSE s[i + 1]
  <2>1. (p \o q)[i] = IF i <= k - 1 THEN p[i] ELSE q[i - (k - 1)]
    BY <1>1, <1>6, <1>7, ConcatProperties
  <2>2. CASE i < k
    BY <2>1, <2>2, <1>6
  <2>3. CASE ~(i < k)
    <3>1. i - (k - 1) \in 1..(Len(s) - k) /\ k + (i - (k - 1)) = i + 1
      BY <2>3, <1>1
    <3> QED
      BY <2>1, <2>3, <3>1, <1>7
  <2> QED
    BY <2>2, <2>3
<1>10. r = p \o q
  BY <1>5 DEF p, q
<1> QED
  BY <1>1, <1>8, <1>9, <1>10

-----------------------------------------------------------------------------
(* The registry of DPI patterns                                            *)

Entry ==
  [name : ValidNames \cup ToSet(BuiltinNames), body : ValidBodies \cup {"builtin"},
   builtin : BOOLEAN]

\* What SoundRegistry says, and that the patterns behind the built-in ones are
\* those of users, so that their number is known from the length of the list.
RegistryInv ==
  /\ patterns \in Seq(Entry)
  /\ Len(patterns) \in Len(BuiltinNames)..(Len(BuiltinNames) + MAX_USER_PATTERNS)
  /\ \A i \in 1..Len(BuiltinNames) : patterns[i] = BuiltinPatterns[i]
  /\ \A i \in DOMAIN patterns : patterns[i].builtin <=> i <= Len(BuiltinNames)
  /\ \A i, j \in DOMAIN patterns : patterns[i].name = patterns[j].name => i = j

LEMMA BuiltinType ==
  /\ Len(BuiltinNames) \in Nat
  /\ BuiltinPatterns \in Seq(Entry)
  /\ Len(BuiltinPatterns) = Len(BuiltinNames)
  /\ DOMAIN BuiltinPatterns = 1..Len(BuiltinNames)
  /\ \A i \in 1..Len(BuiltinNames) :
       BuiltinPatterns[i].name = BuiltinNames[i] /\ BuiltinPatterns[i].builtin
<1>1. Len(BuiltinNames) \in Nat /\ DOMAIN BuiltinNames = 1..Len(BuiltinNames)
  BY RegistryAssumption
<1>2. \A i \in 1..Len(BuiltinNames) : Pattern(BuiltinNames[i], "builtin", TRUE) \in Entry
  BY <1>1 DEF Pattern, Entry, ToSet
<1> QED
  BY <1>1, <1>2 DEF BuiltinPatterns, Pattern

\* The list comprehension that leaves out the entry in place k.
LEMMA EntriesType ==
  ASSUME NEW S, NEW s \in Seq(S), NEW k \in 1..Len(s)
  PROVE  LET r == Entries(s, (1..Len(s)) \ {k})
         IN  /\ r \in Seq(S)
             /\ Len(r) = Len(s) - 1 /\ DOMAIN r = 1..(Len(s) - 1)
             /\ \A i \in 1..(Len(s) - 1) : r[i] = IF i < k THEN s[i] ELSE s[i + 1]
<1> DEFINE n == Len(s)
           P == (1..n) \ {k}
           rank(i) == Cardinality({m \in P : m <= i})
<1>1. n \in Nat \ {0} /\ DOMAIN s = 1..n
  OBVIOUS
<1>2. ASSUME NEW i \in 1..n PROVE IsFiniteSet(1..i) /\ Cardinality(1..i) = i
  BY <1>1, FS_Interval
<1>3. Cardinality(P) = n - 1
  <2>1. IsFiniteSet(1..n) /\ Cardinality(1..n) = n
    BY <1>1, FS_Interval
  <2> QED
    BY <2>1, FS_RemoveElement
<1>4. ASSUME NEW i \in P PROVE rank(i) = IF i < k THEN i ELSE i - 1
  <2>1. CASE i < k
    <3>1. {m \in P : m <= i} = 1..i
      BY <1>1, <2>1
    <3> QED
      BY <2>1, <3>1, <1>2
  <2>2. CASE ~(i < k)
    <3>1. {m \in P : m <= i} = (1..i) \ {k}
      BY <1>1, <2>2
    <3>2. k \in 1..i
      BY <2>2, <1>1
    <3> QED
      BY <2>2, <3>1, <3>2, <1>2, FS_RemoveElement
  <2> QED
    BY <2>1, <2>2
<1> HIDE DEF rank
<1>5. ASSUME NEW j \in 1..(n - 1)
      PROVE  (CHOOSE i \in P : rank(i) = j) = IF j < k THEN j ELSE j + 1
  <2> DEFINE a == IF j < k THEN j ELSE j + 1
  <2>1. a \in P /\ rank(a) = j
    BY <1>1, <1>4
  <2>2. \A i \in P : rank(i) = j => i = a
    BY <1>1, <1>4
  <2> QED
    BY <2>1, <2>2
<1>6. Entries(s, P) = [j \in 1..(n - 1) |-> s[IF j < k THEN j ELSE j + 1]]
  <2>1. Entries(s, P) = [j \in 1..Cardinality(P) |-> s[CHOOSE i \in P : rank(i) = j]]
    BY DEF Entries, rank
  <2> QED
    BY <1>3, <1>5, <2>1
<1>7. \A j \in 1..(n - 1) : s[IF j < k THEN j ELSE j + 1] \in S
  BY <1>1
<1> DEFINE r == [j \in 1..(n - 1) |-> s[IF j < k THEN j ELSE j + 1]]
<1>8. r \in Seq(S) /\ Len(r) = n - 1 /\ DOMAIN r = 1..(n - 1)
  BY <1>1, <1>7
<1>9. \A i \in 1..(n - 1) : r[i] = IF i < k THEN s[i] ELSE s[i + 1]
  OBVIOUS
<1> QED
  BY <1>6, <1>8, <1>9

LEMMA RegistryInit == Init => RegistryInv
<1> SUFFICES ASSUME Init PROVE RegistryInv
  OBVIOUS
<1>1. patterns = BuiltinPatterns
  BY DEF Init
<1>2. \A i, j \in 1..Len(BuiltinNames) : BuiltinNames[i] = BuiltinNames[j] => i = j
  BY RegistryAssumption
<1> QED
  BY <1>1, <1>2, BuiltinType, RegistryAssumption DEF RegistryInv

LEMMA RegistryAdds ==
  ASSUME RegistryInv, NEW n, NEW body, AddError(patterns, n, body) = "none",
         patterns' = WithPattern(patterns, n, body)
  PROVE  RegistryInv'
<1> DEFINE B == Len(BuiltinNames)
           e == Pattern(Strip(n), body, FALSE)
<1>1. /\ Strip(n) \in ValidNames /\ body \in ValidBodies
      /\ ~Has(patterns, Strip(n))
      /\ ~(UserCount(patterns) >= MAX_USER_PATTERNS)
  BY DEF AddError
<1>2. /\ patterns \in Seq(Entry) /\ Len(patterns) \in Nat /\ B \in Nat /\ B <= Len(patterns)
      /\ DOMAIN patterns = 1..Len(patterns)
  BY BuiltinType, RegistryAssumption DEF RegistryInv
<1>3. UserCount(patterns) = Len(patterns) - B
  <2>1. {i \in DOMAIN patterns : ~patterns[i].builtin} = (B + 1)..Len(patterns)
    BY <1>2 DEF RegistryInv
  <2>2. ASSUME NEW a \in Nat, NEW b \in Nat, a <= b PROVE Cardinality((a + 1)..b) = b - a
    <3>1. Cardinality((a + 1)..b) = IF a + 1 > b THEN 0 ELSE b - (a + 1) + 1
      BY FS_Interval
    <3> QED
      BY <2>2, <3>1
  <2>3. Cardinality((B + 1)..Len(patterns)) = Len(patterns) - B
    BY <1>2, <2>2
  <2> QED
    BY <2>1, <2>3 DEF UserCount
<1>4. e \in Entry /\ e.name = Strip(n) /\ e.builtin = FALSE
  BY <1>1 DEF Pattern, Entry
<1>5. /\ patterns' \in Seq(Entry) /\ Len(patterns') = Len(patterns) + 1
      /\ DOMAIN patterns' = 1..(Len(patterns) + 1)
      /\ \A i \in 1..Len(patterns) : patterns'[i] = patterns[i]
      /\ patterns'[Len(patterns) + 1] = e
  <2>1. patterns' = Append(patterns, e)
    BY DEF WithPattern
  <2> HIDE DEF e
  <2> QED
    BY <1>2, <1>4, <2>1, AppendType
<1> HIDE DEF e
<1>6. \A i \in 1..Len(patterns) : patterns[i].name # e.name
  BY <1>1, <1>2, <1>4 DEF Has
<1>7. Len(patterns') \in B..(B + MAX_USER_PATTERNS)
  BY <1>1, <1>2, <1>3, <1>5, RegistryAssumption
<1>8. \A i \in 1..B : patterns'[i] = BuiltinPatterns[i]
  BY <1>2, <1>5 DEF RegistryInv
<1>9. \A i \in DOMAIN patterns' : patterns'[i].builtin <=> i <= B
  BY <1>2, <1>4, <1>5 DEF RegistryInv
<1>10. \A i, j \in DOMAIN patterns' : patterns'[i].name = patterns'[j].name => i = j
  BY <1>2, <1>5, <1>6 DEF RegistryInv
<1> QED
  BY <1>5, <1>7, <1>8, <1>9, <1>10 DEF RegistryInv, BuiltinPatterns

LEMMA RegistryRemoves ==
  ASSUME RegistryInv, NEW n, RemoveError(patterns, n) = "none",
         patterns' = WithoutPattern(patterns, n)
  PROVE  RegistryInv'
<1> DEFINE B == Len(BuiltinNames)
           L == Len(patterns)
<1>1. /\ patterns \in Seq(Entry) /\ L \in Nat /\ B \in Nat
      /\ DOMAIN patterns = 1..L
  BY BuiltinType, RegistryAssumption DEF RegistryInv
<1>2. PICK k \in 1..L : patterns[k].name = n /\ ~patterns[k].builtin
  BY <1>1 DEF RemoveError, Has
<1>3. {i \in DOMAIN patterns : patterns[i].name # n} = (1..L) \ {k}
  BY <1>1, <1>2 DEF RegistryInv
<1>4. /\ patterns' \in Seq(Entry) /\ Len(patterns') = L - 1
      /\ DOMAIN patterns' = 1..(L - 1)
      /\ \A i \in 1..(L - 1) : patterns'[i] = IF i < k THEN patterns[i] ELSE patterns[i + 1]
  BY <1>1, <1>3, EntriesType DEF WithoutPattern
<1>5. k > B
  BY <1>1, <1>2 DEF RegistryInv
<1>6. Len(patterns') \in B..(B + MAX_USER_PATTERNS)
  BY <1>1, <1>4, <1>5, RegistryAssumption DEF RegistryInv
<1>7. \A i \in 1..B : patterns'[i] = BuiltinPatterns[i]
  BY <1>1, <1>4, <1>5 DEF RegistryInv
<1>8. \A i \in DOMAIN patterns' : patterns'[i].builtin <=> i <= B
  BY <1>1, <1>4, <1>5 DEF RegistryInv
<1>9. ASSUME NEW i \in DOMAIN patterns', NEW j \in DOMAIN patterns',
             patterns'[i].name = patterns'[j].name
      PROVE  i = j
  <2> DEFINE at(m) == IF m < k THEN m ELSE m + 1
  <2>1. /\ at(i) \in 1..L /\ patterns'[i] = patterns[at(i)]
        /\ at(j) \in 1..L /\ patterns'[j] = patterns[at(j)]
    BY <1>1, <1>4
  <2>2. at(i) = at(j)
    BY <1>1, <1>9, <2>1 DEF RegistryInv
  <2> QED
    BY <1>1, <1>4, <2>2
<1> QED
  BY <1>4, <1>6, <1>7, <1>8, <1>9 DEF RegistryInv, BuiltinPatterns

LEMMA RegistryNext == RegistryInv /\ [Next]_vars => RegistryInv'
<1> SUFFICES ASSUME RegistryInv, [Next]_vars PROVE RegistryInv'
  OBVIOUS
<1>1. ASSUME UNCHANGED patterns PROVE RegistryInv'
  BY <1>1 DEF RegistryInv, BuiltinPatterns
<1>2. ASSUME NEW t \in RestThreads, Request(t) PROVE RegistryInv'
  <2>1. PICK r \in Requests :
          \/ AddBlockedIp(t, r.ip)
          \/ DelBlockedIp(t, r.ip)
          \/ AddDpiPattern(t, r.name, r.body)
          \/ DelDpiPattern(t, r.name)
    BY <1>2 DEF Request
  <2>2. CASE AddBlockedIp(t, r.ip) \/ DelBlockedIp(t, r.ip)
    BY <2>2, <1>1 DEF AddBlockedIp, DelBlockedIp, Refuse
  <2>3. CASE AddDpiPattern(t, r.name, r.body)
    BY <2>3, <1>1, RegistryAdds DEF AddDpiPattern, Refuse
  <2>4. CASE DelDpiPattern(t, r.name)
    BY <2>4, <1>1, RegistryRemoves DEF DelDpiPattern, Refuse
  <2> QED
    BY <2>1, <2>2, <2>3, <2>4
<1>3. ASSUME NEW t \in Threads, Runs(t) PROVE UNCHANGED patterns
  BY <1>3 DEF Runs, AppendEvent, BeginStats, BroadcastEnds, SendAtOnce, SendWaits, SendRaises,
              BeginFlush, FlushRaises, FlushEnds, FlushTakes, FlushSends, FlushWaits,
              FlushGoesOn
<1>4. ASSUME NEW c \in Clients,
             SendDone(c) \/ WaitRaises(c) \/ Join(c) \/ Break(c) \/ Leave(c)
      PROVE  UNCHANGED patterns
  BY <1>4 DEF SendDone, WaitRaises, Join, Break, Leave
<1>5. CASE Packet
  BY <1>5, <1>1 DEF Packet
<1>6. ASSUME NEW s \in Switches, SwitchHandshake(s) PROVE UNCHANGED patterns
  BY <1>6 DEF SwitchHandshake
<1>7. CASE UNCHANGED vars
  BY <1>7, <1>1 DEF vars
<1> QED
  BY <1>1, <1>2, <1>3, <1>4, <1>5, <1>6, <1>7 DEF Next

\* The registry of DPIEngine stays sound: pattern names are unique, the built-in
\* patterns are all there and first, and users have at most MAX_USER_PATTERNS,
\* whatever administrators add and remove (add_pattern and remove_pattern).
THEOREM RegistryStaysSound == Spec => []RegistrySound
<1>1. RegistryInv => RegistrySound
  <2> SUFFICES ASSUME RegistryInv PROVE RegistrySound
    OBVIOUS
  <2>1. /\ patterns \in Seq(Entry) /\ Len(patterns) \in Nat
        /\ Len(BuiltinPatterns) \in Nat /\ Len(BuiltinPatterns) <= Len(patterns)
    BY BuiltinType, RegistryAssumption DEF RegistryInv
  <2> DEFINE s == SubSeq(patterns, 1, Len(BuiltinPatterns))
  <2>2. /\ s \in Seq(Entry) /\ Len(s) = Len(BuiltinPatterns)
        /\ \A i \in 1..Len(BuiltinPatterns) : s[i] = patterns[i]
    BY <2>1
  <2>3. s = BuiltinPatterns
    BY <2>1, <2>2, BuiltinType DEF RegistryInv
  <2> QED
    BY <2>1, <2>3, BuiltinType, RegistryAssumption DEF RegistryInv, RegistrySound, SoundRegistry
<1> QED
  BY <1>1, RegistryInit, RegistryNext, PTL DEF Spec

-----------------------------------------------------------------------------
(* What the steps of a thread do to the threads                            *)

LEMMA HandlerSteps ==
  ASSUME NEW h \in {Log, Log \o <<"flush">> \o Log, <<"flush">> \o Log \o Log}
  PROVE  /\ h \in Seq(Step) /\ h # <<>>
         /\ \A i, j \in DOMAIN h : h[i] = "flush" /\ h[j] = "flush" => i = j
<1> DEFINE f == <<"flush">>
<1>1. /\ Log \in Seq(Step) /\ Len(Log) = 2
      /\ Log[1] = "event" /\ Log[2] = "stats"
  BY DEF Log, Step
<1>2. f \in Seq(Step) /\ Len(f) = 1 /\ f[1] = "flush"
  BY DEF Step
<1> HIDE DEF f
<1>3. /\ Log \o f \in Seq(Step) /\ Len(Log \o f) = 3
      /\ \A i \in 1..3 : (Log \o f)[i] = IF i <= 2 THEN Log[i] ELSE f[i - 2]
  BY <1>1, <1>2, ConcatProperties
<1>4. /\ f \o Log \in Seq(Step) /\ Len(f \o Log) = 3
      /\ \A i \in 1..3 : (f \o Log)[i] = IF i <= 1 THEN f[i] ELSE Log[i - 1]
  BY <1>1, <1>2, ConcatProperties
<1>5. CASE h = Log
  BY <1>1, <1>5
<1>6. CASE h = Log \o f \o Log
  <2> DEFINE s == Log \o f
  <2> HIDE DEF s
  <2>1. /\ s \in Seq(Step) /\ Len(s) = 3 /\ s[1] = "event" /\ s[2] = "stats"
    BY <1>1, <1>2, <1>3 DEF s
  <2>2. h = s \o Log
    BY <1>6 DEF s
  <2>3. /\ h \in Seq(Step) /\ Len(h) = 5
        /\ \A i \in 1..5 : h[i] = IF i <= 3 THEN s[i] ELSE Log[i - 3]
    <3>1. s \in Seq(Step) /\ Log \in Seq(Step) /\ Len(s) = 3 /\ Len(Log) = 2
      BY <1>1, <2>1
    <3>2. /\ h \in Seq(Step) /\ Len(h) = 3 + 2
          /\ \A i \in 1..(3 + 2) : h[i] = IF i <= 3 THEN s[i] ELSE Log[i - 3]
      BY <3>1, <2>2, ConcatProperties
    <3> QED
      BY <3>2
  <2>4. ASSUME NEW i \in DOMAIN h, h[i] = "flush" PROVE i = 3
    BY <1>1, <2>1, <2>3, <2>4
  <2> QED
    BY <2>3, <2>4
<1>7. CASE h = f \o Log \o Log
  <2> DEFINE s == f \o Log
  <2> HIDE DEF s
  <2>1. /\ s \in Seq(Step) /\ Len(s) = 3 /\ s[2] = "event" /\ s[3] = "stats"
    BY <1>1, <1>2, <1>4 DEF s
  <2>2. h = s \o Log
    BY <1>7 DEF s
  <2>3. /\ h \in Seq(Step) /\ Len(h) = 5
        /\ \A i \in 1..5 : h[i] = IF i <= 3 THEN s[i] ELSE Log[i - 3]
    <3>1. s \in Seq(Step) /\ Log \in Seq(Step) /\ Len(s) = 3 /\ Len(Log) = 2
      BY <1>1, <2>1
    <3>2. /\ h \in Seq(Step) /\ Len(h) = 3 + 2
          /\ \A i \in 1..(3 + 2) : h[i] = IF i <= 3 THEN s[i] ELSE Log[i - 3]
      BY <3>1, <2>2, ConcatProperties
    <3> QED
      BY <3>2
  <2>4. ASSUME NEW i \in DOMAIN h, h[i] = "flush" PROVE i = 1
    BY <1>1, <2>1, <2>3, <2>4
  <2> QED
    BY <2>3, <2>4
<1> QED
  BY <1>5, <1>6, <1>7 DEF f

LEMMA IdleType ==
  ASSUME NEW a \in {"none", "ok", "error"}
  PROVE  /\ Idle(a) \in Thread /\ Idle(a).steps = <<>> /\ Idle(a).at = 0
         /\ Idle(a).event = 0 /\ Idle(a).target = <<>>
BY DEF Idle, Thread

LEMMA ThreadIds == NoThread \notin Threads /\ LOOP \in Threads /\ RestThreads \subseteq Threads
BY AdministrationAssumption DEF Threads, NoThread, LOOP

\* Everything but thread t and, perhaps, who runs.
OthersKeep(t) == \A u \in Threads \ {t} : thread'[u] = thread[u]

LEMMA ReturnEffect ==
  ASSUME Types, NEW t \in Threads, NEW a \in {"ok", "error"}, Return(t, a)
  PROVE  /\ thread' \in [Threads -> Thread] /\ OthersKeep(t) /\ cpu' = NoThread
         /\ thread'[t] = Idle(IF t \in RestThreads THEN a ELSE "none")
         /\ thread'[t].steps = <<>> /\ thread'[t].event = 0 /\ thread'[t].target = <<>>
<1> DEFINE b == IF t \in RestThreads THEN a ELSE "none"
<1>1. b \in {"none", "ok", "error"}
  OBVIOUS
<1>2. /\ Idle(b) \in Thread /\ Idle(b).steps = <<>> /\ Idle(b).event = 0
      /\ Idle(b).target = <<>>
  BY <1>1, IdleType
<1>3. cpu' = NoThread /\ thread' = [thread EXCEPT ![t] = Idle(b)]
  BY DEF Return
<1> HIDE DEF b
<1>4. thread \in [Threads -> Thread]
  BY DEF Types
<1>5. /\ thread' \in [Threads -> Thread] /\ OthersKeep(t)
      /\ thread'[t] = Idle(b)
  BY <1>2, <1>3, <1>4 DEF OthersKeep
<1> QED
  BY <1>2, <1>3, <1>5 DEF b

LEMMA BeginEffect ==
  ASSUME Types, NEW t \in Threads, NEW h \in Seq(Step), Begin(t, h)
  PROVE  /\ thread' \in [Threads -> Thread] /\ OthersKeep(t)
         /\ cpu = NoThread /\ cpu' = t /\ ~Busy(t)
         /\ thread'[t] = [Idle("none") EXCEPT !.steps = h, !.seen = ToSet(datapaths)]
         /\ thread'[t].steps = h /\ thread'[t].at = 0 /\ thread'[t].event = 0
<1> DEFINE r == [Idle("none") EXCEPT !.steps = h, !.seen = ToSet(datapaths)]
<1>1. ToSet(datapaths) \in SUBSET Datapath
  BY DEF Types, ToSet
<1>2. r \in Thread /\ r.steps = h /\ r.at = 0 /\ r.event = 0
  <2>1. Idle("none") \in Thread /\ Idle("none").at = 0 /\ Idle("none").event = 0
    BY IdleType
  <2> QED
    BY <1>1, <2>1 DEF Thread
<1>3. cpu = NoThread /\ cpu' = t /\ ~Busy(t) /\ thread' = [thread EXCEPT ![t] = r]
  BY DEF Begin, CanBegin
<1> HIDE DEF r
<1>4. /\ thread' \in [Threads -> Thread] /\ OthersKeep(t) /\ thread'[t] = r
  BY <1>2, <1>3 DEF OthersKeep, Types
<1> QED
  BY <1>2, <1>3, <1>4 DEF r

LEMMA NextStepEffect ==
  ASSUME Types, NEW t \in Threads, cpu = t, Busy(t), NextStep(t)
  PROVE  /\ thread' \in [Threads -> Thread] /\ OthersKeep(t)
         /\ thread'[t].steps = Tail(thread[t].steps)
         /\ thread'[t].at = 0 /\ thread'[t].event = 0
         /\ IF Tail(thread[t].steps) = <<>>
              THEN /\ cpu' = NoThread
                   /\ thread'[t] = Idle(IF t \in RestThreads THEN "ok" ELSE "none")
              ELSE /\ cpu' = t
                   /\ thread'[t] = [thread[t] EXCEPT !.steps = Tail(thread[t].steps),
                                                     !.at = 0, !.event = 0]
<1>1. thread \in [Threads -> Thread] /\ thread[t].steps \in Seq(Step)
  BY DEF Types, Thread
<1>2. Tail(thread[t].steps) \in Seq(Step)
  BY <1>1, TailType DEF Busy
<1>3. CASE Tail(thread[t].steps) = <<>>
  <2>1. Return(t, "ok")
    BY <1>3 DEF NextStep
  <2>2. Idle("ok").at = 0 /\ Idle("none").at = 0
    BY DEF Idle
  <2> QED
    BY <1>3, <2>1, <2>2, ReturnEffect
<1>4. CASE Tail(thread[t].steps) # <<>>
  <2>1. /\ thread' = [thread EXCEPT ![t].steps = Tail(thread[t].steps), ![t].at = 0,
                                    ![t].event = 0]
        /\ cpu' = t
    BY <1>4 DEF NextStep
  <2> QED
    BY <1>1, <1>2, <1>4, <2>1 DEF OthersKeep, Thread
<1> QED
  BY <1>3, <1>4

LEMMA FieldTypes ==
  ASSUME Types, NEW t \in Threads
  PROVE  /\ thread \in [Threads -> Thread] /\ thread[t] \in Thread
         /\ thread[t].steps \in Seq(Step) /\ thread[t].at \in Nat /\ thread[t].size \in Nat
         /\ thread[t].event \in Nat /\ thread[t].target \in Seq(Datapath)
         /\ thread[t].seen \in SUBSET Datapath /\ thread[t].flushed \in SUBSET Datapath
         /\ thread[t].answer \in {"none", "ok", "error"}
BY DEF Types, Thread

LEMMA PutThread ==
  ASSUME Types, NEW t \in Threads, NEW r \in Thread, thread' = [thread EXCEPT ![t] = r]
  PROVE  thread' \in [Threads -> Thread] /\ OthersKeep(t) /\ thread'[t] = r
BY DEF Types, OthersKeep

\* The position of the loop is set to 1, or advances.
LEMMA MoveEffect ==
  ASSUME Types, NEW t \in Threads, NEW n \in Nat, thread' = [thread EXCEPT ![t].at = n]
  PROVE  /\ thread' \in [Threads -> Thread] /\ OthersKeep(t)
         /\ thread'[t] = [thread[t] EXCEPT !.at = n]
<1> DEFINE r == [thread[t] EXCEPT !.at = n]
<1>1. r \in Thread
  BY FieldTypes DEF Thread
<1>2. thread' = [thread EXCEPT ![t] = r]
  BY FieldTypes
<1> QED
  BY <1>1, <1>2, PutThread

LEMMA AdvanceEffect ==
  ASSUME Types, NEW t \in Threads, thread' = [thread EXCEPT ![t].at = @ + 1]
  PROVE  /\ thread' \in [Threads -> Thread] /\ OthersKeep(t)
         /\ thread'[t] = [thread[t] EXCEPT !.at = thread[t].at + 1]
<1>1. thread[t].at + 1 \in Nat
  BY FieldTypes
<1>2. thread' = [thread EXCEPT ![t].at = thread[t].at + 1]
  BY FieldTypes
<1> QED
  BY <1>1, <1>2, MoveEffect

LEMMA AppendEventEffect ==
  ASSUME Types, NEW t \in Threads, AppendEvent(t)
  PROVE  /\ thread' \in [Threads -> Thread] /\ OthersKeep(t)
         /\ thread'[t] = [thread[t] EXCEPT !.at = 1, !.event = logged + 1]
<1> DEFINE r == [thread[t] EXCEPT !.at = 1, !.event = logged + 1]
<1>1. logged + 1 \in Nat
  BY DEF Types
<1>2. r \in Thread
  BY <1>1, FieldTypes DEF Thread
<1>3. thread' = [thread EXCEPT ![t] = r]
  BY FieldTypes DEF AppendEvent
<1> QED
  BY <1>2, <1>3, PutThread

LEMMA BeginFlushEffect ==
  ASSUME Types, NEW t \in Threads, BeginFlush(t)
  PROVE  /\ thread' \in [Threads -> Thread] /\ OthersKeep(t)
         /\ thread'[t] = [thread[t] EXCEPT !.at = 1, !.size = Len(datapaths)]
<1> DEFINE r == [thread[t] EXCEPT !.at = 1, !.size = Len(datapaths)]
<1>1. Len(datapaths) \in Nat
  BY DEF Types
<1>2. r \in Thread
  BY <1>1, FieldTypes DEF Thread
<1>3. thread' = [thread EXCEPT ![t] = r]
  BY FieldTypes DEF BeginFlush
<1> QED
  BY <1>2, <1>3, PutThread

LEMMA FlushTakesEffect ==
  ASSUME Types, NEW t \in Threads, FlushTakes(t)
  PROVE  /\ thread' \in [Threads -> Thread] /\ OthersKeep(t)
         /\ thread[t].at \in 1..Len(datapaths)
         /\ thread'[t] = [thread[t] EXCEPT !.at = thread[t].at + 1,
                                           !.target = <<datapaths[thread[t].at]>>]
<1> DEFINE d == <<datapaths[thread[t].at]>>
           r == [thread[t] EXCEPT !.at = thread[t].at + 1, !.target = d]
<1>1. thread[t].at \in 1..Len(datapaths) /\ datapaths \in Seq(Datapath)
  BY FieldTypes DEF Types, FlushTakes, InFlush
<1>2. datapaths[thread[t].at] \in Datapath
  BY <1>1
<1>3. d \in Seq(Datapath)
  BY <1>2
<1>4. thread' = [thread EXCEPT ![t].at = @ + 1, ![t].target = d]
  BY DEF FlushTakes
<1> HIDE DEF d
<1>5. r \in Thread
  <2>1. thread[t].at + 1 \in Nat
    BY FieldTypes
  <2> QED
    BY <1>3, <2>1, FieldTypes DEF Thread
<1>6. thread' = [thread EXCEPT ![t] = r]
  BY <1>4, FieldTypes
<1>7. thread' \in [Threads -> Thread] /\ OthersKeep(t) /\ thread'[t] = r
  BY <1>5, <1>6, PutThread
<1> QED
  BY <1>1, <1>7 DEF d

LEMMA FlushSendsEffect ==
  ASSUME Types, NEW t \in Threads, FlushSends(t)
  PROVE  /\ thread' \in [Threads -> Thread] /\ OthersKeep(t)
         /\ thread'[t] = [thread[t] EXCEPT
                            !.target = <<>>,
                            !.flushed = thread[t].flushed \cup {Head(thread[t].target)}]
<1> DEFINE F == thread[t].flushed \cup {Head(thread[t].target)}
           r == [thread[t] EXCEPT !.target = <<>>, !.flushed = F]
<1>1. thread[t].target # <<>>
  BY DEF FlushSends
<1>2. Head(thread[t].target) \in Datapath
  BY <1>1, FieldTypes, TailType
<1>3. F \in SUBSET Datapath
  BY <1>2, FieldTypes
<1>4. thread' = [thread EXCEPT ![t].target = <<>>, ![t].flushed = F]
  BY FieldTypes DEF FlushSends
<1> HIDE DEF F
<1>5. r \in Thread
  <2>1. <<>> \in Seq(Datapath)
    OBVIOUS
  <2> QED
    BY <1>3, <2>1, FieldTypes DEF Thread
<1>6. thread' = [thread EXCEPT ![t] = r]
  BY <1>4, FieldTypes
<1>7. thread' \in [Threads -> Thread] /\ OthersKeep(t) /\ thread'[t] = r
  BY <1>5, <1>6, PutThread
<1> QED
  BY <1>7 DEF F

-----------------------------------------------------------------------------
(* Types                                                                   *)

\* event_log.append and pop(0).
LEMMA LogEffect ==
  ASSUME Types, logged' = logged + 1,
         event_log' = LastEntries(Append(event_log, logged + 1))
  PROVE  event_log' = [i \in 1..Kept' |-> logged' - Kept' + i]
<1> DEFINE s == Append(event_log, logged + 1)
           m == IF Len(s) > LogCap THEN 2 ELSE 1
<1>1. /\ logged \in Nat /\ LogCap \in Nat \ {0} /\ Kept \in Nat /\ Kept <= logged
      /\ event_log = [i \in 1..Kept |-> logged - Kept + i]
  BY AdministrationAssumption DEF Types, Kept
<1>2. event_log \in Seq(Nat) /\ Len(event_log) = Kept
  BY <1>1
<1>3. /\ s \in Seq(Nat) /\ Len(s) = Kept + 1
      /\ \A i \in 1..Kept : s[i] = event_log[i]
      /\ s[Kept + 1] = logged + 1
  BY <1>1, <1>2, AppendType
<1>4. \A i \in 1..(Kept + 1) : s[i] = logged - Kept + i
  BY <1>1, <1>3
<1> HIDE DEF s
<1>5. m \in 1..2 /\ Kept' = Kept + 2 - m /\ Kept \in Nat
  BY <1>1, <1>3 DEF Kept
<1>6. event_log' = SubSeq(s, m, Kept + 1)
  BY <1>3 DEF LastEntries, s
<1> HIDE DEF m
<1>7. /\ SubSeq(s, m, Kept + 1) \in Seq(Nat)
      /\ Len(SubSeq(s, m, Kept + 1)) = Kept + 2 - m
      /\ \A i \in 1..(Kept + 2 - m) : SubSeq(s, m, Kept + 1)[i] = s[m + i - 1]
  BY <1>1, <1>3, <1>5, SubSeqProperties
<1>8. ASSUME NEW i \in 1..Kept' PROVE event_log'[i] = logged' - Kept' + i
  <2>1. m + i - 1 \in 1..(Kept + 1)
    BY <1>1, <1>5
  <2>2. event_log'[i] = logged - Kept + (m + i - 1)
    BY <1>4, <1>5, <1>6, <1>7, <2>1
  <2> QED
    BY <1>1, <1>5, <2>2
<1>9. event_log' \in Seq(Nat) /\ Len(event_log') = Kept'
  BY <1>5, <1>6, <1>7
<1> QED
  BY <1>8, <1>9

LEMMA TypesInit == Init => Types
<1> SUFFICES ASSUME Init PROVE Types
  OBVIOUS
<1>1. thread \in [Threads -> Thread]
  BY IdleType DEF Init
<1>2. event_log = [i \in 1..Kept |-> logged - Kept + i]
  BY AdministrationAssumption DEF Init, Kept
<1> QED
  BY <1>1, <1>2 DEF Init, Types

\* The steps that begin or refuse a request.
LEMMA BeginTypes ==
  ASSUME Types, NEW t \in Threads,
         UNCHANGED <<log_vars, client_vars, datapaths>>,
         \/ Return(t, "error")
         \/ \E h \in {Log, Log \o <<"flush">> \o Log, <<"flush">> \o Log \o Log} : Begin(t, h)
  PROVE  Types'
<1>1. thread' \in [Threads -> Thread] /\ cpu' \in Threads \cup {NoThread}
  BY ReturnEffect, BeginEffect, HandlerSteps
<1> QED
  BY <1>1 DEF Types, Kept, log_vars, client_vars

\* What a request does: it is refused, or its handler begins.
LEMMA RequestEffect ==
  ASSUME NEW t \in Threads, (t \in RestThreads /\ Request(t)) \/ (t = LOOP /\ Packet)
  PROVE  /\ UNCHANGED <<log_vars, client_vars, datapaths>>
         /\ CanBegin(t)
         /\ \/ Return(t, "error")
            \/ \E h \in {Log, Log \o <<"flush">> \o Log, <<"flush">> \o Log \o Log} :
                 Begin(t, h)
<1>1. CASE t = LOOP /\ Packet
  BY <1>1 DEF Packet, Begin
<1>2. CASE t \in RestThreads /\ Request(t)
  <2>1. PICK r \in Requests :
          \/ AddBlockedIp(t, r.ip)
          \/ DelBlockedIp(t, r.ip)
          \/ AddDpiPattern(t, r.name, r.body)
          \/ DelDpiPattern(t, r.name)
    BY <1>2 DEF Request
  <2>2. \A h : Begin(t, h) => CanBegin(t)
    BY DEF Begin
  <2> QED
    BY <2>1, <2>2, Zenon DEF AddBlockedIp, DelBlockedIp, AddDpiPattern, DelDpiPattern, Refuse
<1> QED
  BY <1>1, <1>2

LEMMA TypesRequest ==
  ASSUME Types, NEW t \in Threads, (t \in RestThreads /\ Request(t)) \/ (t = LOOP /\ Packet)
  PROVE  Types'
BY RequestEffect, BeginTypes

LEMMA TypesRuns ==
  ASSUME Types, NEW t \in Threads, Runs(t)
  PROVE  Types'
<1>0. thread \in [Threads -> Thread] /\ logged \in Nat /\ t \in Threads
  BY DEF Types
<1>1. CASE AppendEvent(t)
  <2>1. event_log' = [i \in 1..Kept' |-> logged' - Kept' + i]
    BY <1>1, LogEffect DEF AppendEvent
  <2>2. thread' \in [Threads -> Thread]
    BY <1>1, AppendEventEffect
  <2>3. logged' \in Nat
    BY <1>0, <1>1 DEF AppendEvent
  <2> QED
    BY <1>1, <2>1, <2>2, <2>3 DEF Types, AppendEvent, client_vars
<1>2. CASE BeginStats(t)
  <2>1. thread' \in [Threads -> Thread]
    BY <1>2, MoveEffect DEF BeginStats
  <2> QED
    BY <1>2, <2>1 DEF Types, Kept, BeginStats, client_vars, log_vars
<1>3. CASE BroadcastEnds(t)
  <2>1. thread' \in [Threads -> Thread] /\ cpu' \in Threads \cup {NoThread}
    BY <1>3, NextStepEffect DEF BroadcastEnds, Broadcasting, Doing
  <2> QED
    BY <1>3, <2>1 DEF Types, Kept, BroadcastEnds, client_vars, log_vars
<1>4. CASE SendAtOnce(t)
  <2>1. thread' \in [Threads -> Thread]
    BY <1>4, AdvanceEffect DEF SendAtOnce
  <2>2. Current(t) \in Clients /\ thread[t].event \in Nat
    BY <1>0, <1>4 DEF SendAtOnce, Broadcasting, Current, Types, Thread
  <2>3. received' \in [Clients -> Seq(Nat)]
    BY <1>4, <2>2, AppendType DEF SendAtOnce, Delivered, Types
  <2> QED
    BY <1>4, <2>1, <2>3 DEF Types, Kept, SendAtOnce, log_vars
<1>5. CASE SendWaits(t)
  <2>1. Current(t) \in Clients
    BY <1>0, <1>5 DEF SendWaits, Broadcasting, Current, Types, Thread
  <2>2. sendlock' \in [Clients -> Seq(Threads)]
    BY <1>5, <2>1, AppendType DEF SendWaits, Types
  <2> QED
    BY <1>5, <2>2 DEF Types, Kept, SendWaits, log_vars
<1>6. CASE SendRaises(t)
  <2>1. thread' \in [Threads -> Thread] /\ cpu' = NoThread
    BY <1>6, ReturnEffect DEF SendRaises, Fails
  <2>2. disturbed' \in SUBSET Nat
    BY <1>0, <1>6 DEF SendRaises, Undelivered, Types, Thread
  <2> QED
    BY <1>6, <2>1, <2>2 DEF Types, Kept, SendRaises, log_vars
<1>7. CASE BeginFlush(t)
  <2>1. thread' \in [Threads -> Thread]
    BY <1>7, BeginFlushEffect
  <2> QED
    BY <1>7, <2>1 DEF Types, Kept, BeginFlush, client_vars, log_vars
<1>8. CASE FlushRaises(t)
  <2>1. thread' \in [Threads -> Thread] /\ cpu' = NoThread
    BY <1>8, ReturnEffect DEF FlushRaises, Fails
  <2> QED
    BY <1>8, <2>1 DEF Types, Kept, FlushRaises, client_vars, log_vars
<1>9. CASE FlushEnds(t)
  <2>1. thread' \in [Threads -> Thread] /\ cpu' \in Threads \cup {NoThread}
    BY <1>9, NextStepEffect DEF FlushEnds, InFlush, Doing
  <2> QED
    BY <1>9, <2>1 DEF Types, Kept, FlushEnds, client_vars, log_vars
<1>10. CASE FlushTakes(t)
  <2>1. thread' \in [Threads -> Thread]
    BY <1>10, FlushTakesEffect
  <2> QED
    BY <1>10, <2>1 DEF Types, Kept, FlushTakes, client_vars, log_vars
<1>11. CASE FlushSends(t)
  <2>1. thread' \in [Threads -> Thread]
    BY <1>11, FlushSendsEffect
  <2> QED
    BY <1>11, <2>1 DEF Types, Kept, FlushSends, client_vars, log_vars
<1>12. CASE FlushWaits(t)
  BY <1>12 DEF Types, Kept, FlushWaits, client_vars, log_vars
<1>13. CASE FlushGoesOn(t)
  BY <1>13 DEF Types, Kept, FlushGoesOn, client_vars, log_vars
<1> QED
  BY <1>1, <1>2, <1>3, <1>4, <1>5, <1>6, <1>7, <1>8, <1>9, <1>10, <1>11, <1>12, <1>13
     DEF Runs

LEMMA TypesClient ==
  ASSUME Types, Listed, NEW c \in Clients,
         SendDone(c) \/ WaitRaises(c) \/ Join(c) \/ Break(c) \/ Leave(c)
  PROVE  Types'
<1>0. /\ thread \in [Threads -> Thread] /\ logged \in Nat
      /\ sendlock \in [Clients -> Seq(Threads)]
  BY DEF Types
<1>1. CASE SendDone(c)
  <2> DEFINE t == Head(sendlock[c])
  <2>1. t \in Threads /\ Tail(sendlock[c]) \in Seq(Threads)
    BY <1>0, <1>1, TailType DEF SendDone
  <2> HIDE DEF t
  <2>2. /\ received' = Delivered(t, c) /\ cpu' = t
        /\ thread' = [thread EXCEPT ![t].at = @ + 1]
    BY <1>1 DEF SendDone, t
  <2>3. thread' \in [Threads -> Thread] /\ thread[t].event \in Nat
    BY <2>1, <2>2, FieldTypes, AdvanceEffect
  <2>4. received' \in [Clients -> Seq(Nat)]
    BY <2>2, <2>3, AppendType DEF Delivered, Types
  <2>5. sendlock' \in [Clients -> Seq(Threads)]
    BY <1>0, <1>1, <2>1 DEF SendDone
  <2> QED
    BY <1>1, <2>1, <2>2, <2>3, <2>4, <2>5 DEF SendDone, Types, Kept, log_vars
<1>2. CASE WaitRaises(c)
  <2> DEFINE t == Head(sendlock[c])
  <2>1. t \in Threads /\ Tail(sendlock[c]) \in Seq(Threads)
    BY <1>0, <1>2, TailType DEF WaitRaises
  <2> HIDE DEF t
  <2>2. Return(t, "error") /\ disturbed' = disturbed \cup Undelivered(t)
    BY <1>2 DEF WaitRaises, Fails, t
  <2>3. thread' \in [Threads -> Thread] /\ cpu' = NoThread
    BY <2>1, <2>2, ReturnEffect
  <2>4. disturbed' \in SUBSET Nat
    BY <1>0, <2>1, <2>2 DEF Undelivered, Types, Thread
  <2>5. sendlock' \in [Clients -> Seq(Threads)]
    BY <1>0, <1>2, <2>1 DEF WaitRaises
  <2> QED
    BY <1>2, <2>3, <2>4, <2>5 DEF WaitRaises, Types, Kept, log_vars
<1>3. CASE Join(c)
  <2>1. connections' \in Seq(Clients)
    BY <1>3, AppendType DEF Join, Types
  <2> QED
    BY <1>3, <2>1 DEF Join, Types, Kept, log_vars
<1>4. CASE Break(c)
  BY <1>4 DEF Break, Types, Kept, log_vars
<1>5. CASE Leave(c)
  <2>1. PICK k \in 1..Len(connections) : connections[k] = c
    BY <1>5 DEF Leave, Listed, Types
  <2>2. connections' \in Seq(Clients)
    <3>1. \A i \in 1..Len(connections) : connections[i] = connections[k] => i = k
      <4>1. DOMAIN connections = 1..Len(connections)
        BY DEF Types
      <4> QED
        BY <4>1 DEF Listed
    <3>2. connections' = RemoveFirst(connections, connections[k])
      BY <1>5, <2>1 DEF Leave
    <3>3. PICK s \in Seq(Clients) : s = connections
      BY DEF Types
    <3>4. k \in 1..Len(s) /\ \A i \in 1..Len(s) : s[i] = s[k] => i = k
      BY <3>1, <3>3
    <3>5. RemoveFirst(s, s[k]) \in Seq(Clients)
      BY <3>4, RemoveFirstType
    <3> QED
      BY <3>2, <3>3, <3>5
  <2>3. disturbed' \in SUBSET Nat
    <3>1. \A t \in Threads : thread[t] \in Thread
      BY DEF Types
    <3>2. \A t \in Threads : thread[t].event \in Nat
      BY <3>1 DEF Thread
    <3>3. disturbed' = disturbed \cup {thread[t].event : t \in {u \in Threads : InBroadcast(u)}}
      BY <1>5 DEF Leave
    <3>4. disturbed \subseteq Nat
      BY DEF Types
    <3> QED
      BY <3>2, <3>3, <3>4
  <2>4. received' \in [Clients -> Seq(Nat)] /\ joined' \in [Clients -> Nat]
    BY <1>5 DEF Leave, Types
  <2> QED
    BY <1>5, <2>2, <2>3, <2>4 DEF Leave, Types, Kept, log_vars
<1> QED
  BY <1>1, <1>2, <1>3, <1>4, <1>5

\* The dictionary of datapaths: a new entry, or a new connection of an old one.
LEMMA HandshakeEffect ==
  ASSUME Types, NEW s \in Switches, SwitchHandshake(s)
  PROVE  /\ datapaths' \in Seq(Datapath) /\ datapaths \in Seq(Datapath)
         /\ \/ /\ \A i \in DOMAIN datapaths : datapaths[i].id # s
               /\ datapaths' = Append(datapaths, [id |-> s, conn |-> 1])
            \/ \E k \in DOMAIN datapaths :
                 /\ datapaths[k].id = s
                 /\ datapaths' = [datapaths EXCEPT ![k].conn = @ + 1]
<1> DEFINE known == {i \in DOMAIN datapaths : datapaths[i].id = s}
<1>1. datapaths \in Seq(Datapath)
  BY DEF Types
<1>2. CASE known = {}
  <2>1. datapaths' = Append(datapaths, [id |-> s, conn |-> 1])
    BY <1>2 DEF SwitchHandshake
  <2>2. [id |-> s, conn |-> 1] \in Datapath
    BY DEF Datapath
  <2> QED
    BY <1>1, <1>2, <2>1, <2>2, AppendType
<1>3. CASE known # {}
  <2>1. PICK k \in known : datapaths' = [datapaths EXCEPT ![k].conn = @ + 1]
    BY <1>3 DEF SwitchHandshake
  <2>2. datapaths' \in Seq(Datapath)
    <3>1. /\ DOMAIN datapaths = 1..Len(datapaths) /\ Len(datapaths) \in Nat
          /\ \A i \in 1..Len(datapaths) : datapaths[i] \in Datapath
      BY <1>1
    <3>2. [datapaths[k] EXCEPT !.conn = @ + 1] \in Datapath
      BY <3>1 DEF Datapath
    <3>3. /\ DOMAIN datapaths' = 1..Len(datapaths)
          /\ \A i \in 1..Len(datapaths) : datapaths'[i] =
               IF i = k THEN [datapaths[k] EXCEPT !.conn = @ + 1] ELSE datapaths[i]
      BY <2>1, <3>1
    <3>4. datapaths' \in [1..Len(datapaths) -> Datapath]
      BY <2>1, <3>1, <3>2, <3>3
    <3> QED
      BY <3>1, <3>4
  <2> QED
    BY <1>1, <2>1, <2>2
<1> QED
  BY <1>2, <1>3

LEMMA TypesHandshake ==
  ASSUME Types, NEW s \in Switches, SwitchHandshake(s)
  PROVE  Types'
<1>1. datapaths' \in Seq(Datapath)
  BY HandshakeEffect
<1> QED
  BY <1>1 DEF SwitchHandshake, Types, Kept, log_vars, client_vars

-----------------------------------------------------------------------------
(* The list of connections                                                 *)

LEMMA ConnectionsType ==
  ASSUME Types
  PROVE  /\ connections \in Seq(Clients) /\ Len(connections) \in Nat
         /\ DOMAIN connections = 1..Len(connections)
         /\ \A i \in 1..Len(connections) : connections[i] \in Clients
BY DEF Types

\* A client that leaves: those behind it move one place forward.
LEMMA LeaveEffect ==
  ASSUME Types, Listed, NEW c \in Clients, Leave(c)
  PROVE  \E k \in 1..Len(connections) :
           /\ connections[k] = c
           /\ DOMAIN connections' = 1..(Len(connections) - 1)
           /\ \A i \in 1..(Len(connections) - 1) :
                connections'[i] = IF i < k THEN connections[i] ELSE connections[i + 1]
<1>1. PICK k \in 1..Len(connections) : connections[k] = c
  BY ConnectionsType DEF Leave, Listed
<1>2. \A i \in 1..Len(connections) : connections[i] = connections[k] => i = k
  BY ConnectionsType DEF Listed
<1>3. connections' = RemoveFirst(connections, connections[k])
  BY <1>1 DEF Leave
<1>4. /\ DOMAIN connections' = 1..(Len(connections) - 1)
      /\ \A i \in 1..(Len(connections) - 1) :
           connections'[i] = IF i < k THEN connections[i] ELSE connections[i + 1]
  BY <1>2, <1>3, ConnectionsType, RemoveFirstType
<1> QED
  BY <1>1, <1>4

\* Where a client of the new list was, and where one of the old list is.
LEMMA LeavePlaces ==
  ASSUME Types, Listed, NEW c \in Clients, Leave(c)
  PROVE  /\ \A i \in DOMAIN connections' : \E j \in DOMAIN connections :
              j \in {i, i + 1} /\ connections'[i] = connections[j] /\ connections[j] # c
         /\ \A j \in DOMAIN connections : connections[j] # c =>
              \E i \in DOMAIN connections' : j \in {i, i + 1} /\ connections'[i] = connections[j]
         /\ \A i, j \in DOMAIN connections' : connections'[i] = connections'[j] => i = j
<1>1. PICK k \in 1..Len(connections) :
           /\ connections[k] = c
           /\ DOMAIN connections' = 1..(Len(connections) - 1)
           /\ \A i \in 1..(Len(connections) - 1) :
                connections'[i] = IF i < k THEN connections[i] ELSE connections[i + 1]
  BY LeaveEffect
<1>2. /\ Len(connections) \in Nat /\ DOMAIN connections = 1..Len(connections)
      /\ \A i, j \in 1..Len(connections) : connections[i] = connections[j] => i = j
  BY ConnectionsType DEF Listed
<1>3. ASSUME NEW i \in DOMAIN connections'
      PROVE  LET j == IF i < k THEN i ELSE i + 1
             IN  /\ j \in 1..Len(connections) /\ connections'[i] = connections[j] /\ j # k
  BY <1>1, <1>2
<1>4. ASSUME NEW j \in DOMAIN connections, connections[j] # c
      PROVE  LET i == IF j < k THEN j ELSE j - 1
             IN  /\ i \in DOMAIN connections' /\ j \in {i, i + 1}
                 /\ connections'[i] = connections[j]
  <2>1. j # k
    BY <1>1, <1>4
  <2>2. CASE j < k
    BY <1>1, <1>2, <2>2
  <2>3. CASE j > k
    <3>1. j - 1 \in 1..(Len(connections) - 1) /\ ~(j - 1 < k) /\ (j - 1) + 1 = j
      BY <1>2, <2>3
    <3> QED
      BY <1>1, <2>3, <3>1
  <2> QED
    BY <1>2, <2>1, <2>2, <2>3
<1>5. ASSUME NEW i \in DOMAIN connections', NEW j \in DOMAIN connections',
             connections'[i] = connections'[j]
      PROVE  i = j
  <2>1. (IF i < k THEN i ELSE i + 1) = (IF j < k THEN j ELSE j + 1)
    BY <1>2, <1>3, <1>5
  <2> QED
    BY <1>1, <1>2, <2>1
<1>6. ASSUME NEW i \in DOMAIN connections'
      PROVE  \E j \in DOMAIN connections :
               j \in {i, i + 1} /\ connections'[i] = connections[j] /\ connections[j] # c
  BY <1>1, <1>2, <1>3
<1>7. ASSUME NEW j \in DOMAIN connections, connections[j] # c
      PROVE  \E i \in DOMAIN connections' : j \in {i, i + 1} /\ connections'[i] = connections[j]
  BY <1>4, <1>7
<1> QED
  BY <1>5, <1>6, <1>7

LEMMA JoinPlaces ==
  ASSUME Types, Listed, NEW c \in Clients, Join(c)
  PROVE  /\ DOMAIN connections' = 1..(Len(connections) + 1)
         /\ \A i \in 1..Len(connections) : connections'[i] = connections[i]
         /\ connections'[Len(connections) + 1] = c
         /\ \A i \in DOMAIN connections : connections[i] # c
<1>1. connections' = Append(connections, c) /\ client[c] = "new"
  BY DEF Join
<1>2. /\ DOMAIN connections' = 1..(Len(connections) + 1)
      /\ \A i \in 1..Len(connections) : connections'[i] = connections[i]
      /\ connections'[Len(connections) + 1] = c
  BY <1>1, ConnectionsType, AppendType
<1>3. \A i \in DOMAIN connections : connections[i] # c
  BY <1>1 DEF Listed
<1> QED
  BY <1>2, <1>3

LEMMA ListedUnchanged ==
  ASSUME Types, Listed, UNCHANGED <<connections, client>>,
         \A c \in Clients : client[c] \notin {"up", "broken"} => received'[c] = received[c],
         \A c \in Clients : client[c] = "new" => sendlock'[c] = sendlock[c]
  PROVE  Listed'
BY DEF Listed

LEMMA ListedRuns ==
  ASSUME Types, Listed, NEW t \in Threads, Runs(t)
  PROVE  Listed'
<1>1. CASE UNCHANGED client_vars
  BY <1>1, ListedUnchanged DEF client_vars
<1>2. CASE SendRaises(t)
  BY <1>2, ListedUnchanged DEF SendRaises
<1>3. ASSUME Broadcasting(t), thread[t].at <= Len(connections)
      PROVE  Current(t) \in Clients /\ client[Current(t)] \in {"up", "broken"}
  <2>1. thread[t].at \in DOMAIN connections
    BY <1>3, FieldTypes, ConnectionsType DEF Broadcasting
  <2> QED
    BY <2>1, ConnectionsType DEF Current, Listed
<1>4. CASE SendAtOnce(t)
  <2>1. \A c \in Clients : client[c] \notin {"up", "broken"} => received'[c] = received[c]
    BY <1>3, <1>4 DEF SendAtOnce, Delivered, Types
  <2> QED
    BY <1>4, <2>1, ListedUnchanged DEF SendAtOnce
<1>5. CASE SendWaits(t)
  <2>1. \A c \in Clients : client[c] = "new" => sendlock'[c] = sendlock[c]
    BY <1>3, <1>5 DEF SendWaits, Types
  <2> QED
    BY <1>5, <2>1, ListedUnchanged DEF SendWaits
<1> QED
  BY <1>1, <1>2, <1>4, <1>5
     DEF Runs, AppendEvent, BeginStats, BroadcastEnds, BeginFlush, FlushRaises, FlushEnds,
         FlushTakes, FlushSends, FlushWaits, FlushGoesOn

LEMMA ListedClient ==
  ASSUME Types, Listed, NEW c \in Clients,
         SendDone(c) \/ WaitRaises(c) \/ Join(c) \/ Break(c) \/ Leave(c)
  PROVE  Listed'
<1>1. CASE SendDone(c)
  <2>1. client[c] = "up" /\ UNCHANGED <<connections, client>>
    BY <1>1 DEF SendDone
  <2>2. \A d \in Clients : client[d] \notin {"up", "broken"} => received'[d] = received[d]
    BY <1>1, <2>1 DEF SendDone, Delivered, Types
  <2>3. \A d \in Clients : client[d] = "new" => sendlock'[d] = sendlock[d]
    BY <1>1, <2>1 DEF SendDone, Types
  <2> QED
    BY <2>1, <2>2, <2>3, ListedUnchanged
<1>2. CASE WaitRaises(c)
  <2>1. \A d \in Clients : client[d] = "new" => sendlock'[d] = sendlock[d]
    BY <1>2 DEF WaitRaises, Types
  <2> QED
    BY <1>2, <2>1, ListedUnchanged DEF WaitRaises
<1>3. CASE Join(c)
  <2>1. /\ client \in [Clients -> {"new", "up", "broken", "gone"}]
        /\ client' = [client EXCEPT ![c] = "up"]
        /\ UNCHANGED <<received, sendlock>>
    BY <1>3 DEF Join, Types
  <2>2. \A i, j \in DOMAIN connections' : connections'[i] = connections'[j] => i = j
    BY <1>3, JoinPlaces, ConnectionsType DEF Listed
  <2>3. ASSUME NEW d \in Clients
        PROVE  (\E i \in DOMAIN connections' : connections'[i] = d)
                 <=> client'[d] \in {"up", "broken"}
    <3>1. CASE d = c
      BY <1>3, <2>1, <3>1, JoinPlaces, ConnectionsType
    <3>2. CASE d # c
      BY <1>3, <2>1, <3>2, JoinPlaces, ConnectionsType DEF Listed
    <3> QED
      BY <3>1, <3>2
  <2> QED
    BY <2>1, <2>2, <2>3 DEF Listed
<1>4. CASE Break(c)
  BY <1>4 DEF Break, Listed, Types
<1>5. CASE Leave(c)
  <2>1. /\ client \in [Clients -> {"new", "up", "broken", "gone"}]
        /\ received \in [Clients -> Seq(Nat)]
        /\ client' = [client EXCEPT ![c] = "gone"]
        /\ received' = [received EXCEPT ![c] = <<>>]
        /\ UNCHANGED sendlock
    BY <1>5 DEF Leave, Types
  <2>2. \A i, j \in DOMAIN connections' : connections'[i] = connections'[j] => i = j
    BY <1>5, LeavePlaces
  <2>3. ASSUME NEW d \in Clients
        PROVE  (\E i \in DOMAIN connections' : connections'[i] = d)
                 <=> client'[d] \in {"up", "broken"}
    <3>1. CASE d = c
      BY <1>5, <2>1, <3>1, LeavePlaces
    <3>2. CASE d # c
      <4>1. (\E i \in DOMAIN connections' : connections'[i] = d)
               <=> (\E j \in DOMAIN connections : connections[j] = d)
        BY <1>5, <3>2, LeavePlaces
      <4> QED
        BY <2>1, <3>2, <4>1 DEF Listed
    <3> QED
      BY <3>1, <3>2
  <2> QED
    BY <2>1, <2>2, <2>3 DEF Listed
<1> QED
  BY <1>1, <1>2, <1>3, <1>4, <1>5

LEMMA ListInit == Init => Types /\ Listed
<1>1. Init => Listed
  BY DEF Init, Listed
<1> QED
  BY <1>1, TypesInit

LEMMA ListNext == Types /\ Listed /\ [Next]_vars => (Types /\ Listed)'
<1> SUFFICES ASSUME Types, Listed, [Next]_vars PROVE Types' /\ Listed'
  OBVIOUS
<1>1. ASSUME NEW t \in Threads, (t \in RestThreads /\ Request(t)) \/ (t = LOOP /\ Packet)
      PROVE  Types' /\ Listed'
  BY <1>1, TypesRequest, RequestEffect, ListedUnchanged DEF client_vars
<1>2. ASSUME NEW t \in Threads, Runs(t) PROVE Types' /\ Listed'
  BY <1>2, TypesRuns, ListedRuns
<1>3. ASSUME NEW c \in Clients,
             SendDone(c) \/ WaitRaises(c) \/ Join(c) \/ Break(c) \/ Leave(c)
      PROVE  Types' /\ Listed'
  BY <1>3, TypesClient, ListedClient
<1>4. ASSUME NEW s \in Switches, SwitchHandshake(s) PROVE Types' /\ Listed'
  BY <1>4, TypesHandshake, ListedUnchanged DEF SwitchHandshake, client_vars
<1>5. CASE UNCHANGED vars
  BY <1>5 DEF vars, client_vars, log_vars, Types, Kept, Listed
<1> QED
  BY <1>1, <1>2, <1>3, <1>4, <1>5, ThreadIds DEF Next

\* The types of the variables, and what event_log keeps: _log appends an entry
\* and drops the oldest beyond the cap, so that it holds the latest LogCap.
THEOREM TypesStay == Spec => []TypeOK
<1>1. Types => TypeOK
  <2> SUFFICES ASSUME Types PROVE TypeOK
    OBVIOUS
  <2>1. \A t \in Threads : thread[t].answer \in {"none", "ok", "error"}
    BY FieldTypes
  <2>2. ToSet(connections) \subseteq Clients
    BY ConnectionsType DEF ToSet
  <2>3. \A c \in Clients : Waiting(c) \subseteq Threads
    BY DEF Types, Waiting, ToSet
  <2> QED
    BY <2>1, <2>2, <2>3 DEF Types, TypeOK, Kept
<1> QED
  BY <1>1, ListInit, ListNext, PTL DEF Spec

-----------------------------------------------------------------------------
(* Threads that wait for a client                                          *)

LEMMA LockType ==
  ASSUME Types, NEW c \in Clients
  PROVE  /\ sendlock[c] \in Seq(Threads) /\ Len(sendlock[c]) \in Nat
         /\ DOMAIN sendlock[c] = 1..Len(sendlock[c])
         /\ \A i \in 1..Len(sendlock[c]) : sendlock[c][i] \in Threads
BY DEF Types

\* Thread t goes to the end of the line for client c.
LEMMA QueueEffect ==
  ASSUME Types, NEW c \in Clients, NEW t \in Threads,
         sendlock' = [sendlock EXCEPT ![c] = Append(@, t)]
  PROVE  /\ \A d \in Clients \ {c} : sendlock'[d] = sendlock[d]
         /\ DOMAIN sendlock'[c] = 1..(Len(sendlock[c]) + 1)
         /\ \A i \in 1..Len(sendlock[c]) : sendlock'[c][i] = sendlock[c][i]
         /\ sendlock'[c][Len(sendlock[c]) + 1] = t
         /\ \A u \in Threads, d \in Clients :
              Waits(u, d)' <=> Waits(u, d) \/ (u = t /\ d = c)
<1>1. /\ \A d \in Clients \ {c} : sendlock'[d] = sendlock[d]
      /\ sendlock'[c] = Append(sendlock[c], t)
  BY DEF Types
<1>2. /\ DOMAIN sendlock'[c] = 1..(Len(sendlock[c]) + 1)
      /\ \A i \in 1..Len(sendlock[c]) : sendlock'[c][i] = sendlock[c][i]
      /\ sendlock'[c][Len(sendlock[c]) + 1] = t
  BY <1>1, LockType, AppendType
<1>3. ASSUME NEW u \in Threads, NEW d \in Clients
      PROVE  Waits(u, d)' <=> Waits(u, d) \/ (u = t /\ d = c)
  <2>1. CASE d # c
    BY <1>1, <2>1 DEF Waits
  <2>2. CASE d = c
    BY <1>2, <2>2, LockType DEF Waits
  <2> QED
    BY <2>1, <2>2
<1> QED
  BY <1>1, <1>2, <1>3

\* The first in the line for client c leaves it.
LEMMA WakeEffect ==
  ASSUME Types, Waiters, NEW c \in Clients, sendlock[c] # <<>>,
         sendlock' = [sendlock EXCEPT ![c] = Tail(@)]
  PROVE  /\ Head(sendlock[c]) \in Threads
         /\ Waits(Head(sendlock[c]), c)
         /\ Len(sendlock[c]) \in Nat \ {0} /\ sendlock[c][1] = Head(sendlock[c])
         /\ \A d \in Clients \ {c} : sendlock'[d] = sendlock[d]
         /\ DOMAIN sendlock'[c] = 1..(Len(sendlock[c]) - 1)
         /\ \A i \in 1..(Len(sendlock[c]) - 1) : sendlock'[c][i] = sendlock[c][i + 1]
         /\ \A u \in Threads, d \in Clients :
              Waits(u, d)' <=> Waits(u, d) /\ ~(u = Head(sendlock[c]) /\ d = c)
<1>1. /\ \A d \in Clients \ {c} : sendlock'[d] = sendlock[d]
      /\ sendlock'[c] = Tail(sendlock[c])
  BY DEF Types
<1>2. /\ Head(sendlock[c]) \in Threads
      /\ Len(sendlock[c]) \in Nat \ {0} /\ sendlock[c][1] = Head(sendlock[c])
      /\ DOMAIN sendlock[c] = 1..Len(sendlock[c])
      /\ DOMAIN sendlock'[c] = 1..(Len(sendlock[c]) - 1)
      /\ \A i \in 1..(Len(sendlock[c]) - 1) : sendlock'[c][i] = sendlock[c][i + 1]
  <2> DEFINE s == sendlock[c]
  <2>1. s \in Seq(Threads) /\ s # <<>>
    BY LockType
  <2> HIDE DEF s
  <2>2. /\ Head(s) \in Threads /\ Len(s) \in Nat \ {0} /\ s[1] = Head(s)
        /\ DOMAIN s = 1..Len(s) /\ DOMAIN Tail(s) = 1..(Len(s) - 1)
        /\ \A i \in 1..(Len(s) - 1) : Tail(s)[i] = s[i + 1]
    BY <2>1, TailType
  <2> QED
    BY <1>1, <2>2 DEF s
<1>3. Waits(Head(sendlock[c]), c)
  BY <1>2 DEF Waits
<1>4. \A i, j \in DOMAIN sendlock[c] : sendlock[c][i] = sendlock[c][j] => i = j
  BY DEF Waiters
<1>5. ASSUME NEW u \in Threads, NEW d \in Clients
      PROVE  Waits(u, d)' <=> Waits(u, d) /\ ~(u = Head(sendlock[c]) /\ d = c)
  <2>1. CASE d # c
    BY <1>1, <2>1 DEF Waits
  <2>2. CASE d = c
    <3>1. ASSUME Waits(u, c)' PROVE Waits(u, c) /\ u # Head(sendlock[c])
      <4>1. PICK i \in 1..(Len(sendlock[c]) - 1) : sendlock'[c][i] = u
        BY <1>2, <3>1 DEF Waits
      <4>2. i + 1 \in DOMAIN sendlock[c] /\ sendlock[c][i + 1] = u /\ i + 1 # 1
        BY <1>2, <4>1
      <4> QED
        BY <1>2, <1>4, <4>2 DEF Waits
    <3>2. ASSUME Waits(u, c), u # Head(sendlock[c]) PROVE Waits(u, c)'
      <4>1. PICK i \in 1..Len(sendlock[c]) : sendlock[c][i] = u
        BY <1>2, <3>2 DEF Waits
      <4>2. i # 1
        BY <1>2, <3>2, <4>1
      <4>3. i - 1 \in 1..(Len(sendlock[c]) - 1) /\ (i - 1) + 1 = i
        BY <1>2, <4>2
      <4>4. sendlock'[c][i - 1] = u /\ i - 1 \in DOMAIN sendlock'[c]
        BY <1>2, <4>1, <4>3
      <4> QED
        BY <4>4 DEF Waits
    <3> QED
      BY <2>2, <3>1, <3>2
  <2> QED
    BY <2>1, <2>2
<1> QED
  BY <1>1, <1>2, <1>3, <1>5

\* The thread that runs goes on, or stops outside the loop of broadcast.
LEMMA WaitersRun ==
  ASSUME Types, Waiters, NEW t \in Threads, OthersKeep(t), UNCHANGED sendlock,
         cpu \in {t, NoThread}, \A c \in Clients : ~Waits(t, c),
         cpu' = t \/ (cpu' = NoThread /\ ~InSend(t)'),
         thread'[t].target # <<>> => Busy(t)' /\ Head(thread'[t].steps) = "flush"
  PROVE  Waiters'
<1>1. \A u \in Threads, c \in Clients : Waits(u, c)' <=> Waits(u, c)
  BY DEF Waits
<1>2. \A u \in Threads \ {t} : InSend(u)' <=> InSend(u)
  BY DEF OthersKeep, InSend, Busy
<1>3. \A u \in Threads \ {t} : (cpu' # u) /\ (cpu # u)
  BY ThreadIds
<1>4. \A c \in Clients, u \in Threads : Waits(u, c)' => cpu' # u /\ InSend(u)'
  BY <1>1, <1>2, <1>3 DEF Waiters
<1>5. \A c, d \in Clients, u \in Threads : Waits(u, c)' /\ Waits(u, d)' => c = d
  BY <1>1 DEF Waiters
<1>6. \A c \in Clients : \A i, j \in DOMAIN sendlock'[c] :
        sendlock'[c][i] = sendlock'[c][j] => i = j
  BY DEF Waiters
<1>7. \A u \in Threads : InSend(u)' /\ cpu' # u => \E c \in Clients : Waits(u, c)'
  BY <1>1, <1>2, <1>3 DEF Waiters
<1>8. \A u \in Threads : thread'[u].target # <<>> => Busy(u)' /\ Head(thread'[u].steps) = "flush"
  BY DEF OthersKeep, Waiters, Busy
<1> QED
  BY <1>4, <1>5, <1>6, <1>7, <1>8 DEF Waiters

\* The first in the line for client c goes on, or leaves the loop of broadcast.
LEMMA WaitersWake ==
  ASSUME Types, Waiters, NEW c \in Clients, NEW t \in Threads, t = Head(sendlock[c]),
         sendlock[c] # <<>>, sendlock' = [sendlock EXCEPT ![c] = Tail(@)],
         OthersKeep(t), cpu = NoThread,
         cpu' = t \/ (cpu' = NoThread /\ ~InSend(t)'),
         thread'[t].target # <<>> => Busy(t)' /\ Head(thread'[t].steps) = "flush"
  PROVE  Waiters'
<1>1. \A u \in Threads, d \in Clients : Waits(u, d)' <=> Waits(u, d) /\ ~(u = t /\ d = c)
  BY WakeEffect
<1>2. \A d \in Clients : ~Waits(t, d)'
  BY <1>1, WakeEffect DEF Waiters
<1>3. \A u \in Threads \ {t} : InSend(u)' <=> InSend(u)
  BY DEF OthersKeep, InSend, Busy
<1>4. \A u \in Threads \ {t} : (cpu' # u) /\ (cpu # u)
  BY ThreadIds
<1>5. \A d \in Clients, u \in Threads : Waits(u, d)' => cpu' # u /\ InSend(u)'
  BY <1>1, <1>2, <1>3, <1>4 DEF Waiters
<1>6. \A d, e \in Clients, u \in Threads : Waits(u, d)' /\ Waits(u, e)' => d = e
  BY <1>1 DEF Waiters
<1>7. ASSUME NEW d \in Clients, NEW i \in DOMAIN sendlock'[d], NEW j \in DOMAIN sendlock'[d],
             sendlock'[d][i] = sendlock'[d][j]
      PROVE  i = j
  <2>1. CASE d # c
    BY <1>7, <2>1, WakeEffect DEF Waiters
  <2>2. CASE d = c
    <3>1. /\ i + 1 \in DOMAIN sendlock[c] /\ j + 1 \in DOMAIN sendlock[c]
          /\ sendlock[c][i + 1] = sendlock[c][j + 1] /\ i \in Nat /\ j \in Nat
      <4>1. /\ DOMAIN sendlock'[c] = 1..(Len(sendlock[c]) - 1)
            /\ \A k \in 1..(Len(sendlock[c]) - 1) : sendlock'[c][k] = sendlock[c][k + 1]
        BY WakeEffect
      <4>2. Len(sendlock[c]) \in Nat /\ DOMAIN sendlock[c] = 1..Len(sendlock[c])
        BY LockType
      <4> QED
        BY <1>7, <2>2, <4>1, <4>2
    <3>2. i + 1 = j + 1
      BY <3>1 DEF Waiters
    <3> QED
      BY <3>1, <3>2
  <2> QED
    BY <2>1, <2>2
<1>8. \A u \in Threads : InSend(u)' /\ cpu' # u => \E d \in Clients : Waits(u, d)'
  BY <1>1, <1>3, <1>4 DEF Waiters
<1>9. \A u \in Threads : thread'[u].target # <<>> => Busy(u)' /\ Head(thread'[u].steps) = "flush"
  BY DEF OthersKeep, Waiters, Busy
<1> QED
  BY <1>5, <1>6, <1>7, <1>8, <1>9 DEF Waiters

LEMMA WaitersQueue ==
  ASSUME Types, Waiters, NEW t \in Threads, SendWaits(t)
  PROVE  Waiters'
<1> DEFINE c == Current(t)
<1>1. /\ cpu = t /\ cpu' = NoThread /\ InSend(t) /\ UNCHANGED thread /\ c \in Clients
      /\ sendlock' = [sendlock EXCEPT ![c] = Append(@, t)]
  <2>1. thread[t].at \in DOMAIN connections
    BY FieldTypes, ConnectionsType DEF SendWaits, Broadcasting
  <2> QED
    BY <2>1, ConnectionsType DEF SendWaits, Broadcasting, Doing, InSend, Current
<1> HIDE DEF c
<1>2. \A u \in Threads, d \in Clients : Waits(u, d)' <=> Waits(u, d) \/ (u = t /\ d = c)
  BY <1>1, QueueEffect
<1>3. \A d \in Clients : ~Waits(t, d)
  BY <1>1 DEF Waiters
<1>4. \A u \in Threads : InSend(u)' <=> InSend(u)
  BY <1>1 DEF InSend, Busy
<1>5. \A d \in Clients, u \in Threads : Waits(u, d)' => cpu' # u /\ InSend(u)'
  BY <1>1, <1>2, <1>4, ThreadIds DEF Waiters
<1>6. \A d, e \in Clients, u \in Threads : Waits(u, d)' /\ Waits(u, e)' => d = e
  BY <1>2, <1>3 DEF Waiters
<1>7. ASSUME NEW d \in Clients, NEW i \in DOMAIN sendlock'[d], NEW j \in DOMAIN sendlock'[d],
             sendlock'[d][i] = sendlock'[d][j]
      PROVE  i = j
  <2>1. CASE d # c
    BY <1>1, <1>7, <2>1, QueueEffect DEF Waiters
  <2>2. CASE d = c
    <3>1. \A k \in DOMAIN sendlock[c] : sendlock[c][k] # t
      BY <1>1, <1>3 DEF Waits
    <3>2. /\ DOMAIN sendlock'[c] = 1..(Len(sendlock[c]) + 1) /\ Len(sendlock[c]) \in Nat
          /\ DOMAIN sendlock[c] = 1..Len(sendlock[c])
          /\ \A k \in 1..Len(sendlock[c]) : sendlock'[c][k] = sendlock[c][k]
          /\ sendlock'[c][Len(sendlock[c]) + 1] = t
      BY <1>1, QueueEffect, LockType
    <3> QED
      BY <1>1, <1>7, <2>2, <3>1, <3>2 DEF Waiters
  <2> QED
    BY <2>1, <2>2
<1>8. \A u \in Threads : InSend(u)' /\ cpu' # u => \E d \in Clients : Waits(u, d)'
  BY <1>1, <1>2, <1>4 DEF Waiters
<1>9. \A u \in Threads : thread'[u].target # <<>> => Busy(u)' /\ Head(thread'[u].steps) = "flush"
  BY <1>1 DEF Waiters, Busy
<1> QED
  BY <1>5, <1>6, <1>7, <1>8, <1>9 DEF Waiters

LEMMA WaitersRequest ==
  ASSUME Types, Waiters, NEW t \in Threads,
         (t \in RestThreads /\ Request(t)) \/ (t = LOOP /\ Packet)
  PROVE  Waiters'
<1>1. cpu = NoThread /\ ~Busy(t) /\ UNCHANGED sendlock
  BY RequestEffect DEF CanBegin, client_vars
<1>2. \A c \in Clients : ~Waits(t, c)
  BY <1>1 DEF Waiters, InSend
<1>3. CASE Return(t, "error")
  <2>1. /\ OthersKeep(t) /\ cpu' = NoThread /\ thread'[t].steps = <<>>
        /\ thread'[t].target = <<>>
    BY <1>3, ReturnEffect
  <2>2. ~InSend(t)'
    BY <2>1 DEF InSend, Busy
  <2> QED
    BY <1>1, <1>2, <2>1, <2>2, WaitersRun
<1>4. ASSUME NEW h \in {Log, Log \o <<"flush">> \o Log, <<"flush">> \o Log \o Log}, Begin(t, h)
      PROVE  Waiters'
  <2>1. OthersKeep(t) /\ cpu' = t /\ thread'[t].target = <<>>
    BY <1>4, HandlerSteps, BeginEffect DEF Idle
  <2> QED
    BY <1>1, <1>2, <2>1, WaitersRun
<1> QED
  BY <1>3, <1>4, RequestEffect

\* What the step of a running thread does, as far as the lines are concerned.
LEMMA RunEffect ==
  ASSUME Types, Waiters, NEW t \in Threads, Runs(t), ~SendWaits(t)
  PROVE  /\ OthersKeep(t) /\ UNCHANGED sendlock
         /\ cpu \in {t, NoThread} /\ \A c \in Clients : ~Waits(t, c)
         /\ cpu' = t \/ (cpu' = NoThread /\ ~InSend(t)')
         /\ thread'[t].target # <<>> => Busy(t)' /\ Head(thread'[t].steps) = "flush"
<1> DEFINE Goal == /\ OthersKeep(t) /\ UNCHANGED sendlock
                   /\ cpu \in {t, NoThread} /\ \A c \in Clients : ~Waits(t, c)
                   /\ cpu' = t \/ (cpu' = NoThread /\ ~InSend(t)')
                   /\ thread'[t].target # <<>> =>
                        Busy(t)' /\ Head(thread'[t].steps) = "flush"
<1> SUFFICES Goal
  OBVIOUS
<1>0. ASSUME cpu = t PROVE \A c \in Clients : ~Waits(t, c)
  BY <1>0 DEF Waiters
<1>1. ASSUME thread[t].target # <<>> PROVE Busy(t) /\ Head(thread[t].steps) = "flush"
  BY <1>1 DEF Waiters
<1>2. ASSUME cpu = t, cpu' = t, OthersKeep(t), UNCHANGED sendlock,
             thread'[t].target # <<>> => Busy(t)' /\ Head(thread'[t].steps) = "flush"
      PROVE  Goal
  BY <1>0, <1>2
<1>3. CASE AppendEvent(t)
  <2>1. /\ OthersKeep(t) /\ thread[t] \in Thread
        /\ thread'[t] = [thread[t] EXCEPT !.at = 1, !.event = logged + 1]
    BY <1>3, AppendEventEffect, FieldTypes
  <2>2. thread'[t].target = thread[t].target /\ thread'[t].steps = thread[t].steps
    BY <2>1 DEF Thread
  <2> QED
    BY <1>1, <1>2, <1>3, <2>1, <2>2 DEF AppendEvent, Doing, Busy, client_vars
<1>4. CASE BeginStats(t)
  <2>1. OthersKeep(t) /\ thread[t] \in Thread /\ thread'[t] = [thread[t] EXCEPT !.at = 1]
    BY <1>4, MoveEffect, FieldTypes DEF BeginStats
  <2>2. thread'[t].target = thread[t].target /\ thread'[t].steps = thread[t].steps
    BY <2>1 DEF Thread
  <2> QED
    BY <1>1, <1>2, <1>4, <2>1, <2>2 DEF BeginStats, Doing, Busy, client_vars
<1>5. ASSUME cpu = t, NextStep(t), Busy(t), thread[t].target = <<>>, UNCHANGED sendlock
      PROVE  Goal
  <2>1. /\ OthersKeep(t) /\ thread'[t].at = 0 /\ cpu' \in {t, NoThread}
        /\ thread'[t].target = <<>>
    <3>1. /\ OthersKeep(t) /\ thread'[t].at = 0 /\ cpu' \in {t, NoThread}
      BY <1>5, NextStepEffect
    <3>2. \/ \E a \in {"ok", "none"} : thread'[t] = Idle(a)
          \/ thread'[t] = [thread[t] EXCEPT !.steps = Tail(thread[t].steps),
                                            !.at = 0, !.event = 0]
      BY <1>5, NextStepEffect
    <3>3. thread'[t].target = <<>>
      BY <1>5, <3>2, FieldTypes, IdleType DEF Thread
    <3> QED
      BY <3>1, <3>3
  <2>2. ~InSend(t)'
    BY <2>1 DEF InSend
  <2> QED
    BY <1>0, <1>5, <2>1, <2>2
<1>6. CASE BroadcastEnds(t)
  <2>1. /\ cpu = t /\ Busy(t) /\ Head(thread[t].steps) \in {"event", "stats"}
        /\ NextStep(t) /\ UNCHANGED sendlock
    BY <1>6 DEF BroadcastEnds, Broadcasting, Doing, client_vars
  <2>2. thread[t].target = <<>>
    BY <2>1, <1>1
  <2> QED
    BY <2>1, <2>2, <1>5
<1>7. CASE SendAtOnce(t)
  <2>1. /\ OthersKeep(t) /\ thread[t] \in Thread
        /\ thread'[t] = [thread[t] EXCEPT !.at = thread[t].at + 1]
    BY <1>7, AdvanceEffect, FieldTypes DEF SendAtOnce
  <2>2. thread'[t].target = thread[t].target /\ thread'[t].steps = thread[t].steps
    BY <2>1 DEF Thread
  <2> QED
    BY <1>1, <1>2, <1>7, <2>1, <2>2 DEF SendAtOnce, Broadcasting, Doing, Busy
<1>8. ASSUME cpu = t, Return(t, "error"), UNCHANGED sendlock PROVE Goal
  <2>1. /\ OthersKeep(t) /\ cpu' = NoThread /\ thread'[t].steps = <<>>
        /\ thread'[t].target = <<>>
    BY <1>8, ReturnEffect
  <2>2. ~InSend(t)'
    BY <2>1 DEF InSend, Busy
  <2> QED
    BY <1>0, <1>8, <2>1, <2>2
<1>9. CASE SendRaises(t)
  BY <1>8, <1>9 DEF SendRaises, Fails, Broadcasting, Doing
<1>10. CASE BeginFlush(t)
  <2>1. /\ OthersKeep(t) /\ thread[t] \in Thread
        /\ thread'[t] = [thread[t] EXCEPT !.at = 1, !.size = Len(datapaths)]
    BY <1>10, BeginFlushEffect, FieldTypes
  <2>2. thread'[t].target = thread[t].target /\ thread'[t].steps = thread[t].steps
    BY <2>1 DEF Thread
  <2> QED
    BY <1>1, <1>2, <1>10, <2>1, <2>2 DEF BeginFlush, Doing, Busy, client_vars
<1>11. CASE FlushRaises(t)
  BY <1>8, <1>11 DEF FlushRaises, Fails, InFlush, Doing, client_vars
<1>12. CASE FlushEnds(t)
  BY <1>5, <1>12 DEF FlushEnds, InFlush, Doing, client_vars
<1>13. CASE FlushTakes(t)
  <2>1. /\ OthersKeep(t) /\ thread[t] \in Thread
        /\ thread'[t].steps = thread[t].steps
    BY <1>13, FlushTakesEffect, FieldTypes DEF Thread
  <2>2. Busy(t)' /\ Head(thread'[t].steps) = "flush"
    BY <1>13, <2>1 DEF FlushTakes, InFlush, Doing, Busy
  <2> QED
    BY <1>2, <1>13, <2>1, <2>2 DEF FlushTakes, InFlush, Doing, client_vars
<1>14. CASE FlushSends(t)
  <2>1. OthersKeep(t) /\ thread'[t].target = <<>>
    BY <1>14, FlushSendsEffect, FieldTypes DEF Thread
  <2> QED
    BY <1>2, <1>14, <2>1 DEF FlushSends, Doing, client_vars
<1>15. CASE FlushWaits(t)
  <2>1. /\ OthersKeep(t) /\ UNCHANGED <<sendlock, thread>> /\ cpu = t /\ cpu' = NoThread
        /\ Busy(t) /\ Head(thread[t].steps) = "flush"
    BY <1>15 DEF FlushWaits, Doing, OthersKeep, client_vars
  <2>2. ~InSend(t)' /\ Busy(t)'
    BY <2>1 DEF InSend, Busy
  <2> QED
    BY <1>0, <2>1, <2>2
<1>16. CASE FlushGoesOn(t)
  <2>1. /\ OthersKeep(t) /\ UNCHANGED <<sendlock, thread>> /\ cpu = NoThread /\ cpu' = t
        /\ thread[t].target # <<>>
    BY <1>16 DEF FlushGoesOn, OthersKeep, client_vars
  <2>2. Busy(t)' /\ Busy(t) /\ Head(thread[t].steps) = "flush"
    BY <2>1, <1>1 DEF Busy
  <2>3. \A c \in Clients : ~Waits(t, c)
    BY <2>2 DEF Waiters, InSend
  <2> QED
    BY <2>1, <2>2, <2>3
<1> HIDE DEF Goal
<1> QED
  BY <1>3, <1>4, <1>6, <1>7, <1>9, <1>10, <1>11, <1>12, <1>13, <1>14, <1>15, <1>16 DEF Runs

LEMMA WaitersRuns ==
  ASSUME Types, Waiters, NEW t \in Threads, Runs(t)
  PROVE  Waiters'
<1>1. CASE SendWaits(t)
  BY <1>1, WaitersQueue
<1>2. CASE ~SendWaits(t)
  BY <1>2, RunEffect, WaitersRun
<1> QED
  BY <1>1, <1>2

\* The first in the line for client c.
LEMMA DoneEffect ==
  ASSUME Types, Waiters, NEW c \in Clients, SendDone(c)
  PROVE  LET t == Head(sendlock[c])
         IN  /\ t \in Threads /\ Waits(t, c) /\ InSend(t) /\ cpu = NoThread /\ cpu' = t
             /\ client[c] = "up" /\ sendlock[c] # <<>>
             /\ sendlock' = [sendlock EXCEPT ![c] = Tail(@)]
             /\ received' = Delivered(t, c) /\ OthersKeep(t)
             /\ thread' \in [Threads -> Thread]
             /\ thread'[t] = [thread[t] EXCEPT !.at = thread[t].at + 1]
             /\ thread'[t].at = thread[t].at + 1
             /\ thread'[t].steps = thread[t].steps /\ thread'[t].event = thread[t].event
             /\ thread'[t].target = <<>> /\ thread[t].target = <<>>
<1> DEFINE t == Head(sendlock[c])
<1>1. /\ cpu = NoThread /\ sendlock[c] # <<>> /\ client[c] = "up"
      /\ received' = Delivered(t, c) /\ cpu' = t
      /\ thread' = [thread EXCEPT ![t].at = @ + 1]
      /\ sendlock' = [sendlock EXCEPT ![c] = Tail(@)]
  BY DEF SendDone
<1>2. t \in Threads /\ Waits(t, c)
  BY <1>1, WakeEffect
<1> HIDE DEF t
<1>3. InSend(t)
  BY <1>2 DEF Waiters
<1>4. /\ thread' \in [Threads -> Thread] /\ OthersKeep(t) /\ thread[t] \in Thread
      /\ thread'[t] = [thread[t] EXCEPT !.at = thread[t].at + 1]
  BY <1>1, <1>2, AdvanceEffect, FieldTypes
<1>5. /\ thread'[t].at = thread[t].at + 1 /\ thread'[t].steps = thread[t].steps
      /\ thread'[t].target = thread[t].target /\ thread'[t].event = thread[t].event
  BY <1>4 DEF Thread
<1>6. thread[t].target = <<>>
  BY <1>2, <1>3 DEF Waiters, InSend
<1> QED
  BY <1>1, <1>2, <1>3, <1>4, <1>5, <1>6 DEF t

LEMMA RaisesEffect ==
  ASSUME Types, Waiters, NEW c \in Clients, WaitRaises(c)
  PROVE  LET t == Head(sendlock[c])
         IN  /\ t \in Threads /\ Waits(t, c) /\ InSend(t) /\ cpu = NoThread /\ cpu' = NoThread
             /\ sendlock[c] # <<>> /\ sendlock' = [sendlock EXCEPT ![c] = Tail(@)]
             /\ OthersKeep(t) /\ thread' \in [Threads -> Thread]
             /\ thread'[t] = Idle(IF t \in RestThreads THEN "error" ELSE "none")
             /\ thread'[t].steps = <<>> /\ thread'[t].event = 0 /\ thread'[t].target = <<>>
             /\ disturbed' = disturbed \cup Undelivered(t)
<1> DEFINE t == Head(sendlock[c])
<1>1. /\ cpu = NoThread /\ sendlock[c] # <<>> /\ Return(t, "error")
      /\ disturbed' = disturbed \cup Undelivered(t)
      /\ sendlock' = [sendlock EXCEPT ![c] = Tail(@)]
  BY DEF WaitRaises, Fails
<1>2. t \in Threads /\ Waits(t, c)
  BY <1>1, WakeEffect
<1> HIDE DEF t
<1>3. InSend(t)
  BY <1>2 DEF Waiters
<1>4. /\ thread' \in [Threads -> Thread] /\ OthersKeep(t) /\ cpu' = NoThread
      /\ thread'[t] = Idle(IF t \in RestThreads THEN "error" ELSE "none")
      /\ thread'[t].steps = <<>> /\ thread'[t].event = 0 /\ thread'[t].target = <<>>
  BY <1>1, <1>2, ReturnEffect
<1> QED
  BY <1>1, <1>2, <1>3, <1>4 DEF t

LEMMA WaitersClient ==
  ASSUME Types, Waiters, NEW c \in Clients,
         SendDone(c) \/ WaitRaises(c) \/ Join(c) \/ Break(c) \/ Leave(c)
  PROVE  Waiters'
<1>1. CASE SendDone(c)
  BY <1>1, DoneEffect, WaitersWake
<1>2. CASE WaitRaises(c)
  <2>1. PICK t \in Threads : t = Head(sendlock[c])
    BY <1>2, RaisesEffect
  <2>2. /\ sendlock[c] # <<>> /\ cpu = NoThread /\ cpu' = NoThread
        /\ sendlock' = [sendlock EXCEPT ![c] = Tail(@)] /\ OthersKeep(t)
        /\ thread'[t].steps = <<>> /\ thread'[t].target = <<>>
    BY <1>2, <2>1, RaisesEffect
  <2>3. ~InSend(t)'
    BY <2>2 DEF InSend, Busy
  <2> QED
    BY <2>1, <2>2, <2>3, WaitersWake
<1>3. ASSUME UNCHANGED <<cpu, thread, sendlock>> PROVE Waiters'
  BY <1>3 DEF Waiters, Waits, InSend, Busy
<1>4. CASE Join(c) \/ Break(c) \/ Leave(c)
  BY <1>3, <1>4 DEF Join, Break, Leave
<1> QED
  BY <1>1, <1>2, <1>4

\* The invariant of the lines.
LineInv == Types /\ Listed /\ Waiters

LEMMA LineInit == Init => LineInv
<1> SUFFICES ASSUME Init PROVE Waiters
  BY ListInit DEF LineInv
<1>1. \A t \in Threads : ~InSend(t) /\ thread[t].target = <<>>
  BY DEF Init, Idle, InSend
<1>2. \A t \in Threads, c \in Clients : ~Waits(t, c)
  BY DEF Init, Waits
<1> QED
  BY <1>1, <1>2 DEF Waiters, Init

LEMMA LineNext == LineInv /\ [Next]_vars => LineInv'
<1> SUFFICES ASSUME Types, Listed, Waiters, [Next]_vars PROVE Waiters'
  BY ListNext DEF LineInv
<1>1. ASSUME NEW t \in Threads, (t \in RestThreads /\ Request(t)) \/ (t = LOOP /\ Packet)
      PROVE  Waiters'
  BY <1>1, WaitersRequest
<1>2. ASSUME NEW t \in Threads, Runs(t) PROVE Waiters'
  BY <1>2, WaitersRuns
<1>3. ASSUME NEW c \in Clients,
             SendDone(c) \/ WaitRaises(c) \/ Join(c) \/ Break(c) \/ Leave(c)
      PROVE  Waiters'
  BY <1>3, WaitersClient
<1>4. ASSUME UNCHANGED <<cpu, thread, sendlock>> PROVE Waiters'
  BY <1>4 DEF Waiters, Waits, InSend, Busy
<1>5. ASSUME NEW s \in Switches, SwitchHandshake(s) PROVE Waiters'
  BY <1>4, <1>5 DEF SwitchHandshake, client_vars
<1>6. CASE UNCHANGED vars
  BY <1>4, <1>6 DEF vars, client_vars
<1> QED
  BY <1>1, <1>2, <1>3, <1>5, <1>6, ThreadIds DEF Next

-----------------------------------------------------------------------------
(* The flush of every switch                                               *)

\* What OkMeansFlushed says of thread t.
OkStep(t) ==
  thread'[t].answer = "ok" /\ thread[t].answer = "none" /\ thread[t].size > 0
    => thread[t].seen \cap ToSet(datapaths) \subseteq thread[t].flushed

\* The step of thread t keeps what it knows.
Keeps(t) == FlushState(thread[t])' /\ OkStep(t)

LEMMA FlushSame ==
  ASSUME NEW t \in Threads, FlushState(thread[t]), UNCHANGED datapaths, thread'[t] = thread[t]
  PROVE  Keeps(t)
BY DEF Keeps, FlushState, FlushLeft, Flushing, OkStep

\* Threads outside the loop of the flush: nothing that matters changes.
LEMMA FlushMove ==
  ASSUME Types, NEW t \in Threads, FlushState(thread[t]), UNCHANGED datapaths,
         Busy(t), Head(thread[t].steps) \in {"event", "stats"},
         thread'[t].steps = thread[t].steps, thread'[t].target = thread[t].target,
         thread'[t].size = thread[t].size, thread'[t].seen = thread[t].seen,
         thread'[t].flushed = thread[t].flushed, thread'[t].answer = thread[t].answer
  PROVE  Keeps(t)
<1>1. ~Flushing(thread[t]) /\ ~Flushing(thread[t])'
  BY DEF Flushing
<1>2. FlushLeft(thread[t])' <=> FlushLeft(thread[t])
  BY DEF FlushLeft
<1> QED
  BY <1>1, <1>2 DEF Keeps, FlushState, OkStep

LEMMA FlushIdle ==
  ASSUME NEW t \in Threads, NEW a \in {"none", "error"}, thread'[t] = Idle(a)
  PROVE  Keeps(t)
<1>1. /\ thread'[t].steps = <<>> /\ thread'[t].target = <<>> /\ thread'[t].size = 0
      /\ thread'[t].seen = {} /\ thread'[t].answer = a
  BY DEF Idle
<1>2. ~Flushing(thread[t])'
  BY <1>1 DEF Flushing
<1> QED
  BY <1>1, <1>2 DEF Keeps, FlushState, OkStep

LEMMA FlushReturn ==
  ASSUME Types, NEW t \in Threads, Return(t, "error")
  PROVE  Keeps(t)
<1>1. thread'[t] = Idle(IF t \in RestThreads THEN "error" ELSE "none")
  BY ReturnEffect
<1> QED
  BY <1>1, FlushIdle

LEMMA FlushBegin ==
  ASSUME Types, NEW t \in Threads, UNCHANGED datapaths,
         NEW h \in {Log, Log \o <<"flush">> \o Log, <<"flush">> \o Log \o Log}, Begin(t, h)
  PROVE  Keeps(t)
<1>1. thread'[t] = [Idle("none") EXCEPT !.steps = h, !.seen = ToSet(datapaths)]
  BY HandlerSteps, BeginEffect
<1>2. /\ thread'[t].steps = h /\ thread'[t].target = <<>> /\ thread'[t].size = 0
      /\ thread'[t].seen = ToSet(datapaths) /\ thread'[t].answer = "none"
      /\ thread'[t].at = 0
  BY <1>1 DEF Idle
<1>3. ~Flushing(thread[t])'
  BY <1>2 DEF Flushing
<1>4. \A i, j \in DOMAIN h : h[i] = "flush" /\ h[j] = "flush" => i = j
  BY HandlerSteps
<1>5. \A d \in ToSet(datapaths) :
        \E i \in DOMAIN datapaths : datapaths[i].id = d.id /\ d.conn <= datapaths[i].conn
  <2> SUFFICES ASSUME NEW i \in DOMAIN datapaths
               PROVE  datapaths[i].id = datapaths[i].id /\ datapaths[i].conn <= datapaths[i].conn
    BY DEF ToSet
  <2>1. datapaths[i] \in Datapath
    BY DEF Types
  <2>2. datapaths[i].conn \in Nat
    BY <2>1 DEF Datapath
  <2> QED
    BY <2>2
<1> QED
  BY <1>2, <1>3, <1>4, <1>5 DEF Keeps, FlushState, OkStep

\* A loop ends: that of the flush with its work done, or another.
LEMMA FlushNextStep ==
  ASSUME Types, NEW t \in Threads, FlushState(thread[t]), UNCHANGED datapaths,
         cpu = t, Busy(t), NextStep(t), thread[t].target = <<>>,
         Flushing(thread[t]) => thread[t].at > Len(datapaths),
         Head(thread[t].steps) = "flush" => Flushing(thread[t])
  PROVE  Keeps(t)
<1> DEFINE s == thread[t].steps
<1>1. /\ s \in Seq(Step) /\ s # <<>> /\ thread[t] \in Thread
      /\ datapaths \in Seq(Datapath)
  BY FieldTypes DEF Busy, Types
<1>2. /\ s[1] = Head(s) /\ Len(s) \in Nat \ {0}
      /\ DOMAIN s = 1..Len(s) /\ DOMAIN Tail(s) = 1..(Len(s) - 1)
      /\ \A i \in 1..(Len(s) - 1) : Tail(s)[i] = s[i + 1]
  BY <1>1, TailType
<1>3. ASSUME NEW i \in DOMAIN Tail(s) PROVE i + 1 \in DOMAIN s /\ Tail(s)[i] = s[i + 1]
  BY <1>2
<1>4. ASSUME thread[t].size > 0
      PROVE  /\ \A i \in DOMAIN Tail(s) : Tail(s)[i] # "flush"
             /\ \A i \in DOMAIN datapaths :
                  datapaths[i] \in thread[t].seen => datapaths[i] \in thread[t].flushed
  <2>1. CASE Flushing(thread[t])
    <3>1. s[1] = "flush" /\ 1 \in DOMAIN s
      BY <1>2, <2>1 DEF Flushing
    <3>2. ASSUME NEW i \in DOMAIN Tail(s), Tail(s)[i] = "flush" PROVE FALSE
      <4>1. i + 1 = 1
        BY <1>3, <3>1, <3>2 DEF FlushState
      <4> QED
        BY <1>2, <4>1
    <3>3. \A i \in DOMAIN datapaths : i < thread[t].at
      BY <1>1, <2>1, FieldTypes
    <3>4. \A i \in DOMAIN datapaths : thread[t].target # <<datapaths[i]>>
      OBVIOUS
    <3> QED
      BY <2>1, <3>2, <3>3, <3>4 DEF FlushState
  <2>2. CASE ~Flushing(thread[t])
    <3>1. ~FlushLeft(thread[t])
      BY <1>4, <2>2 DEF FlushState
    <3> QED
      BY <1>3, <1>4, <3>1 DEF FlushState, FlushLeft
  <2> QED
    BY <2>1, <2>2
<1>5. OkStep(t)
  BY <1>4 DEF OkStep, ToSet
<1>6. CASE Tail(s) = <<>>
  <2>1. thread'[t] = Idle(IF t \in RestThreads THEN "ok" ELSE "none")
    BY <1>6, NextStepEffect
  <2>2. /\ thread'[t].steps = <<>> /\ thread'[t].target = <<>> /\ thread'[t].size = 0
        /\ thread'[t].seen = {}
    BY <2>1 DEF Idle
  <2>3. ~Flushing(thread[t])'
    BY <2>2 DEF Flushing
  <2>4. FlushState(thread[t])'
    BY <2>2, <2>3 DEF FlushState
  <2> QED
    BY <1>5, <2>4 DEF Keeps
<1>7. CASE Tail(s) # <<>>
  <2>1. thread'[t] = [thread[t] EXCEPT !.steps = Tail(s), !.at = 0, !.event = 0]
    BY <1>7, NextStepEffect
  <2>2. /\ thread'[t].steps = Tail(s) /\ thread'[t].target = <<>> /\ thread'[t].at = 0
        /\ thread'[t].size = thread[t].size /\ thread'[t].seen = thread[t].seen
        /\ thread'[t].flushed = thread[t].flushed
    BY <1>1, <2>1 DEF Thread
  <2>3. ~Flushing(thread[t])'
    BY <2>2 DEF Flushing
  <2>4. \A i, j \in DOMAIN Tail(s) : Tail(s)[i] = "flush" /\ Tail(s)[j] = "flush" => i = j
    <3> SUFFICES ASSUME NEW i \in DOMAIN Tail(s), NEW j \in DOMAIN Tail(s),
                        Tail(s)[i] = "flush", Tail(s)[j] = "flush"
                 PROVE  i = j
      OBVIOUS
    <3>1. i + 1 = j + 1
      BY <1>3 DEF FlushState
    <3> QED
      BY <1>2, <3>1
  <2> HIDE DEF s
  <2>5. FlushState(thread[t])'
    BY <1>4, <2>2, <2>3, <2>4 DEF FlushState, FlushLeft
  <2> QED
    BY <1>5, <2>5 DEF Keeps
<1> QED
  BY <1>6, <1>7

LEMMA FlushLoop ==
  ASSUME Types, NEW t \in Threads, FlushState(thread[t]), UNCHANGED datapaths,
         BeginFlush(t) \/ FlushTakes(t) \/ FlushSends(t)
  PROVE  Keeps(t)
<1>1. thread[t] \in Thread /\ datapaths \in Seq(Datapath) /\ thread[t].at \in Nat
  BY FieldTypes DEF Types
<1>2. CASE BeginFlush(t)
  <2>1. /\ Busy(t) /\ Head(thread[t].steps) = "flush" /\ thread[t].at = 0
        /\ thread'[t] = [thread[t] EXCEPT !.at = 1, !.size = Len(datapaths)]
    BY <1>2, BeginFlushEffect DEF BeginFlush, Doing
  <2>2. /\ thread'[t].steps = thread[t].steps /\ thread'[t].target = thread[t].target
        /\ thread'[t].seen = thread[t].seen /\ thread'[t].flushed = thread[t].flushed
        /\ thread'[t].answer = thread[t].answer /\ thread'[t].at = 1
    BY <1>1, <2>1 DEF Thread
  <2>3. /\ ~Flushing(thread[t]) /\ Flushing(thread[t])'
    BY <2>1, <2>2 DEF Flushing, Busy
  <2>4. FlushLeft(thread[t])'
    <3>1. 1 \in DOMAIN thread[t].steps /\ thread[t].steps[1] = "flush"
      BY <2>1, FieldTypes, TailType DEF Busy
    <3> QED
      BY <2>2, <3>1 DEF FlushLeft
  <2>5. \A i \in DOMAIN datapaths : ~(i < 1)
    BY <1>1
  <2> QED
    BY <2>2, <2>3, <2>4, <2>5 DEF Keeps, FlushState, OkStep
<1>3. CASE FlushTakes(t)
  <2> DEFINE n == thread[t].at
             d == datapaths[n]
  <2>1. /\ Busy(t) /\ Head(thread[t].steps) = "flush" /\ thread[t].target = <<>>
        /\ n \in 1..Len(datapaths)
        /\ thread'[t] = [thread[t] EXCEPT !.at = n + 1, !.target = <<d>>]
    BY <1>3, FlushTakesEffect DEF FlushTakes, InFlush, Doing
  <2> HIDE DEF n, d
  <2>2. /\ thread'[t].steps = thread[t].steps /\ thread'[t].target = <<d>>
        /\ thread'[t].seen = thread[t].seen /\ thread'[t].flushed = thread[t].flushed
        /\ thread'[t].answer = thread[t].answer /\ thread'[t].at = n + 1
        /\ thread'[t].size = thread[t].size
    BY <1>1, <2>1 DEF Thread
  <2>3. Flushing(thread[t]) /\ Flushing(thread[t])'
    <3>1. thread[t].at > 0 /\ thread'[t].at > 0
      BY <1>1, <2>1, <2>2 DEF n
    <3> QED
      BY <2>1, <2>2, <3>1 DEF Flushing, Busy
  <2>4. FlushLeft(thread[t])' <=> FlushLeft(thread[t])
    BY <2>2 DEF FlushLeft
  <2>5. FlushLeft(thread[t])
    <3>1. 1 \in DOMAIN thread[t].steps /\ thread[t].steps[1] = "flush"
      BY <2>1, FieldTypes, TailType DEF Busy
    <3> QED
      BY <3>1 DEF FlushLeft
  <2>6. Len(<<d>>) = 1
    OBVIOUS
  <2>7. ASSUME NEW i \in DOMAIN datapaths, i < n + 1, datapaths[i] \in thread[t].seen
        PROVE  datapaths[i] \in thread[t].flushed \/ <<d>> = <<datapaths[i]>>
    <3>1. CASE i = n
      BY <3>1 DEF d
    <3>2. CASE i # n
      <4>1. i < thread[t].at
        BY <1>1, <2>1, <2>7, <3>2 DEF n
      <4>2. thread[t].target # <<datapaths[i]>>
        BY <2>1
      <4> QED
        BY <2>3, <2>7, <4>1, <4>2 DEF FlushState
    <3> QED
      BY <3>1, <3>2
  <2> QED
    BY <2>2, <2>3, <2>4, <2>5, <2>6, <2>7 DEF Keeps, FlushState, OkStep
<1>4. CASE FlushSends(t)
  <2> DEFINE d == Head(thread[t].target)
  <2>1. /\ Busy(t) /\ Head(thread[t].steps) = "flush" /\ thread[t].target # <<>>
        /\ thread'[t] = [thread[t] EXCEPT !.target = <<>>,
                                          !.flushed = thread[t].flushed \cup {d}]
    BY <1>4, FlushSendsEffect DEF FlushSends, Doing
  <2>2. \A x : thread[t].target = <<x>> => x = d
    OBVIOUS
  <2> HIDE DEF d
  <2>3. /\ thread'[t].steps = thread[t].steps /\ thread'[t].target = <<>>
        /\ thread'[t].seen = thread[t].seen /\ thread'[t].flushed = thread[t].flushed \cup {d}
        /\ thread'[t].answer = thread[t].answer /\ thread'[t].at = thread[t].at
        /\ thread'[t].size = thread[t].size
    BY <1>1, <2>1 DEF Thread
  <2>4. Flushing(thread[t]) /\ (Flushing(thread[t])' <=> Flushing(thread[t]))
    BY <2>1, <2>3 DEF Flushing, FlushState
  <2>5. FlushLeft(thread[t])' <=> FlushLeft(thread[t])
    BY <2>3 DEF FlushLeft
  <2>6. ASSUME NEW i \in DOMAIN datapaths, i < thread[t].at, datapaths[i] \in thread[t].seen
        PROVE  datapaths[i] \in thread'[t].flushed
    BY <2>2, <2>3, <2>4, <2>6 DEF FlushState
  <2>7. FlushState(thread[t])'
    BY <2>3, <2>4, <2>5, <2>6 DEF FlushState
  <2>8. OkStep(t)
    BY <2>3 DEF OkStep
  <2> QED
    BY <2>7, <2>8 DEF Keeps
<1> QED
  BY <1>2, <1>3, <1>4

LEMMA FlushRuns ==
  ASSUME Types, Waiters, NEW t \in Threads, FlushState(thread[t]), Runs(t)
  PROVE  Keeps(t) /\ OthersKeep(t) /\ UNCHANGED datapaths
<1>0. OthersKeep(t) /\ UNCHANGED datapaths
  <2>1. OthersKeep(t)
    BY RunEffect DEF SendWaits, OthersKeep
  <2>2. UNCHANGED datapaths
    BY DEF Runs, AppendEvent, BeginStats, BroadcastEnds, SendAtOnce, SendWaits, SendRaises,
           BeginFlush, FlushRaises, FlushEnds, FlushTakes, FlushSends, FlushWaits, FlushGoesOn
  <2> QED
    BY <2>1, <2>2
<1>1. thread[t] \in Thread
  BY FieldTypes
<1>2. CASE AppendEvent(t)
  <2>1. /\ Busy(t) /\ Head(thread[t].steps) = "event"
        /\ thread'[t] = [thread[t] EXCEPT !.at = 1, !.event = logged + 1]
    BY <1>2, AppendEventEffect DEF AppendEvent, Doing
  <2>2. /\ thread'[t].steps = thread[t].steps /\ thread'[t].target = thread[t].target
        /\ thread'[t].size = thread[t].size /\ thread'[t].seen = thread[t].seen
        /\ thread'[t].flushed = thread[t].flushed /\ thread'[t].answer = thread[t].answer
    BY <1>1, <2>1 DEF Thread
  <2> QED
    BY <1>0, <2>1, <2>2, FlushMove
<1>3. ASSUME Busy(t), Head(thread[t].steps) \in {"event", "stats"}, NEW n,
             thread'[t] = [thread[t] EXCEPT !.at = n]
      PROVE  Keeps(t)
  <2>1. /\ thread'[t].steps = thread[t].steps /\ thread'[t].target = thread[t].target
        /\ thread'[t].size = thread[t].size /\ thread'[t].seen = thread[t].seen
        /\ thread'[t].flushed = thread[t].flushed /\ thread'[t].answer = thread[t].answer
    BY <1>1, <1>3 DEF Thread
  <2> QED
    BY <1>0, <1>3, <2>1, FlushMove
<1>4. CASE BeginStats(t)
  BY <1>0, <1>3, <1>4, MoveEffect DEF BeginStats, Doing
<1>5. CASE SendAtOnce(t)
  BY <1>0, <1>3, <1>5, AdvanceEffect DEF SendAtOnce, Broadcasting, Doing
<1>6. CASE BroadcastEnds(t)
  <2>1. /\ cpu = t /\ Busy(t) /\ Head(thread[t].steps) \in {"event", "stats"} /\ NextStep(t)
    BY <1>6 DEF BroadcastEnds, Broadcasting, Doing
  <2>2. thread[t].target = <<>> /\ ~Flushing(thread[t])
    BY <2>1 DEF Waiters, Flushing
  <2> QED
    BY <1>0, <2>1, <2>2, FlushNextStep
<1>7. CASE FlushEnds(t)
  <2>1. /\ cpu = t /\ Busy(t) /\ Head(thread[t].steps) = "flush" /\ thread[t].at > 0
        /\ thread[t].target = <<>> /\ thread[t].at > Len(datapaths) /\ NextStep(t)
    BY <1>7 DEF FlushEnds, InFlush, Doing
  <2>2. Flushing(thread[t])
    BY <2>1 DEF Flushing, Busy
  <2> QED
    BY <1>0, <2>1, <2>2, FlushNextStep
<1>8. CASE SendRaises(t) \/ FlushRaises(t)
  BY <1>0, <1>8, FlushReturn DEF SendRaises, FlushRaises, Fails
<1>9. CASE BeginFlush(t) \/ FlushTakes(t) \/ FlushSends(t)
  BY <1>0, <1>9, FlushLoop
<1>10. CASE SendWaits(t) \/ FlushWaits(t) \/ FlushGoesOn(t)
  BY <1>0, <1>10, FlushSame DEF SendWaits, FlushWaits, FlushGoesOn
<1> QED
  BY <1>0, <1>2, <1>4, <1>5, <1>6, <1>7, <1>8, <1>9, <1>10 DEF Runs

\* One thread takes a step, the dictionary stays.
LEMMA FlushOne ==
  ASSUME FlushInv, NEW t \in Threads, Keeps(t), OthersKeep(t), UNCHANGED datapaths
  PROVE  FlushInv' /\ \A u \in Threads : OkStep(u)
<1>1. ASSUME NEW u \in Threads PROVE Keeps(u)
  BY FlushSame DEF OthersKeep, FlushInv
<1>2. \A u \in Threads : FlushState(thread[u])' /\ OkStep(u)
  BY <1>1 DEF Keeps
<1> QED
  BY <1>2 DEF FlushInv

LEMMA FlushHandshake ==
  ASSUME Types, FlushInv, NEW s \in Switches, SwitchHandshake(s)
  PROVE  FlushInv' /\ \A u \in Threads : OkStep(u)
<1> DEFINE D == datapaths
<1>1. UNCHANGED thread
  BY DEF SwitchHandshake
<1>2. \A u \in Threads : OkStep(u)
  BY <1>1 DEF OkStep
<1>3. /\ D \in Seq(Datapath) /\ Len(D) \in Nat /\ DOMAIN D = 1..Len(D)
      /\ \A i \in DOMAIN D : D[i].id \in Switches /\ D[i].conn \in Nat
  <2>1. /\ D \in Seq(Datapath) /\ Len(D) \in Nat /\ DOMAIN D = 1..Len(D)
        /\ \A i \in DOMAIN D : D[i] \in Datapath
    BY DEF Types
  <2> HIDE DEF D
  <2> QED
    BY <2>1 DEF Datapath
<1>4. \A t \in Threads : \A d \in thread[t].seen : d.conn \in Nat
  BY FieldTypes DEF Datapath
\* One entry is new, or has a new connection; it is the datapath of no request
\* under way.
<1>5. \E k \in DOMAIN D' :
        /\ D'[k].id = s
        /\ \A i \in DOMAIN D' : i # k => i \in DOMAIN D /\ D'[i] = D[i] /\ D[i].id # s
        /\ \A i \in DOMAIN D : i \in DOMAIN D' /\ D[i].id = D'[i].id /\ D[i].conn <= D'[i].conn
        /\ \A i \in DOMAIN D : D[i].id = s => D[i].conn < D'[k].conn
  <2>1. CASE /\ \A i \in DOMAIN D : D[i].id # s
             /\ D' = Append(D, [id |-> s, conn |-> 1])
    <3>1. [id |-> s, conn |-> 1] \in Datapath
      BY DEF Datapath
    <3>2. /\ DOMAIN D' = 1..(Len(D) + 1)
          /\ \A i \in 1..Len(D) : D'[i] = D[i]
          /\ D'[Len(D) + 1] = [id |-> s, conn |-> 1]
      BY <1>3, <2>1, <3>1, AppendType
    <3>3. D'[Len(D) + 1].id = s /\ Len(D) + 1 \in DOMAIN D'
      BY <1>3, <3>2
    <3>4. \A i \in DOMAIN D' : i # Len(D) + 1 => i \in DOMAIN D /\ D'[i] = D[i] /\ D[i].id # s
      BY <1>3, <2>1, <3>2
    <3>5. \A i \in DOMAIN D : i \in DOMAIN D' /\ D[i].id = D'[i].id /\ D[i].conn <= D'[i].conn
      BY <1>3, <3>2
    <3> QED
      BY <2>1, <3>3, <3>4, <3>5
  <2>2. ASSUME NEW k \in DOMAIN D, D[k].id = s, D' = [D EXCEPT ![k].conn = @ + 1]
        PROVE  /\ k \in DOMAIN D' /\ D'[k].id = s
               /\ \A i \in DOMAIN D' : i # k => i \in DOMAIN D /\ D'[i] = D[i] /\ D[i].id # s
               /\ \A i \in DOMAIN D : i \in DOMAIN D' /\ D[i].id = D'[i].id
                                      /\ D[i].conn <= D'[i].conn
               /\ \A i \in DOMAIN D : D[i].id = s => D[i].conn < D'[k].conn
    <3>1. D[k] \in Datapath
      BY <1>3
    <3>2. /\ DOMAIN D' = DOMAIN D /\ \A i \in DOMAIN D : i # k => D'[i] = D[i]
          /\ D'[k] = [D[k] EXCEPT !.conn = D[k].conn + 1]
      BY <1>3, <2>2
    <3>3. D'[k].id = s /\ D'[k].conn = D[k].conn + 1
      BY <2>2, <3>1, <3>2 DEF Datapath
    <3>4. \A i \in DOMAIN D : D[i].id = s => i = k
      BY <2>2 DEF FlushInv
    <3> HIDE DEF D
    <3> QED
      BY <1>3, <2>2, <3>2, <3>3, <3>4
  <2> QED
    BY <2>1, <2>2, HandshakeEffect
<1>6. PICK k \in DOMAIN D' :
        /\ D'[k].id = s
        /\ \A i \in DOMAIN D' : i # k => i \in DOMAIN D /\ D'[i] = D[i] /\ D[i].id # s
        /\ \A i \in DOMAIN D : i \in DOMAIN D' /\ D[i].id = D'[i].id /\ D[i].conn <= D'[i].conn
        /\ \A i \in DOMAIN D : D[i].id = s => D[i].conn < D'[k].conn
  BY <1>5
<1>7. \A i, j \in DOMAIN D' : D'[i].id = D'[j].id => i = j
  BY <1>6 DEF FlushInv
<1>8. \A i \in DOMAIN D' : D'[i].conn \in Nat
  <2>1. datapaths' \in Seq(Datapath)
    BY HandshakeEffect
  <2>2. \A i \in DOMAIN datapaths' : datapaths'[i] \in Datapath
    BY <2>1
  <2> QED
    BY <2>2 DEF Datapath
<1>9. ASSUME NEW t \in Threads PROVE FlushState(thread[t])'
  <2>1. FlushState(thread[t])
    BY DEF FlushInv
  <2>2. D'[k] \notin thread[t].seen
    <3> SUFFICES ASSUME D'[k] \in thread[t].seen PROVE FALSE
      OBVIOUS
    <3>1. PICK i \in DOMAIN D : D[i].id = D'[k].id /\ D'[k].conn <= D[i].conn
      BY <2>1 DEF FlushState
    <3> QED
      BY <1>3, <1>6, <1>8, <3>1
  <2>3. ASSUME NEW d \in thread[t].seen
        PROVE  \E i \in DOMAIN D' : D'[i].id = d.id /\ d.conn <= D'[i].conn
    <3>1. PICK i \in DOMAIN D : D[i].id = d.id /\ d.conn <= D[i].conn
      BY <2>1 DEF FlushState
    <3>2. i \in DOMAIN D' /\ D'[i].id = d.id /\ D[i].conn <= D'[i].conn
      BY <1>6, <3>1
    <3>3. d.conn <= D'[i].conn
      BY <1>3, <1>4, <1>8, <3>1, <3>2
    <3> QED
      BY <3>2, <3>3
  <2>4. \A i \in DOMAIN D' : D'[i] \in thread[t].seen => i \in DOMAIN D /\ D'[i] = D[i]
    BY <1>6, <2>2
  <2>5. /\ Flushing(thread[t])' <=> Flushing(thread[t])
        /\ FlushLeft(thread[t])' <=> FlushLeft(thread[t])
    BY <1>1 DEF Flushing, FlushLeft
  <2>6. thread'[t] = thread[t]
    BY <1>1
  <2>7. ASSUME Flushing(thread[t]), NEW i \in DOMAIN D', i < thread[t].at,
               D'[i] \in thread[t].seen
        PROVE  D'[i] \in thread[t].flushed \/ thread[t].target = <<D'[i]>>
    BY <2>1, <2>4, <2>7 DEF FlushState
  <2>8. ASSUME thread[t].size > 0, ~FlushLeft(thread[t]), NEW i \in DOMAIN D',
               D'[i] \in thread[t].seen
        PROVE  D'[i] \in thread[t].flushed
    BY <2>1, <2>4, <2>8 DEF FlushState
  <2> QED
    BY <2>1, <2>3, <2>5, <2>6, <2>7, <2>8 DEF FlushState
<1> QED
  BY <1>2, <1>7, <1>9 DEF FlushInv

LEMMA FlushNext ==
  ASSUME LineInv, FlushInv, [Next]_vars
  PROVE  FlushInv' /\ \A u \in Threads : OkStep(u)
<1>0. Types /\ Listed /\ Waiters
  BY DEF LineInv
<1>1. ASSUME NEW t \in Threads, (t \in RestThreads /\ Request(t)) \/ (t = LOOP /\ Packet)
      PROVE  FlushInv' /\ \A u \in Threads : OkStep(u)
  <2>1. UNCHANGED datapaths
    BY <1>1, RequestEffect
  <2>2. CASE Return(t, "error")
    BY <1>0, <2>1, <2>2, FlushReturn, ReturnEffect, FlushOne
  <2>3. ASSUME NEW h \in {Log, Log \o <<"flush">> \o Log, <<"flush">> \o Log \o Log},
               Begin(t, h)
        PROVE  FlushInv' /\ \A u \in Threads : OkStep(u)
    BY <1>0, <2>1, <2>3, FlushBegin, HandlerSteps, BeginEffect, FlushOne
  <2> QED
    BY <1>1, <2>2, <2>3, RequestEffect
<1>2. ASSUME NEW t \in Threads, Runs(t)
      PROVE  FlushInv' /\ \A u \in Threads : OkStep(u)
  <2>1. FlushState(thread[t])
    BY DEF FlushInv
  <2> QED
    BY <1>0, <1>2, <2>1, FlushRuns, FlushOne
<1>3. ASSUME NEW c \in Clients, SendDone(c) PROVE FlushInv' /\ \A u \in Threads : OkStep(u)
  <2>1. PICK t \in Threads : t = Head(sendlock[c])
    BY <1>0, <1>3, DoneEffect
  <2>2. /\ InSend(t) /\ OthersKeep(t)
        /\ thread'[t] = [thread[t] EXCEPT !.at = thread[t].at + 1]
        /\ UNCHANGED datapaths
    BY <1>0, <1>3, <2>1, DoneEffect DEF SendDone
  <2>3. /\ thread'[t].steps = thread[t].steps /\ thread'[t].target = thread[t].target
        /\ thread'[t].size = thread[t].size /\ thread'[t].seen = thread[t].seen
        /\ thread'[t].flushed = thread[t].flushed /\ thread'[t].answer = thread[t].answer
    BY <1>0, <2>2, FieldTypes DEF Thread
  <2>4. Keeps(t)
    BY <1>0, <2>2, <2>3, FlushMove DEF InSend, FlushInv
  <2> QED
    BY <2>2, <2>4, FlushOne
<1>4. ASSUME NEW c \in Clients, WaitRaises(c) PROVE FlushInv' /\ \A u \in Threads : OkStep(u)
  <2>1. PICK t \in Threads : t = Head(sendlock[c])
    BY <1>0, <1>4, RaisesEffect
  <2>2. /\ OthersKeep(t) /\ UNCHANGED datapaths
        /\ thread'[t] = Idle(IF t \in RestThreads THEN "error" ELSE "none")
    BY <1>0, <1>4, <2>1, RaisesEffect DEF WaitRaises
  <2>3. Keeps(t)
    BY <2>2, FlushIdle
  <2> QED
    BY <2>2, <2>3, FlushOne
<1>5. ASSUME UNCHANGED <<thread, datapaths>> PROVE FlushInv' /\ \A u \in Threads : OkStep(u)
  <2>1. FlushInv'
    BY <1>5 DEF FlushInv, FlushState, Flushing, FlushLeft
  <2> QED
    BY <1>5, <2>1 DEF OkStep
<1>6. ASSUME NEW c \in Clients, Join(c) \/ Break(c) \/ Leave(c) PROVE UNCHANGED <<thread, datapaths>>
  BY <1>6 DEF Join, Break, Leave
<1>7. ASSUME NEW s \in Switches, SwitchHandshake(s)
      PROVE  FlushInv' /\ \A u \in Threads : OkStep(u)
  BY <1>0, <1>7, FlushHandshake
<1>8. CASE UNCHANGED vars
  BY <1>5, <1>8 DEF vars
<1> QED
  BY <1>1, <1>2, <1>3, <1>4, <1>5, <1>6, <1>7, <1>8, ThreadIds DEF Next

\* A request that adds a rule is answered with ok only when every switch that
\* was registered when it began, and still has the same connection, was sent
\* the deletes of the flush (_flush_flows_for_ip over datapaths), although
\* switches register, and clients come and go, in the middle of it.
THEOREM OkAnswersAreFlushed == Spec => OkMeansFlushed
<1>1. Init => FlushInv
  <2> SUFFICES ASSUME Init PROVE FlushInv
    OBVIOUS
  <2>1. \A t \in Threads : FlushState(thread[t])
    BY DEF Init, Idle, FlushState, Flushing
  <2> QED
    BY <2>1 DEF Init, FlushInv
<1>2. LineInv /\ FlushInv /\ [Next]_vars => FlushInv'
  BY FlushNext
<1>3. LineInv /\ FlushInv /\ [Next]_vars =>
        [\A t \in RestThreads :
           thread'[t].answer = "ok" /\ thread[t].answer = "none" /\ thread[t].size > 0
             => thread[t].seen \cap ToSet(datapaths) \subseteq thread[t].flushed]_vars
  BY FlushNext, ThreadIds DEF OkStep
<1> QED
  BY <1>1, <1>2, <1>3, LineInit, LineNext, PTL DEF Spec, OkMeansFlushed

-----------------------------------------------------------------------------
(* The broadcasts                                                          *)

LEMMA PlaceType ==
  ASSUME Types, NEW i \in DOMAIN connections
  PROVE  connections[i] \in Clients /\ i \in Nat /\ i > 0 /\ i <= Len(connections)
BY DEF Types

LEMMA ReceivedType ==
  ASSUME Types, NEW c \in Clients
  PROVE  /\ received[c] \in Seq(Nat) /\ Len(received[c]) \in Nat
         /\ DOMAIN received[c] = 1..Len(received[c])
         /\ \A k \in DOMAIN received[c] : received[c][k] \in Nat
BY DEF Types

\* A step of a thread that is outside the loop of broadcast, or leaves it: at
\* the end of the list, or with an exception.
LEMMA BroadcastAside ==
  ASSUME LineInv, BroadcastInv, NEW t \in Threads, OthersKeep(t), ~InBroadcast(t)',
         cpu \in {t, NoThread}, cpu' \in {t, NoThread},
         UNCHANGED <<logged, connections, client, received, joined>>,
         disturbed \subseteq disturbed',
         \A e \in disturbed' : e \in disturbed \/ (InBroadcast(t) /\ e = thread[t].event),
         InBroadcast(t) => thread[t].event \in disturbed' \/ thread[t].at > Len(connections),
         \A u \in Threads \ {t}, c \in Clients : Waits(u, c)' <=> Waits(u, c),
         \A u, v \in Threads \ {t}, c \in Clients : Ahead(u, v, c) => Ahead(u, v, c)'
  PROVE  BroadcastInv'
<1>0. Types /\ Listed /\ Waiters
  BY DEF LineInv
<1>1. \A u \in Threads : InBroadcast(u)' <=> u # t /\ InBroadcast(u)
  BY DEF OthersKeep, InBroadcast, Busy
<1>2. \A u \in Threads \ {t} : thread'[u] = thread[u] /\ cpu # u /\ cpu' # u
  BY ThreadIds DEF OthersKeep
<1>3. \A u \in Threads : Undisturbed(u)' <=> u # t /\ Undisturbed(u)
  BY <1>1, <1>2 DEF Undisturbed, BroadcastInv, Distinct
<1>4. Numbered'
  <2>1. \A e \in disturbed' : e <= logged'
    <3>1. /\ \A e \in disturbed : e <= logged
          /\ InBroadcast(t) => thread[t].event <= logged
      BY DEF BroadcastInv, Numbered
    <3> QED
      BY <3>1
  <2> QED
    BY <1>1, <1>2, <2>1 DEF BroadcastInv, Numbered
<1>5. Position'
  BY <1>1, <1>2, <1>3 DEF BroadcastInv, Position
<1>6. Distinct'
  BY <1>1, <1>2, <1>3 DEF BroadcastInv, Distinct, Undisturbed
<1>7. Behind'
  <2> SUFFICES ASSUME NEW u \in Threads, NEW v \in Threads, InBroadcast(u)', Undisturbed(v)',
                      thread'[u].event < thread'[v].event
               PROVE  /\ cpu' # u
                      /\ \A i \in DOMAIN connections : Waits(u, connections[i])' =>
                           thread'[v].at <= i /\ Ahead(u, v, connections[i])'
    BY DEF Behind, Waits, Ahead
  <2>1. /\ u \in Threads \ {t} /\ v \in Threads \ {t} /\ InBroadcast(u) /\ Undisturbed(v)
        /\ thread'[v] = thread[v] /\ thread[u].event < thread[v].event /\ cpu' # u
    BY <1>1, <1>2, <1>3
  <2>2. \A i \in DOMAIN connections : Waits(u, connections[i]) =>
          thread[v].at <= i /\ Ahead(u, v, connections[i])
    BY <2>1 DEF BroadcastInv, Behind
  <2> QED
    BY <1>0, <2>1, <2>2, PlaceType
<1>8. NotAgain'
  <2> SUFFICES ASSUME NEW u \in Threads, NEW i \in DOMAIN connections,
                      NEW k \in DOMAIN received[connections[i]], InBroadcast(u)',
                      thread'[u].event <= received[connections[i]][k]
               PROVE  \/ Past(u, i)'
                      \/ Doomed(u)'
                      \/ /\ thread'[u].event # received[connections[i]][k]
                         /\ {thread'[u].event, received[connections[i]][k]} \subseteq disturbed'
    BY DEF NotAgain
  <2>1. u \in Threads \ {t} /\ InBroadcast(u) /\ thread'[u] = thread[u] /\ cpu' # u
    BY <1>1, <1>2
  <2>2. \/ Past(u, i)
        \/ Doomed(u)
        \/ /\ thread[u].event # received[connections[i]][k]
           /\ {thread[u].event, received[connections[i]][k]} \subseteq disturbed
    BY <2>1 DEF BroadcastInv, NotAgain
  <2>3. Past(u, i) => Past(u, i)'
    BY <1>0, <2>1, PlaceType DEF Past
  <2>4. Doomed(u) => Doomed(u)'
    BY <2>1 DEF Doomed
  <2> QED
    BY <2>1, <2>2, <2>3, <2>4
<1>9. EventsInOrder'
  BY DEF BroadcastInv, EventsInOrder
<1>10. Reached'
  BY <1>2, <1>3 DEF BroadcastInv, Reached, Got
<1>11. Complete'
  <2> SUFFICES ASSUME NEW c \in Clients, NEW e \in 1..logged, client[c] = "up", joined[c] < e,
                      ~OnItsWay(e)', e \notin disturbed'
               PROVE  Got(c, e)
    BY DEF Complete, Got
  <2>1. CASE ~OnItsWay(e)
    BY <2>1 DEF BroadcastInv, Complete
  <2>2. CASE OnItsWay(e)
    <3>1. InBroadcast(t) /\ thread[t].event = e
      BY <1>1, <1>2, <2>2 DEF OnItsWay
    <3>2. Undisturbed(t) /\ thread[t].at > Len(connections)
      BY <3>1 DEF Undisturbed
    <3>3. PICK i \in DOMAIN connections : connections[i] = c
      BY <1>0 DEF Listed
    <3>4. ~(i >= thread[t].at)
      BY <1>0, <3>2, <3>3, PlaceType, ConnectionsType, FieldTypes
    <3> QED
      BY <3>1, <3>2, <3>3, <3>4 DEF BroadcastInv, Reached
  <2> QED
    BY <2>1, <2>2
<1> QED
  BY <1>4, <1>5, <1>6, <1>7, <1>8, <1>9, <1>10, <1>11 DEF BroadcastInv

LEMMA BroadcastAppend ==
  ASSUME LineInv, BroadcastInv, NEW t \in Threads, AppendEvent(t)
  PROVE  BroadcastInv'
<1>0. Types /\ Listed /\ Waiters /\ logged \in Nat
  BY DEF LineInv, Types
<1>1. /\ cpu = t /\ cpu' = t /\ ~InBroadcast(t) /\ Busy(t) /\ Head(thread[t].steps) = "event"
      /\ logged' = logged + 1
      /\ UNCHANGED <<connections, client, sendlock, received, joined, disturbed>>
  BY DEF AppendEvent, Doing, InBroadcast, client_vars
<1>2. /\ OthersKeep(t) /\ thread'[t] = [thread[t] EXCEPT !.at = 1, !.event = logged + 1]
      /\ thread[t] \in Thread
  BY <1>0, AppendEventEffect, FieldTypes
<1>3. thread'[t].at = 1 /\ thread'[t].event = logged + 1 /\ thread'[t].steps = thread[t].steps
  BY <1>2 DEF Thread
<1>4. InBroadcast(t)'
  BY <1>1, <1>3 DEF InBroadcast, Busy
<1>5. \A u \in Threads \ {t} : /\ thread'[u] = thread[u] /\ cpu # u /\ cpu' # u
                               /\ InBroadcast(u)' <=> InBroadcast(u)
                               /\ Undisturbed(u)' <=> Undisturbed(u)
  BY <1>1, <1>2 DEF OthersKeep, InBroadcast, Undisturbed, Busy
<1>6. \A u \in Threads, c \in Clients : Waits(u, c)' <=> Waits(u, c)
  BY <1>1 DEF Waits
<1>7. \A c \in Clients : ~Waits(t, c)
  BY <1>0, <1>1 DEF Waiters
<1>8. \A u \in Threads : InBroadcast(u) => thread[u].event \in 1..logged
  BY DEF BroadcastInv, Numbered
<1>9. logged + 1 \notin disturbed
  BY <1>0 DEF BroadcastInv, Numbered
<1>10. Numbered'
  <2>1. /\ \A c \in Clients : joined[c] <= logged
        /\ \A c \in Clients : \A i \in DOMAIN received[c] : received[c][i] <= logged
        /\ \A e \in disturbed : e <= logged
    BY DEF BroadcastInv, Numbered
  <2>2. \A c \in Clients : joined[c] \in Nat
    BY <1>0 DEF Types
  <2>3. \A c \in Clients : joined[c] <= logged + 1
    BY <1>0, <2>1, <2>2
  <2>4. \A c \in Clients : \A i \in DOMAIN received[c] : received[c][i] <= logged + 1
    BY <1>0, <2>1, ReceivedType
  <2>5. \A e \in disturbed : e <= logged + 1
    BY <1>0, <2>1 DEF Types
  <2>6. \A u \in Threads : InBroadcast(u)' => thread'[u].event \in 1..(logged + 1)
    BY <1>0, <1>3, <1>5, <1>8
  <2> QED
    BY <1>1, <2>3, <2>4, <2>5, <2>6 DEF Numbered
<1>11. Position'
  BY <1>1, <1>5, <1>6, <1>7 DEF BroadcastInv, Position
<1>12. Distinct'
  <2>1. \A u \in Threads \ {t} : InBroadcast(u)' => thread'[u].event < logged + 1
    BY <1>0, <1>5, <1>8
  <2> SUFFICES ASSUME NEW u \in Threads, NEW v \in Threads, InBroadcast(u)', InBroadcast(v)'
               PROVE  /\ thread'[u].event = thread'[v].event => u = v
                      /\ thread'[u].event < thread'[v].event /\ thread'[v].event \in disturbed
                           => thread'[u].event \in disturbed
    BY <1>1 DEF Distinct
  <2>2. CASE u # t /\ v # t
    BY <1>5, <2>2 DEF BroadcastInv, Distinct
  <2>3. CASE u = t /\ v # t
    <3>1. thread'[u].event = logged + 1 /\ thread'[v].event < logged + 1
      BY <1>3, <2>1, <2>3
    <3>2. thread'[v].event \in Nat
      BY <1>0, <1>5, <2>3, FieldTypes
    <3> QED
      BY <1>0, <3>1, <3>2
  <2>4. CASE u # t /\ v = t
    <3>1. thread'[v].event = logged + 1 /\ thread'[u].event < logged + 1
      BY <1>3, <2>1, <2>4
    <3>2. thread'[u].event \in Nat
      BY <1>0, <1>5, <2>4, FieldTypes
    <3> QED
      BY <1>0, <1>9, <3>1, <3>2
  <2>5. CASE u = t /\ v = t
    BY <1>3, <1>9, <2>5
  <2> QED
    BY <2>2, <2>3, <2>4, <2>5
<1>13. Behind'
  <2> SUFFICES ASSUME NEW u \in Threads, NEW v \in Threads, InBroadcast(u)', Undisturbed(v)',
                      thread'[u].event < thread'[v].event
               PROVE  /\ cpu' # u
                      /\ \A i \in DOMAIN connections : Waits(u, connections[i]) =>
                           thread'[v].at <= i /\ Ahead(u, v, connections[i])
    BY <1>1 DEF Behind, Waits, Ahead
  <2>1. u # t /\ thread'[u] = thread[u] /\ InBroadcast(u) /\ cpu' # u
    <3>1. ~(u = t /\ v # t)
      BY <1>0, <1>3, <1>5, <1>8 DEF Undisturbed
    <3>2. ~(u = t /\ v = t)
      BY <1>0, <1>3
    <3> QED
      BY <1>5, <3>1, <3>2
  <2>2. CASE v = t
    <3>1. \A i \in DOMAIN connections : Ahead(u, t, connections[i])
      BY <1>0, <1>7, PlaceType DEF Ahead, Waits
    <3>2. \A i \in DOMAIN connections : 1 <= i
      BY <1>0, PlaceType
    <3> QED
      BY <1>3, <2>1, <2>2, <3>1, <3>2
  <2>3. CASE v # t
    BY <1>5, <2>1, <2>3 DEF BroadcastInv, Behind
  <2> QED
    BY <2>2, <2>3
<1>14. NotAgain'
  <2> SUFFICES ASSUME NEW u \in Threads, NEW i \in DOMAIN connections,
                      NEW k \in DOMAIN received[connections[i]], InBroadcast(u)',
                      thread'[u].event <= received[connections[i]][k]
               PROVE  \/ Past(u, i)'
                      \/ Doomed(u)'
                      \/ /\ thread'[u].event # received[connections[i]][k]
                         /\ {thread'[u].event, received[connections[i]][k]} \subseteq disturbed
    BY <1>1 DEF NotAgain
  <2>1. received[connections[i]][k] \in Nat /\ received[connections[i]][k] <= logged
    BY <1>0, PlaceType, ReceivedType DEF BroadcastInv, Numbered
  <2>2. u # t
    BY <1>0, <1>3, <2>1
  <2>3. /\ Past(u, i)' <=> Past(u, i)
        /\ Doomed(u)' <=> Doomed(u)
    BY <1>0, <1>1, <1>5, <1>6, <2>2, PlaceType DEF Past, Doomed
  <2> QED
    BY <1>5, <2>2, <2>3 DEF BroadcastInv, NotAgain
<1>15. EventsInOrder'
  BY <1>1 DEF BroadcastInv, EventsInOrder
<1>16. Reached'
  <2>1. \A i \in DOMAIN connections : i >= 1
    BY <1>0, PlaceType
  <2> QED
    BY <1>1, <1>3, <1>5, <2>1 DEF BroadcastInv, Reached, Got
<1>17. Complete'
  <2> SUFFICES ASSUME NEW c \in Clients, NEW e \in 1..(logged + 1), client[c] = "up",
                      joined[c] < e, ~OnItsWay(e)', e \notin disturbed
               PROVE  Got(c, e)
    BY <1>1 DEF Complete, Got
  <2>1. e # logged + 1
    BY <1>3, <1>4 DEF OnItsWay
  <2>2. ~OnItsWay(e)
    BY <1>1, <1>5 DEF OnItsWay
  <2>3. e \in 1..logged
    BY <1>0, <2>1
  <2> QED
    BY <2>2, <2>3 DEF BroadcastInv, Complete
<1> QED
  BY <1>10, <1>11, <1>12, <1>13, <1>14, <1>15, <1>16, <1>17 DEF BroadcastInv

LEMMA BroadcastQueue ==
  ASSUME LineInv, BroadcastInv, NEW t \in Threads, SendWaits(t)
  PROVE  BroadcastInv'
<1>0. Types /\ Listed /\ Waiters
  BY DEF LineInv
<1>1. PICK p \in DOMAIN connections : p = thread[t].at
  BY <1>0, FieldTypes, ConnectionsType DEF SendWaits, Broadcasting
<1>2. PICK c \in Clients : c = connections[p]
  BY <1>0, PlaceType
<1>3. /\ cpu = t /\ cpu' = NoThread /\ UNCHANGED <<thread, logged, connections, client, received,
                                                  joined, disturbed>>
      /\ sendlock' = [sendlock EXCEPT ![c] = Append(@, t)]
  BY <1>1, <1>2 DEF SendWaits, Broadcasting, Doing, Current, log_vars
<1>4. \A u \in Threads : /\ InBroadcast(u)' <=> InBroadcast(u)
                         /\ Undisturbed(u)' <=> Undisturbed(u)
  BY <1>3 DEF InBroadcast, Undisturbed, Busy
<1>5. \A u \in Threads, d \in Clients : Waits(u, d)' <=> Waits(u, d) \/ (u = t /\ d = c)
  BY <1>0, <1>3, QueueEffect
<1>6. \A d \in Clients : ~Waits(t, d)
  BY <1>0, <1>3 DEF Waiters
<1>7. \A u \in Threads : cpu' # u
  BY <1>3, ThreadIds
<1>8. \A i \in DOMAIN connections : connections[i] = c => i = p
  BY <1>0, <1>2 DEF Listed
<1>9. Numbered'
  BY <1>3, <1>4 DEF BroadcastInv, Numbered
<1>10. Position'
  BY <1>0, <1>1, <1>2, <1>3, <1>4, <1>5, <1>6, <1>8, PlaceType DEF BroadcastInv, Position
<1>11. Distinct'
  BY <1>3, <1>4 DEF BroadcastInv, Distinct
<1>12. ASSUME NEW u \in Threads \ {t}, NEW v \in Threads, NEW d \in Clients, Ahead(u, v, d)
       PROVE  Ahead(u, v, d)'
  <2>1. CASE d # c
    BY <1>0, <1>3, <1>12, <2>1, QueueEffect DEF Ahead
  <2>2. CASE d = c
    <3>1. /\ DOMAIN sendlock'[c] = 1..(Len(sendlock[c]) + 1) /\ Len(sendlock[c]) \in Nat
          /\ DOMAIN sendlock[c] = 1..Len(sendlock[c])
          /\ \A k \in 1..Len(sendlock[c]) : sendlock'[c][k] = sendlock[c][k]
          /\ sendlock'[c][Len(sendlock[c]) + 1] = t
      BY <1>0, <1>3, QueueEffect, LockType
    <3> QED
      BY <1>12, <2>2, <3>1 DEF Ahead
  <2> QED
    BY <2>1, <2>2
<1>13. Behind'
  <2> SUFFICES ASSUME NEW u \in Threads, NEW v \in Threads, InBroadcast(u), Undisturbed(v),
                      thread[u].event < thread[v].event,
                      NEW i \in DOMAIN connections, NEW d \in Clients, d = connections[i],
                      Waits(u, d)'
               PROVE  thread[v].at <= i /\ Ahead(u, v, d)'
    <3>1. \A i \in DOMAIN connections : connections[i] \in Clients
      BY <1>0, PlaceType
    <3> QED
      BY <1>3, <1>4, <1>7, <3>1 DEF Behind, Waits, Ahead
  <2>1. u # v
    BY <1>0, FieldTypes
  <2>2. CASE u = t
    <3>1. i = p /\ d = c
      BY <1>5, <1>6, <1>8, <2>2
    <3>2. thread[v].at < p
      BY <1>1, <1>3, <2>2 DEF BroadcastInv, Behind
    <3>3. ~Waits(v, c)
      <4> SUFFICES ASSUME Waits(v, c) PROVE FALSE
        OBVIOUS
      <4>1. thread[v].at \in DOMAIN connections /\ connections[thread[v].at] = c
        BY DEF BroadcastInv, Position, Undisturbed
      <4> QED
        BY <1>0, <1>8, <3>2, <4>1, PlaceType
    <3>4. Ahead(u, v, c)'
      <4>1. ~Waits(v, c)'
        BY <1>5, <2>1, <2>2, <3>3
      <4> QED
        BY <4>1 DEF Ahead, Waits
    <3>5. thread[v].at \in Nat /\ p \in Nat
      BY <1>0, PlaceType, FieldTypes
    <3> QED
      BY <3>1, <3>2, <3>4, <3>5
  <2>3. CASE u # t
    <3>1. Waits(u, d)
      BY <1>5, <2>3
    <3>2. thread[v].at <= i /\ Ahead(u, v, d)
      BY <3>1 DEF BroadcastInv, Behind
    <3> QED
      BY <1>12, <2>3, <3>2
  <2> QED
    BY <2>2, <2>3
<1>14. NotAgain'
  <2> SUFFICES ASSUME NEW u \in Threads, NEW i \in DOMAIN connections,
                      NEW k \in DOMAIN received[connections[i]], InBroadcast(u),
                      thread[u].event <= received[connections[i]][k]
               PROVE  \/ Past(u, i)'
                      \/ Doomed(u)'
                      \/ /\ thread[u].event # received[connections[i]][k]
                         /\ {thread[u].event, received[connections[i]][k]} \subseteq disturbed
    BY <1>3, <1>4 DEF NotAgain
  <2>1. Past(u, i) => Past(u, i)'
    <3> SUFFICES ASSUME Past(u, i) PROVE ~Waits(u, connections[i])'
      BY <1>3, <1>7 DEF Past
    <3>1. ~(u = t /\ connections[i] = c)
      BY <1>1, <1>3, <1>8, PlaceType, <1>0 DEF Past
    <3>2. ~Waits(u, connections[i])
      BY DEF Past
    <3> QED
      BY <1>0, <1>3, <1>5, <3>1, <3>2, PlaceType
  <2>2. Doomed(u) => Doomed(u)'
    BY <1>3, <1>5 DEF Doomed
  <2> QED
    BY <2>1, <2>2 DEF BroadcastInv, NotAgain
<1>15. EventsInOrder'
  BY <1>3 DEF BroadcastInv, EventsInOrder
<1>16. Reached'
  BY <1>3, <1>4 DEF BroadcastInv, Reached, Got
<1>17. Complete'
  BY <1>3, <1>4 DEF BroadcastInv, Complete, Got, OnItsWay
<1> QED
  BY <1>9, <1>10, <1>11, <1>13, <1>14, <1>15, <1>16, <1>17 DEF BroadcastInv

\* Thread t delivers its event to client c, in place p, and goes on.
LEMMA BroadcastDeliver ==
  ASSUME LineInv, BroadcastInv, NEW t \in Threads, NEW c \in Clients,
         NEW p \in DOMAIN connections, c = connections[p], client[c] = "up",
         InBroadcast(t), OthersKeep(t), cpu \in {t, NoThread}, cpu' = t,
         thread'[t].steps = thread[t].steps, thread'[t].event = thread[t].event,
         thread'[t].at = thread[t].at + 1,
         received' = [received EXCEPT ![c] = Append(@, thread[t].event)],
         UNCHANGED <<logged, connections, client, joined, disturbed>>,
         \A d \in Clients : ~Waits(t, d)',
         \A u \in Threads \ {t}, d \in Clients : Waits(u, d)' <=> Waits(u, d),
         \A u, v \in Threads, d \in Clients : Ahead(u, v, d) => Ahead(u, v, d)',
         p <= thread[t].at, Undisturbed(t) => p = thread[t].at,
         \A u \in Threads \ {t} : ~(Waits(u, c) /\ Ahead(u, t, c)),
         ~Past(t, p), ~Doomed(t),
         \A u \in Threads \ {t} : Undisturbed(u) /\ thread[t].event < thread[u].event =>
           thread[u].at <= thread[t].at
  PROVE  BroadcastInv'
<1>0. Types /\ Listed /\ Waiters
  BY DEF LineInv
<1>e. PICK e \in Nat : e = thread[t].event
  BY <1>0, FieldTypes
<1>1. \A u \in Threads : /\ InBroadcast(u)' <=> InBroadcast(u)
                         /\ thread'[u].event = thread[u].event
                         /\ Undisturbed(u)' <=> Undisturbed(u)
  <2>1. InBroadcast(t)'
    BY <1>0, FieldTypes DEF InBroadcast, Busy
  <2>2. \A u \in Threads \ {t} : thread'[u] = thread[u] /\ (InBroadcast(u)' <=> InBroadcast(u))
    BY DEF OthersKeep, InBroadcast, Busy
  <2> QED
    BY <2>1, <2>2 DEF Undisturbed
<1>2. \A u \in Threads \ {t} : thread'[u].at = thread[u].at /\ cpu # u /\ cpu' # u
  BY ThreadIds DEF OthersKeep
<1>3. /\ e \in Nat /\ thread[t].at \in Nat /\ p \in Nat
      /\ \A u \in Threads : thread[u].at \in Nat /\ thread[u].event \in Nat
  BY <1>0, FieldTypes, PlaceType
<1>4. /\ \A d \in Clients \ {c} : received'[d] = received[d]
      /\ DOMAIN received'[c] = 1..(Len(received[c]) + 1)
      /\ Len(received[c]) \in Nat /\ DOMAIN received[c] = 1..Len(received[c])
      /\ \A k \in 1..Len(received[c]) : received'[c][k] = received[c][k]
      /\ received'[c][Len(received[c]) + 1] = e
  <2>1. /\ \A d \in Clients \ {c} : received'[d] = received[d]
        /\ received'[c] = Append(received[c], e)
    BY <1>0, <1>e DEF Types
  <2> QED
    BY <1>0, <1>3, <2>1, ReceivedType, AppendType
\* Every entry of a client is one it had, or the new one of c.
<1>5. ASSUME NEW d \in Clients, NEW k \in DOMAIN received'[d]
      PROVE  \/ k \in DOMAIN received[d] /\ received'[d][k] = received[d][k]
             \/ d = c /\ k = Len(received[c]) + 1 /\ received'[d][k] = e
  BY <1>4
<1>6. ASSUME NEW d \in Clients, NEW f, Got(d, f) PROVE Got(d, f)'
  BY <1>4, <1>6 DEF Got
<1>7. Got(c, e)'
  <2>1. Len(received[c]) + 1 \in DOMAIN received'[c]
    BY <1>4
  <2> QED
    BY <1>4, <2>1 DEF Got
<1>8. Numbered'
  <2>1. e <= logged
    BY <1>e DEF BroadcastInv, Numbered
  <2>2. \A d \in Clients : \A k \in DOMAIN received'[d] : received'[d][k] <= logged
    BY <1>5, <2>1 DEF BroadcastInv, Numbered
  <2> QED
    BY <1>1, <2>2 DEF BroadcastInv, Numbered
<1>9. Position'
  BY <1>1, <1>2 DEF BroadcastInv, Position
<1>10. Distinct'
  BY <1>1 DEF BroadcastInv, Distinct
<1>11. Behind'
  <2> SUFFICES ASSUME NEW u \in Threads, NEW v \in Threads, InBroadcast(u), Undisturbed(v),
                      thread[u].event < thread[v].event
               PROVE  /\ cpu' = u => thread'[v].at < thread'[u].at
                      /\ \A i \in DOMAIN connections, d \in Clients :
                           d = connections[i] /\ Waits(u, d)' =>
                             thread'[v].at <= i /\ Ahead(u, v, d)'
    <3>1. \A i \in DOMAIN connections : connections[i] \in Clients
      BY <1>0, PlaceType
    <3> QED
      BY <1>1, <3>1 DEF Behind, Waits, Ahead
  <2>1. u # v
    BY <1>3
  <2>2. CASE u = t
    <3>1. thread[v].at <= thread[t].at /\ thread'[v].at = thread[v].at
      BY <1>2, <2>1, <2>2
    <3> QED
      BY <1>3, <2>2, <3>1
  <2>3. CASE u # t
    <3>1. cpu' # u
      BY <1>2, <2>3
    <3>2. ASSUME NEW i \in DOMAIN connections, NEW d \in Clients, d = connections[i], Waits(u, d)'
          PROVE  thread'[v].at <= i /\ Ahead(u, v, d)'
      <4>1. Waits(u, d) /\ thread[v].at <= i /\ Ahead(u, v, d)
        BY <2>3, <3>2 DEF BroadcastInv, Behind
      <4>2. CASE v # t
        BY <1>2, <4>1, <4>2
      <4>3. CASE v = t
        <5>1. p = thread[t].at
          BY <4>3
        <5>2. i # p
          BY <2>3, <3>2, <4>1, <4>3
        <5>3. thread[t].at + 1 <= i
          BY <1>0, <1>3, <4>1, <4>3, <5>1, <5>2, PlaceType
        <5> QED
          BY <4>1, <4>3, <5>3
      <4> QED
        BY <4>2, <4>3
    <3> QED
      BY <3>1, <3>2
  <2> QED
    BY <2>2, <2>3
<1>12. NotAgain'
  <2> SUFFICES ASSUME NEW u \in Threads, NEW i \in DOMAIN connections, NEW d \in Clients,
                      d = connections[i], NEW k \in DOMAIN received'[d], InBroadcast(u),
                      thread[u].event <= received'[d][k]
               PROVE  \/ i <= thread'[u].at /\ (cpu' = u => i < thread'[u].at) /\ ~Waits(u, d)'
                      \/ Doomed(u)'
                      \/ /\ thread[u].event # received'[d][k]
                         /\ {thread[u].event, received'[d][k]} \subseteq disturbed
    <3>1. \A i \in DOMAIN connections : connections[i] \in Clients
      BY <1>0, PlaceType
    <3> QED
      BY <1>1, <3>1 DEF NotAgain, Past, Waits
  <2>1. i \in Nat
    BY <1>0, PlaceType
  <2>2. u # t /\ Doomed(u) => Doomed(u)'
    BY DEF Doomed
  <2>3. CASE k \in DOMAIN received[d] /\ received'[d][k] = received[d][k]
    <3>1. \/ i <= thread[u].at /\ (cpu = u => i < thread[u].at) /\ ~Waits(u, d)
          \/ Doomed(u)
          \/ /\ thread[u].event # received'[d][k]
             /\ {thread[u].event, received'[d][k]} \subseteq disturbed
      BY <2>3 DEF BroadcastInv, NotAgain, Past
    <3>2. CASE u = t
      BY <1>3, <2>1, <3>1, <3>2
    <3>3. CASE u # t
      BY <1>2, <2>2, <3>1, <3>3
    <3> QED
      BY <3>2, <3>3
  <2>4. CASE d = c /\ received'[d][k] = e
    <3>1. i = p
      BY <1>0, <2>4 DEF Listed
    <3>2. CASE u = t
      <4>1. i < thread'[t].at
        BY <1>3, <2>1, <3>1
      <4> QED
        BY <1>3, <2>1, <3>1, <3>2, <4>1
    <3>3. CASE u # t /\ thread[t].event \in disturbed
      <4>1. thread[u].event < e
        BY <1>e, <1>3, <2>4, <3>3 DEF BroadcastInv, Distinct
      <4>2. thread[u].event \in disturbed
        BY <1>e, <3>3, <4>1 DEF BroadcastInv, Distinct
      <4> QED
        BY <1>3, <2>4, <3>3, <4>1, <4>2, <1>e
    <3>4. CASE u # t /\ thread[t].event \notin disturbed
      <4>1. thread[u].event < thread[t].event /\ Undisturbed(t) /\ p = thread[t].at
        BY <1>e, <1>3, <2>4, <3>4 DEF BroadcastInv, Distinct, Undisturbed
      <4>2. PICK x \in Clients : Waits(u, x)
        BY <1>0, <1>2, <3>4 DEF Waiters, InSend, InBroadcast
      <4>3. CASE client[x] = "gone"
        BY <2>2, <3>4, <4>2, <4>3 DEF Doomed
      <4>4. CASE client[x] # "gone"
        <5>1. client[x] # "new"
          BY <1>0, <4>2 DEF Listed, Waits
        <5>2. PICK j \in DOMAIN connections : connections[j] = x
          <6>1. client[x] \in {"up", "broken"}
            BY <1>0, <4>4, <5>1 DEF Types
          <6> QED
            BY <1>0, <6>1 DEF Listed
        <5>3. p <= j /\ Ahead(u, t, x)
          BY <4>1, <4>2, <5>2 DEF BroadcastInv, Behind
        <5>4. j <= thread[u].at
          BY <4>2, <5>2 DEF BroadcastInv, Position
        <5>5. ~Waits(u, c)
          BY <1>0, <3>4, <4>2, <5>3 DEF Waiters
        <5>6. i <= thread[u].at
          BY <1>0, <1>3, <3>1, <5>2, <5>3, <5>4, PlaceType
        <5> QED
          BY <1>2, <2>4, <3>4, <5>5, <5>6
      <4> QED
        BY <4>3, <4>4
    <3> QED
      BY <3>2, <3>3, <3>4
  <2> QED
    BY <1>5, <2>3, <2>4
<1>13. EventsInOrder'
  <2>1. ASSUME NEW k \in DOMAIN received[c]
        PROVE  \/ received[c][k] < e
               \/ received[c][k] # e /\ {received[c][k], e} \subseteq disturbed
    <3>1. received[c][k] \in Nat
      BY <1>0, ReceivedType
    <3>2. CASE e <= received[c][k]
      BY <1>e, <3>2 DEF BroadcastInv, NotAgain
    <3> QED
      BY <1>3, <3>1, <3>2
  <2> SUFFICES ASSUME NEW d \in Clients, NEW i \in DOMAIN received'[d],
                      NEW j \in DOMAIN received'[d], i < j
               PROVE  \/ received'[d][i] < received'[d][j]
                      \/ /\ received'[d][i] # received'[d][j]
                         /\ {received'[d][i], received'[d][j]} \subseteq disturbed
    BY DEF EventsInOrder
  <2>2. CASE d # c
    BY <1>4, <2>2 DEF BroadcastInv, EventsInOrder
  <2>3. CASE d = c
    <3>1. i \in DOMAIN received[c] /\ received'[c][i] = received[c][i]
      BY <1>4, <2>3
    <3>2. CASE j \in DOMAIN received[c]
      BY <1>4, <2>3, <3>1, <3>2 DEF BroadcastInv, EventsInOrder
    <3>3. CASE j \notin DOMAIN received[c]
      <4>1. received'[c][j] = e
        BY <1>5, <2>3, <3>3
      <4> QED
        BY <2>1, <2>3, <3>1, <4>1
    <3> QED
      BY <3>2, <3>3
  <2> QED
    BY <2>2, <2>3
<1>14. Reached'
  <2> SUFFICES ASSUME NEW u \in Threads, NEW i \in DOMAIN connections, NEW d \in Clients,
                      d = connections[i], Undisturbed(u), client[d] = "up",
                      joined[d] < thread[u].event, ~(i >= thread'[u].at)
               PROVE  Got(d, thread[u].event)'
    <3>1. \A i \in DOMAIN connections : connections[i] \in Clients
      BY <1>0, PlaceType
    <3> QED
      BY <1>1, <3>1 DEF Reached, Got
  <2>1. i >= thread[u].at \/ Got(d, thread[u].event)
    BY DEF BroadcastInv, Reached
  <2>2. CASE Got(d, thread[u].event)
    <3>1. \E k \in DOMAIN received'[d] : received'[d][k] = thread[u].event
      BY <1>4, <2>2 DEF Got
    <3> QED
      BY <1>1, <3>1 DEF Got
  <2>3. CASE i >= thread[u].at
    <3>1. u = t
      BY <1>2, <2>3
    <3>2. i = p
      BY <1>0, <1>3, <2>3, <3>1, PlaceType
    <3>3. \E k \in DOMAIN received'[d] : received'[d][k] = thread[u].event
      BY <1>e, <1>7, <3>1, <3>2 DEF Got
    <3> QED
      BY <1>1, <3>3 DEF Got
  <2> QED
    BY <2>1, <2>2, <2>3
<1>15. Complete'
  <2>1. \A f : OnItsWay(f)' <=> OnItsWay(f)
    BY <1>1 DEF OnItsWay
  <2> QED
    BY <1>6, <2>1 DEF BroadcastInv, Complete
<1> QED
  BY <1>8, <1>9, <1>10, <1>11, <1>12, <1>13, <1>14, <1>15 DEF BroadcastInv

LEMMA BroadcastJoin ==
  ASSUME LineInv, BroadcastInv, NEW c \in Clients, Join(c)
  PROVE  BroadcastInv'
<1>0. Types /\ Listed /\ Waiters
  BY DEF LineInv
<1>1. /\ UNCHANGED <<cpu, thread, logged, sendlock, received, disturbed>>
      /\ client[c] = "new" /\ client' = [client EXCEPT ![c] = "up"]
      /\ joined' = [joined EXCEPT ![c] = logged]
  BY DEF Join, log_vars
<1>2. /\ \A d \in Clients \ {c} : client'[d] = client[d] /\ joined'[d] = joined[d]
      /\ client'[c] = "up" /\ joined'[c] = logged
  BY <1>0, <1>1 DEF Types
<1>3. received[c] = <<>> /\ sendlock[c] = <<>>
  BY <1>0, <1>1 DEF Listed
<1>4. \A u \in Threads : ~Waits(u, c)
  BY <1>3 DEF Waits
<1>5. \A i \in DOMAIN connections' :
        \/ i \in DOMAIN connections /\ connections'[i] = connections[i] /\ connections[i] # c
        \/ i \notin DOMAIN connections /\ connections'[i] = c
  BY <1>0, JoinPlaces, ConnectionsType
<1>6. \A i \in DOMAIN connections : i \in DOMAIN connections' /\ connections'[i] = connections[i]
  BY <1>0, JoinPlaces, ConnectionsType
<1>7. \A u \in Threads, d \in Clients :
        /\ InBroadcast(u)' <=> InBroadcast(u)
        /\ Undisturbed(u)' <=> Undisturbed(u)
        /\ Waits(u, d)' <=> Waits(u, d)
  BY <1>1 DEF InBroadcast, Undisturbed, Busy, Waits
<1>8. Numbered'
  <2>1. logged <= logged
    BY <1>0 DEF Types
  <2>2. \A d \in Clients : joined'[d] <= logged
    BY <1>2, <2>1 DEF BroadcastInv, Numbered
  <2> QED
    BY <1>1, <1>7, <2>2 DEF BroadcastInv, Numbered
<1>9. Position'
  <2> SUFFICES ASSUME NEW d \in Clients, NEW u \in Threads, InBroadcast(u), Waits(u, d)
               PROVE  /\ \A i \in DOMAIN connections' : connections'[i] = d => i <= thread[u].at
                      /\ Undisturbed(u) => /\ thread[u].at \in DOMAIN connections'
                                           /\ connections'[thread[u].at] = d
    BY <1>1, <1>7 DEF Position
  <2>1. d # c
    BY <1>4
  <2> QED
    BY <1>5, <1>6, <2>1 DEF BroadcastInv, Position
<1>10. Distinct'
  BY <1>1, <1>7 DEF BroadcastInv, Distinct
<1>11. Behind'
  <2> SUFFICES ASSUME NEW u \in Threads, NEW v \in Threads, InBroadcast(u), Undisturbed(v),
                      thread[u].event < thread[v].event
               PROVE  /\ cpu = u => thread[v].at < thread[u].at
                      /\ \A i \in DOMAIN connections', d \in Clients :
                           d = connections'[i] /\ Waits(u, d) => thread[v].at <= i /\ Ahead(u, v, d)
    <3>1. \A i \in DOMAIN connections' : connections'[i] \in Clients
      BY <1>0, <1>5, PlaceType
    <3> QED
      BY <1>1, <1>7, <3>1 DEF Behind, Waits, Ahead
  <2> QED
    BY <1>4, <1>5 DEF BroadcastInv, Behind
<1>12. NotAgain'
  <2> SUFFICES ASSUME NEW u \in Threads, NEW i \in DOMAIN connections', NEW d \in Clients,
                      d = connections'[i], NEW k \in DOMAIN received[d],
                      InBroadcast(u), thread[u].event <= received[d][k]
               PROVE  \/ i <= thread[u].at /\ (cpu = u => i < thread[u].at) /\ ~Waits(u, d)
                      \/ Doomed(u)'
                      \/ /\ thread[u].event # received[d][k]
                         /\ {thread[u].event, received[d][k]} \subseteq disturbed
    <3>1. \A i \in DOMAIN connections' : connections'[i] \in Clients
      BY <1>0, <1>5, PlaceType
    <3> QED
      BY <1>1, <1>7, <3>1 DEF NotAgain, Past, Waits
  <2>1. d # c
    BY <1>3
  <2>2. i \in DOMAIN connections /\ d = connections[i]
    BY <1>5, <2>1
  <2>3. Doomed(u) => Doomed(u)'
    BY <1>1, <1>2, <1>7 DEF Doomed
  <2> QED
    BY <2>2, <2>3 DEF BroadcastInv, NotAgain, Past
<1>13. EventsInOrder'
  BY <1>1 DEF BroadcastInv, EventsInOrder
<1>14. Reached'
  <2> SUFFICES ASSUME NEW u \in Threads, NEW i \in DOMAIN connections', NEW d \in Clients,
                      d = connections'[i], Undisturbed(u), client'[d] = "up",
                      joined'[d] < thread[u].event
               PROVE  i >= thread[u].at \/ Got(d, thread[u].event)
    <3>1. \A i \in DOMAIN connections' : connections'[i] \in Clients
      BY <1>0, <1>5, PlaceType
    <3> QED
      BY <1>1, <1>7, <3>1 DEF Reached, Got
  <2>1. d # c
    <3>1. thread[u].event <= logged /\ thread[u].event \in Nat /\ logged \in Nat
      BY <1>0, FieldTypes DEF BroadcastInv, Numbered, Undisturbed, Types
    <3> QED
      BY <1>2, <3>1
  <2> QED
    BY <1>2, <1>5, <2>1 DEF BroadcastInv, Reached
<1>15. Complete'
  <2> SUFFICES ASSUME NEW d \in Clients, NEW e \in 1..logged, client'[d] = "up", joined'[d] < e,
                      ~OnItsWay(e), e \notin disturbed
               PROVE  Got(d, e)
    BY <1>1, <1>7 DEF Complete, Got, OnItsWay
  <2>1. d # c
    BY <1>0, <1>2 DEF Types
  <2> QED
    BY <1>2, <2>1 DEF BroadcastInv, Complete
<1> QED
  BY <1>8, <1>9, <1>10, <1>11, <1>12, <1>13, <1>14, <1>15 DEF BroadcastInv

LEMMA BroadcastBreak ==
  ASSUME LineInv, BroadcastInv, NEW c \in Clients, Break(c)
  PROVE  BroadcastInv'
<1>0. Types /\ Listed /\ Waiters
  BY DEF LineInv
<1>1. /\ UNCHANGED <<cpu, thread, logged, connections, sendlock, received, joined, disturbed>>
      /\ client[c] = "up" /\ client' = [client EXCEPT ![c] = "broken"]
  BY DEF Break, log_vars
<1>2. /\ \A d \in Clients : client'[d] = "up" => client[d] = "up"
      /\ \A d \in Clients : client[d] = "gone" => client'[d] = "gone"
  BY <1>0, <1>1 DEF Types
<1>3. \A u \in Threads, d \in Clients :
        /\ InBroadcast(u)' <=> InBroadcast(u)
        /\ Undisturbed(u)' <=> Undisturbed(u)
        /\ Waits(u, d)' <=> Waits(u, d)
  BY <1>1 DEF InBroadcast, Undisturbed, Busy, Waits
<1>4. Numbered' /\ Distinct' /\ EventsInOrder'
  BY <1>1, <1>3 DEF BroadcastInv, Numbered, Distinct, EventsInOrder
<1>5. Position'
  BY <1>1, <1>3 DEF BroadcastInv, Position
<1>6. Behind'
  BY <1>1, <1>3 DEF BroadcastInv, Behind, Ahead, Waits
<1>7. NotAgain'
  <2>1. \A u \in Threads : Doomed(u) => Doomed(u)'
    BY <1>2, <1>3 DEF Doomed
  <2> QED
    BY <1>1, <1>3, <2>1 DEF BroadcastInv, NotAgain, Past, Waits
<1>8. Reached'
  <2>1. \A i \in DOMAIN connections : connections[i] \in Clients
    BY <1>0, PlaceType
  <2> QED
    BY <1>1, <1>2, <1>3, <2>1 DEF BroadcastInv, Reached, Got
<1>9. Complete'
  BY <1>1, <1>2, <1>3 DEF BroadcastInv, Complete, Got, OnItsWay
<1> QED
  BY <1>4, <1>5, <1>6, <1>7, <1>8, <1>9 DEF BroadcastInv

LEMMA BroadcastLeave ==
  ASSUME LineInv, BroadcastInv, NEW c \in Clients, Leave(c)
  PROVE  BroadcastInv'
<1>0. Types /\ Listed /\ Waiters
  BY DEF LineInv
<1>1. /\ UNCHANGED <<cpu, thread, logged, sendlock>> /\ cpu = NoThread
      /\ client' = [client EXCEPT ![c] = "gone"]
      /\ received' = [received EXCEPT ![c] = <<>>]
      /\ joined' = [joined EXCEPT ![c] = 0]
      /\ disturbed' = disturbed \cup {thread[t].event : t \in {u \in Threads : InBroadcast(u)}}
  BY DEF Leave, log_vars
<1>2. /\ \A d \in Clients \ {c} : /\ client'[d] = client[d] /\ joined'[d] = joined[d]
                                  /\ received'[d] = received[d]
      /\ client'[c] = "gone" /\ joined'[c] = 0 /\ received'[c] = <<>>
  BY <1>0, <1>1 DEF Types
<1>3. \A u \in Threads, d \in Clients :
        /\ InBroadcast(u)' <=> InBroadcast(u)
        /\ Waits(u, d)' <=> Waits(u, d)
  BY <1>1 DEF InBroadcast, Busy, Waits
<1>4. /\ \A u \in Threads : InBroadcast(u) => thread[u].event \in disturbed'
      /\ disturbed \subseteq disturbed'
  BY <1>1
<1>5. \A u \in Threads : ~Undisturbed(u)'
  BY <1>1, <1>3, <1>4 DEF Undisturbed
<1>6. ASSUME NEW i \in DOMAIN connections'
      PROVE  \E j \in DOMAIN connections : /\ i <= j /\ i \in Nat /\ j \in Nat
                                           /\ connections'[i] = connections[j]
                                           /\ connections[j] # c
  <2>1. i \in Nat
    BY <1>0, LeaveEffect, ConnectionsType
  <2>2. PICK j \in DOMAIN connections :
          j \in {i, i + 1} /\ connections'[i] = connections[j] /\ connections[j] # c
    BY <1>0, LeavePlaces
  <2> QED
    BY <2>1, <2>2
<1>7. Numbered'
  <2>1. ASSUME NEW d \in Clients PROVE joined'[d] <= logged
    <3>1. CASE d = c
      BY <1>0, <1>2, <3>1 DEF Types
    <3>2. CASE d # c
      BY <1>2, <3>2 DEF BroadcastInv, Numbered
    <3> QED
      BY <3>1, <3>2
  <2>2. \A d \in Clients : \A i \in DOMAIN received'[d] : received'[d][i] <= logged
    BY <1>2 DEF BroadcastInv, Numbered
  <2>3. \A e \in disturbed' : e <= logged
    BY <1>1 DEF BroadcastInv, Numbered
  <2> QED
    BY <1>1, <1>3, <2>1, <2>2, <2>3 DEF BroadcastInv, Numbered
<1>8. Position'
  <2> SUFFICES ASSUME NEW d \in Clients, NEW u \in Threads, InBroadcast(u), Waits(u, d),
                      NEW i \in DOMAIN connections', connections'[i] = d
               PROVE  i <= thread[u].at
    BY <1>1, <1>3, <1>5 DEF Position
  <2>1. PICK j \in DOMAIN connections : i <= j /\ i \in Nat /\ j \in Nat /\ connections[j] = d
    BY <1>6
  <2>2. j <= thread[u].at
    BY <2>1 DEF BroadcastInv, Position
  <2> QED
    BY <1>0, <2>1, <2>2, FieldTypes
<1>9. Distinct'
  BY <1>1, <1>3, <1>4 DEF BroadcastInv, Distinct
<1>10. Behind'
  BY <1>5 DEF Behind
<1>11. NotAgain'
  <2> SUFFICES ASSUME NEW u \in Threads, NEW i \in DOMAIN connections', NEW d \in Clients,
                      d = connections'[i], NEW k \in DOMAIN received'[d],
                      InBroadcast(u), thread[u].event <= received'[d][k]
               PROVE  \/ i <= thread[u].at /\ (cpu = u => i < thread[u].at) /\ ~Waits(u, d)
                      \/ Doomed(u)'
                      \/ /\ thread[u].event # received'[d][k]
                         /\ {thread[u].event, received'[d][k]} \subseteq disturbed'
    <3>1. \A i \in DOMAIN connections' : connections'[i] \in Clients
      BY <1>0, <1>6, PlaceType
    <3> QED
      BY <1>1, <1>3, <3>1 DEF NotAgain, Past, Waits
  <2>1. PICK j \in DOMAIN connections :
          i <= j /\ i \in Nat /\ j \in Nat /\ connections[j] = d /\ d # c
    BY <1>6
  <2>2. received'[d] = received[d]
    BY <1>2, <2>1
  <2>3. Doomed(u) => Doomed(u)'
    BY <1>2, <1>3 DEF Doomed
  <2>4. \/ j <= thread[u].at /\ (cpu = u => j < thread[u].at) /\ ~Waits(u, d)
        \/ Doomed(u)
        \/ /\ thread[u].event # received[d][k]
           /\ {thread[u].event, received[d][k]} \subseteq disturbed
    BY <2>1, <2>2 DEF BroadcastInv, NotAgain, Past
  <2>5. thread[u].at \in Nat /\ cpu # u
    BY <1>0, <1>1, FieldTypes, ThreadIds
  <2> QED
    BY <1>4, <2>1, <2>2, <2>3, <2>4, <2>5
<1>12. EventsInOrder'
  <2> SUFFICES ASSUME NEW d \in Clients, NEW i \in DOMAIN received'[d],
                      NEW j \in DOMAIN received'[d], i < j
               PROVE  \/ received'[d][i] < received'[d][j]
                      \/ /\ received'[d][i] # received'[d][j]
                         /\ {received'[d][i], received'[d][j]} \subseteq disturbed'
    BY DEF EventsInOrder
  <2>1. d # c
    BY <1>2
  <2> QED
    BY <1>2, <1>4, <2>1 DEF BroadcastInv, EventsInOrder
<1>13. Reached'
  BY <1>5 DEF Reached
<1>14. Complete'
  <2> SUFFICES ASSUME NEW d \in Clients, NEW e \in 1..logged, client'[d] = "up", joined'[d] < e,
                      ~OnItsWay(e), e \notin disturbed'
               PROVE  \E k \in DOMAIN received'[d] : received'[d][k] = e
    BY <1>1, <1>3 DEF Complete, Got, OnItsWay
  <2>1. d # c
    BY <1>2
  <2> QED
    BY <1>2, <1>4, <2>1 DEF BroadcastInv, Complete, Got
<1> QED
  BY <1>7, <1>8, <1>9, <1>10, <1>11, <1>12, <1>13, <1>14 DEF BroadcastInv

\* Those behind the first in the line keep their order.
LEMMA WakeAhead ==
  ASSUME Types, Waiters, NEW c \in Clients, sendlock[c] # <<>>,
         sendlock' = [sendlock EXCEPT ![c] = Tail(@)],
         NEW u \in Threads, NEW v \in Threads, NEW d \in Clients, Ahead(u, v, d)
  PROVE  Ahead(u, v, d)'
<1>1. CASE d # c
  BY <1>1, WakeEffect DEF Ahead
<1>2. CASE d = c
  <2> SUFFICES ASSUME NEW j \in DOMAIN sendlock'[c], NEW k \in DOMAIN sendlock'[c],
                      sendlock'[c][j] = u, sendlock'[c][k] = v
               PROVE  j < k
    BY <1>2 DEF Ahead
  <2>1. /\ DOMAIN sendlock'[c] = 1..(Len(sendlock[c]) - 1) /\ Len(sendlock[c]) \in Nat
        /\ DOMAIN sendlock[c] = 1..Len(sendlock[c])
        /\ \A i \in 1..(Len(sendlock[c]) - 1) : sendlock'[c][i] = sendlock[c][i + 1]
    BY WakeEffect, LockType
  <2>2. /\ j + 1 \in DOMAIN sendlock[c] /\ k + 1 \in DOMAIN sendlock[c]
        /\ sendlock[c][j + 1] = u /\ sendlock[c][k + 1] = v /\ j \in Nat /\ k \in Nat
    BY <2>1
  <2>3. j + 1 < k + 1
    BY <1>2, <2>2 DEF Ahead
  <2> QED
    BY <2>2, <2>3
<1> QED
  BY <1>1, <1>2

\* A step of a thread that is and stays outside the loop of broadcast, and
\* leaves the clients alone.
LEMMA BroadcastOutside ==
  ASSUME LineInv, BroadcastInv, NEW t \in Threads, OthersKeep(t), ~InBroadcast(t),
         ~InBroadcast(t)', cpu \in {t, NoThread}, cpu' \in {t, NoThread},
         UNCHANGED <<logged, client_vars>>
  PROVE  BroadcastInv'
<1>1. UNCHANGED <<connections, client, sendlock, received, joined, disturbed>>
  BY DEF client_vars
<1>2. \A u \in Threads \ {t}, c \in Clients : Waits(u, c)' <=> Waits(u, c)
  BY <1>1 DEF Waits
<1>3. \A u, v \in Threads \ {t}, c \in Clients : Ahead(u, v, c) => Ahead(u, v, c)'
  BY <1>1 DEF Ahead
<1> QED
  BY <1>1, <1>2, <1>3, BroadcastAside

LEMMA BroadcastRequest ==
  ASSUME LineInv, BroadcastInv, NEW t \in Threads,
         (t \in RestThreads /\ Request(t)) \/ (t = LOOP /\ Packet)
  PROVE  BroadcastInv'
<1>0. Types /\ Waiters
  BY DEF LineInv
<1>1. cpu = NoThread /\ ~InBroadcast(t) /\ UNCHANGED <<logged, client_vars>>
  BY RequestEffect DEF CanBegin, InBroadcast, log_vars
<1>2. CASE Return(t, "error")
  <2>1. OthersKeep(t) /\ cpu' = NoThread /\ thread'[t].steps = <<>>
    BY <1>0, <1>2, ReturnEffect
  <2>2. ~InBroadcast(t)'
    BY <2>1 DEF InBroadcast, Busy
  <2> QED
    BY <1>1, <2>1, <2>2, BroadcastOutside
<1>3. ASSUME NEW h \in {Log, Log \o <<"flush">> \o Log, <<"flush">> \o Log \o Log}, Begin(t, h)
      PROVE  BroadcastInv'
  <2>1. OthersKeep(t) /\ cpu' = t /\ thread'[t].at = 0
    BY <1>0, <1>3, HandlerSteps, BeginEffect
  <2>2. ~InBroadcast(t)'
    BY <2>1 DEF InBroadcast
  <2> QED
    BY <1>1, <2>1, <2>2, BroadcastOutside
<1> QED
  BY <1>2, <1>3, RequestEffect

\* The loop of the flush.
LEMMA BroadcastFlush ==
  ASSUME LineInv, BroadcastInv, NEW t \in Threads,
         \/ BeginFlush(t) \/ FlushRaises(t) \/ FlushEnds(t) \/ FlushTakes(t)
         \/ FlushSends(t) \/ FlushWaits(t) \/ FlushGoesOn(t)
  PROVE  BroadcastInv'
<1>0. Types /\ Waiters
  BY DEF LineInv
<1>1. UNCHANGED <<logged, client_vars>>
  BY DEF BeginFlush, FlushRaises, FlushEnds, FlushTakes, FlushSends, FlushWaits, FlushGoesOn,
         log_vars
<1>2. Busy(t) /\ Head(thread[t].steps) = "flush"
  BY <1>0 DEF BeginFlush, FlushRaises, FlushEnds, FlushTakes, FlushSends, FlushWaits,
              FlushGoesOn, InFlush, Doing, Waiters
<1>3. ~InBroadcast(t) /\ ~SendWaits(t)
  BY <1>2 DEF InBroadcast, SendWaits, Broadcasting, Doing
<1>4. OthersKeep(t) /\ cpu \in {t, NoThread} /\ cpu' \in {t, NoThread}
  BY <1>0, <1>3, RunEffect DEF Runs
<1>5. \/ thread'[t].steps = thread[t].steps
      \/ thread'[t].steps = <<>>
      \/ thread'[t].at = 0
  <2>1. CASE BeginFlush(t)
    BY <1>0, <2>1, BeginFlushEffect, FieldTypes DEF Thread
  <2>2. CASE FlushRaises(t)
    BY <1>0, <2>2, ReturnEffect DEF FlushRaises, Fails
  <2>3. CASE FlushEnds(t)
    BY <1>0, <1>2, <2>3, NextStepEffect DEF FlushEnds, InFlush, Doing
  <2>4. CASE FlushTakes(t)
    BY <1>0, <2>4, FlushTakesEffect, FieldTypes DEF Thread
  <2>5. CASE FlushSends(t)
    BY <1>0, <2>5, FlushSendsEffect, FieldTypes DEF Thread
  <2>6. CASE FlushWaits(t) \/ FlushGoesOn(t)
    BY <2>6 DEF FlushWaits, FlushGoesOn
  <2> QED
    BY <2>1, <2>2, <2>3, <2>4, <2>5, <2>6
<1>6. ~InBroadcast(t)'
  BY <1>2, <1>5 DEF InBroadcast, Busy
<1> QED
  BY <1>1, <1>3, <1>4, <1>6, BroadcastOutside

\* The loop of broadcast ends, or an exception ends it.
LEMMA BroadcastStops ==
  ASSUME LineInv, BroadcastInv, NEW t \in Threads, BroadcastEnds(t) \/ SendRaises(t)
  PROVE  BroadcastInv'
<1>0. Types /\ Waiters
  BY DEF LineInv
<1>1. /\ UNCHANGED <<logged, connections, client, sendlock, received, joined>>
      /\ cpu = t /\ Busy(t) /\ thread[t].at > 0
      /\ \/ thread[t].at > Len(connections) /\ UNCHANGED disturbed
         \/ disturbed' = disturbed \cup Undelivered(t)
  BY DEF BroadcastEnds, SendRaises, Broadcasting, Doing, log_vars, client_vars
<1>2. ~InBroadcast(t)' /\ OthersKeep(t) /\ cpu' \in {t, NoThread}
  <2>1. CASE BroadcastEnds(t)
    <3>1. thread'[t].at = 0 /\ OthersKeep(t) /\ cpu' \in {t, NoThread}
      BY <1>0, <1>1, <2>1, NextStepEffect DEF BroadcastEnds
    <3> QED
      BY <3>1 DEF InBroadcast
  <2>2. CASE SendRaises(t)
    <3>1. thread'[t].steps = <<>> /\ OthersKeep(t) /\ cpu' = NoThread
      BY <1>0, <2>2, ReturnEffect DEF SendRaises, Fails
    <3> QED
      BY <3>1 DEF InBroadcast, Busy
  <2> QED
    BY <2>1, <2>2
<1>3. /\ disturbed \subseteq disturbed'
      /\ \A e \in disturbed' : e \in disturbed \/ (InBroadcast(t) /\ e = thread[t].event)
      /\ InBroadcast(t) => thread[t].event \in disturbed' \/ thread[t].at > Len(connections)
  BY <1>1 DEF Undelivered, InBroadcast
<1>4. \A u \in Threads \ {t}, c \in Clients : Waits(u, c)' <=> Waits(u, c)
  BY <1>1 DEF Waits
<1>5. \A u, v \in Threads \ {t}, c \in Clients : Ahead(u, v, c) => Ahead(u, v, c)'
  BY <1>1 DEF Ahead
<1> QED
  BY <1>1, <1>2, <1>3, <1>4, <1>5, BroadcastAside

LEMMA BroadcastSend ==
  ASSUME LineInv, BroadcastInv, NEW t \in Threads, SendAtOnce(t)
  PROVE  BroadcastInv'
<1>0. Types /\ Listed /\ Waiters
  BY DEF LineInv
<1>1. PICK p \in DOMAIN connections : p = thread[t].at
  BY <1>0, FieldTypes, ConnectionsType DEF SendAtOnce, Broadcasting
<1>2. PICK c \in Clients : c = connections[p]
  BY <1>0, PlaceType
<1>3. /\ cpu = t /\ cpu' = t /\ Busy(t) /\ thread[t].at > 0
      /\ UNCHANGED <<logged, connections, client, sendlock, joined, disturbed>>
      /\ client[c] = "up" /\ sendlock[c] = <<>> /\ received' = Delivered(t, c)
  BY <1>1, <1>2 DEF SendAtOnce, Broadcasting, Doing, Current, log_vars
<1>4. /\ OthersKeep(t) /\ thread'[t].at = thread[t].at + 1
      /\ thread'[t].steps = thread[t].steps /\ thread'[t].event = thread[t].event
  BY <1>0, AdvanceEffect, FieldTypes DEF SendAtOnce, Thread
<1>5. /\ \A u \in Threads, d \in Clients : Waits(u, d)' <=> Waits(u, d)
      /\ \A u, v \in Threads, d \in Clients : Ahead(u, v, d) => Ahead(u, v, d)'
  BY <1>3 DEF Waits, Ahead
<1>6. CASE Head(thread[t].steps) # "event"
  <2>1. ~InBroadcast(t) /\ ~InBroadcast(t)' /\ received' = received
    BY <1>3, <1>4, <1>6 DEF InBroadcast, Delivered
  <2> QED
    BY <1>3, <1>4, <2>1, BroadcastOutside DEF client_vars
<1>7. CASE Head(thread[t].steps) = "event"
  <2>1. InBroadcast(t) /\ received' = [received EXCEPT ![c] = Append(@, thread[t].event)]
    BY <1>3, <1>7 DEF InBroadcast, Delivered
  <2>2. \A d \in Clients : ~Waits(t, d) /\ ~Waits(t, d)'
    BY <1>0, <1>3, <1>5 DEF Waiters
  <2>3. p <= thread[t].at /\ ~Past(t, p) /\ ~Doomed(t)
    BY <1>0, <1>1, <1>3, <2>2, PlaceType DEF Past, Doomed
  <2>4. \A u \in Threads \ {t} : ~Waits(u, c)
    BY <1>3 DEF Waits
  <2>5. ASSUME NEW u \in Threads \ {t}, Undisturbed(u), thread[t].event < thread[u].event
        PROVE  thread[u].at <= thread[t].at
    <3>1. thread[u].at < thread[t].at
      BY <1>3, <2>1, <2>5 DEF BroadcastInv, Behind
    <3> QED
      BY <1>0, <3>1, FieldTypes
  <2> QED
    BY <1>1, <1>2, <1>3, <1>4, <1>5, <2>1, <2>2, <2>3, <2>4, <2>5, BroadcastDeliver
<1> QED
  BY <1>6, <1>7

\* The send that was waiting completes.
LEMMA BroadcastDone ==
  ASSUME LineInv, BroadcastInv, NEW c \in Clients, SendDone(c)
  PROVE  BroadcastInv'
<1>0. Types /\ Listed /\ Waiters
  BY DEF LineInv
<1>1. PICK t \in Threads : t = Head(sendlock[c])
  BY <1>0, DoneEffect
<1>2. /\ Waits(t, c) /\ InSend(t) /\ cpu = NoThread /\ cpu' = t /\ client[c] = "up"
      /\ sendlock[c] # <<>> /\ sendlock' = [sendlock EXCEPT ![c] = Tail(@)]
      /\ received' = Delivered(t, c) /\ OthersKeep(t) /\ thread'[t].at = thread[t].at + 1
      /\ thread'[t].steps = thread[t].steps /\ thread'[t].event = thread[t].event
  BY <1>0, <1>1, DoneEffect
<1>3. UNCHANGED <<logged, connections, client, joined, disturbed>>
  BY DEF SendDone, log_vars
<1>4. \A u \in Threads, d \in Clients : Waits(u, d)' <=> Waits(u, d) /\ ~(u = t /\ d = c)
  BY <1>0, <1>1, <1>2, WakeEffect
<1>5. \A d \in Clients : Waits(t, d) => d = c
  BY <1>0, <1>2 DEF Waiters
<1>6. /\ \A u \in Threads \ {t}, d \in Clients : Waits(u, d)' <=> Waits(u, d)
      /\ \A d \in Clients : ~Waits(t, d)'
  BY <1>4, <1>5
<1>7. \A u, v \in Threads, d \in Clients : Ahead(u, v, d) => Ahead(u, v, d)'
  BY <1>0, <1>2, WakeAhead
<1>8. CASE Head(thread[t].steps) # "event"
  <2>1. ~InBroadcast(t) /\ ~InBroadcast(t)' /\ received' = received
    BY <1>2, <1>8 DEF InBroadcast, Delivered
  <2> QED
    BY <1>2, <1>3, <1>6, <1>7, <2>1, BroadcastAside
<1>9. CASE Head(thread[t].steps) = "event"
  <2>1. InBroadcast(t) /\ received' = [received EXCEPT ![c] = Append(@, thread[t].event)]
    BY <1>2, <1>9 DEF InBroadcast, InSend, Delivered
  <2>2. PICK p \in DOMAIN connections : connections[p] = c
    BY <1>0, <1>2 DEF Listed
  <2>3. p <= thread[t].at /\ (Undisturbed(t) => p = thread[t].at)
    BY <1>0, <1>2, <2>1, <2>2 DEF BroadcastInv, Position, Listed
  <2>4. ~Past(t, p)
    BY <1>2, <2>2 DEF Past
  <2>5. ~Doomed(t)
    BY <1>2, <1>5 DEF Doomed
  \* Nobody is before the first in the line.
  <2>6. ASSUME NEW u \in Threads \ {t}, Waits(u, c), Ahead(u, t, c) PROVE FALSE
    <3>1. 1 \in DOMAIN sendlock[c] /\ sendlock[c][1] = t /\ DOMAIN sendlock[c] \subseteq Nat \ {0}
      BY <1>0, <1>1, <1>2, WakeEffect, LockType
    <3>2. PICK j \in DOMAIN sendlock[c] : sendlock[c][j] = u
      BY <2>6 DEF Waits
    <3>3. j < 1
      BY <2>6, <3>1, <3>2 DEF Ahead
    <3> QED
      BY <3>1, <3>3
  <2>7. ASSUME NEW u \in Threads \ {t}, Undisturbed(u), thread[t].event < thread[u].event
        PROVE  thread[u].at <= thread[t].at
    <3>1. thread[u].at <= p
      BY <1>2, <2>1, <2>2, <2>7 DEF BroadcastInv, Behind
    <3> QED
      BY <1>0, <2>3, <3>1, FieldTypes, PlaceType
  <2> QED
    BY <1>2, <1>3, <1>6, <1>7, <2>1, <2>2, <2>3, <2>4, <2>5, <2>6, <2>7, BroadcastDeliver
<1> QED
  BY <1>8, <1>9

\* The send that was waiting fails.
LEMMA BroadcastFails ==
  ASSUME LineInv, BroadcastInv, NEW c \in Clients, WaitRaises(c)
  PROVE  BroadcastInv'
<1>0. Types /\ Listed /\ Waiters
  BY DEF LineInv
<1>1. PICK t \in Threads : t = Head(sendlock[c])
  BY <1>0, RaisesEffect
<1>2. /\ Waits(t, c) /\ InSend(t) /\ cpu = NoThread /\ cpu' = NoThread
      /\ sendlock[c] # <<>> /\ sendlock' = [sendlock EXCEPT ![c] = Tail(@)]
      /\ OthersKeep(t) /\ thread'[t].steps = <<>>
      /\ disturbed' = disturbed \cup Undelivered(t)
  BY <1>0, <1>1, RaisesEffect
<1>3. UNCHANGED <<logged, connections, client, received, joined>>
  BY DEF WaitRaises, log_vars
<1>4. \A u \in Threads, d \in Clients : Waits(u, d)' <=> Waits(u, d) /\ ~(u = t /\ d = c)
  BY <1>0, <1>1, <1>2, WakeEffect
<1>5. \A u, v \in Threads, d \in Clients : Ahead(u, v, d) => Ahead(u, v, d)'
  BY <1>0, <1>2, WakeAhead
<1>6. ~InBroadcast(t)'
  BY <1>2 DEF InBroadcast, Busy
<1>7. /\ disturbed \subseteq disturbed'
      /\ \A e \in disturbed' : e \in disturbed \/ (InBroadcast(t) /\ e = thread[t].event)
      /\ InBroadcast(t) => thread[t].event \in disturbed'
  BY <1>2 DEF Undelivered, InBroadcast, InSend
<1> QED
  BY <1>2, <1>3, <1>4, <1>5, <1>6, <1>7, BroadcastAside

LEMMA BroadcastInit == Init => BroadcastInv
<1> SUFFICES ASSUME Init PROVE BroadcastInv
  OBVIOUS
<1>1. \A t \in Threads : ~InBroadcast(t)
  BY DEF Init, Idle, InBroadcast, Busy
<1>2. \A c \in Clients : received[c] = <<>> /\ joined[c] <= logged
  BY DEF Init
<1>3. connections = <<>> /\ logged = 0 /\ disturbed = {}
  BY DEF Init
<1>4. Numbered /\ Position /\ Distinct /\ EventsInOrder
  BY <1>1, <1>2, <1>3 DEF Numbered, Position, Distinct, EventsInOrder
<1>5. Behind /\ NotAgain /\ Reached /\ Complete
  BY <1>1, <1>3 DEF Behind, NotAgain, Reached, Complete, Undisturbed
<1> QED
  BY <1>4, <1>5 DEF BroadcastInv

LEMMA BroadcastNext == LineInv /\ BroadcastInv /\ [Next]_vars => BroadcastInv'
<1> SUFFICES ASSUME LineInv, BroadcastInv, [Next]_vars PROVE BroadcastInv'
  OBVIOUS
<1>1. ASSUME NEW t \in Threads, (t \in RestThreads /\ Request(t)) \/ (t = LOOP /\ Packet)
      PROVE  BroadcastInv'
  BY <1>1, BroadcastRequest
<1>2. ASSUME NEW t \in Threads, Runs(t) PROVE BroadcastInv'
  <2>1. CASE BeginStats(t)
    <3>0. Types /\ Waiters
      BY DEF LineInv
    <3>1. /\ cpu = t /\ cpu' = t /\ Busy(t) /\ Head(thread[t].steps) = "stats"
          /\ UNCHANGED <<logged, client_vars>>
      BY <2>1 DEF BeginStats, Doing, log_vars
    <3>2. OthersKeep(t) /\ thread'[t].steps = thread[t].steps
      <4>1. OthersKeep(t) /\ thread[t] \in Thread /\ thread'[t] = [thread[t] EXCEPT !.at = 1]
        BY <2>1, <3>0, MoveEffect, FieldTypes DEF BeginStats
      <4> QED
        BY <4>1 DEF Thread
    <3>3. ~InBroadcast(t) /\ ~InBroadcast(t)'
      BY <3>1, <3>2 DEF InBroadcast
    <3> QED
      BY <3>1, <3>2, <3>3, BroadcastOutside
  <2> QED
    BY <1>2, <2>1, BroadcastAppend, BroadcastStops, BroadcastSend, BroadcastQueue, BroadcastFlush
       DEF Runs
<1>3. ASSUME NEW c \in Clients,
             SendDone(c) \/ WaitRaises(c) \/ Join(c) \/ Break(c) \/ Leave(c)
      PROVE  BroadcastInv'
  BY <1>3, BroadcastDone, BroadcastFails, BroadcastJoin, BroadcastBreak, BroadcastLeave
<1>4. ASSUME UNCHANGED <<cpu, thread, log_vars, client_vars>> PROVE BroadcastInv'
  <2>1. UNCHANGED <<cpu, thread, logged, connections, client, sendlock, received, joined, disturbed>>
    BY <1>4 DEF log_vars, client_vars
  <2>2. Numbered' /\ Position' /\ Distinct' /\ EventsInOrder'
    BY <2>1 DEF BroadcastInv, Numbered, Position, Distinct, EventsInOrder, InBroadcast, Busy,
                Undisturbed, Waits
  <2>3. Behind' /\ NotAgain'
    BY <2>1 DEF BroadcastInv, Behind, NotAgain, Past, Doomed, Ahead, InBroadcast, Busy,
                Undisturbed, Waits
  <2>4. Reached' /\ Complete'
    BY <2>1 DEF BroadcastInv, Reached, Complete, Got, OnItsWay, InBroadcast, Busy, Undisturbed
  <2> QED
    BY <2>2, <2>3, <2>4 DEF BroadcastInv
<1>5. ASSUME NEW s \in Switches, SwitchHandshake(s) PROVE BroadcastInv'
  BY <1>4, <1>5 DEF SwitchHandshake
<1>6. CASE UNCHANGED vars
  BY <1>4, <1>6 DEF vars
<1> QED
  BY <1>1, <1>2, <1>3, <1>5, <1>6, ThreadIds DEF Next

\* A client gets no event of _log twice, and gets them in the order of the log,
\* for any number of threads in WebSocketManager.broadcast at the same time and
\* whatever clients join, break and leave; only two events that were both under
\* way when a client left may change places.
THEOREM EventsStayInOrder == Spec => []EventsInOrder
<1>1. BroadcastInv => EventsInOrder
  BY DEF BroadcastInv
<1> QED
  BY <1>1, LineInit, LineNext, BroadcastInit, BroadcastNext, PTL DEF Spec

\* A WebSocket client that stays connected misses an event of _log only when
\* its broadcast was cut short by an exception of some send, or another client
\* left the list of connections while the broadcast ran over it.
THEOREM OnlyDisturbedAreMissed == Spec => []MissedOnlyWhenDisturbed
<1>1. LineInv /\ BroadcastInv => MissedOnlyWhenDisturbed
  <2> SUFFICES ASSUME LineInv, BroadcastInv, NEW c \in Clients, NEW e \in 1..MaxEvents,
                      Missed(c, e), e \notin disturbed
               PROVE  FALSE
    BY DEF MissedOnlyWhenDisturbed
  <2>1. joined[c] \in Nat /\ logged \in Nat
    BY DEF LineInv, Types
  <2>2. /\ client[c] = "up" /\ e \in (joined[c] + 1)..logged /\ ~OnItsWay(e)
        /\ e \notin ToSet(received[c])
    BY DEF Missed
  <2>3. e \in 1..logged /\ joined[c] < e
    BY <2>1, <2>2
  <2>4. Got(c, e)
    BY <2>2, <2>3 DEF BroadcastInv, Complete
  <2> QED
    BY <2>2, <2>4 DEF Got, ToSet
<1> QED
  BY <1>1, LineInit, LineNext, BroadcastInit, BroadcastNext, PTL DEF Spec
=============================================================================
