---------------------------- MODULE MonitorProofs ----------------------------
(***************************************************************************)
(* What is proved of the parts of services/monitor, for every value of     *)
(* their constants.  Each part has an inductive invariant of its own; a    *)
(* step of MonitorNext is a step of the part chosen at the start.  Of its  *)
(* kills: the escalator's lanes never have two terminates of one process   *)
(* in flight and keep the order of the closings; the kill memory hits the  *)
(* writer, or a process no probe could tell from it.  Of its lanes: queued *)
(* events are correlated in their order and none is left in the queue.     *)
(***************************************************************************)
EXTENDS MCMonitor, Integers, Sequences, FiniteSetTheorems, WellFoundedInduction,
        TLAPS

-------------------------------------------------------------------------------
(* Facts about numbers and finite sets.                                    *)

\* A set of naturals that is not empty has a least member.
LEMMA LeastNatural ==
  ASSUME NEW S, S \subseteq Nat, S # {}
  PROVE  \E m \in S : \A n \in S : m <= n
<1>1. PICK m \in S : \A n \in S : ~ (<<n, m>> \in OpToRel(<, Nat))
  BY NatLessThanWellFounded, WFMin
<1>2. ASSUME NEW n \in S PROVE m <= n
  <2>1. n \in Nat /\ m \in Nat
    OBVIOUS
  <2>2. <<n, m>> \in Nat \X Nat /\ <<n, m>>[1] = n /\ <<n, m>>[2] = m
    BY <2>1
  <2>3. ~ (n < m)
    BY <1>1, <2>2 DEF OpToRel
  <2> QED BY <2>1, <2>3
<1> QED BY <1>2

\* What takes a member to a number is least at some member of a set that is
\* not empty.
LEMMA LeastMember ==
  ASSUME NEW S, S # {}, NEW f \in [S -> Nat]
  PROVE  \E m \in S : \A n \in S : f[m] <= f[n]
<1> DEFINE T == {f[x] : x \in S}
<1>1. T \subseteq Nat /\ T # {}
  OBVIOUS
<1>2. PICK k \in T : \A n \in T : k <= n
  BY <1>1, LeastNatural
<1> QED BY <1>2

\* A set with two members has more than one.
LEMMA TwoAreMore ==
  ASSUME NEW S, IsFiniteSet(S), NEW a \in S, NEW b \in S, a # b
  PROVE  Cardinality(S) > 1
<1>1. IsFiniteSet({a}) /\ Cardinality({a}) = 1
  BY FS_Singleton
<1>2. b \notin {a}
  OBVIOUS
<1>3. IsFiniteSet({a} \cup {b}) /\ Cardinality({a} \cup {b}) = 2
  BY <1>1, <1>2, FS_AddElement
<1>4. {a} \cup {b} \in SUBSET S
  OBVIOUS
<1>5. Cardinality({a} \cup {b}) <= Cardinality(S) /\ Cardinality(S) \in Nat
  BY <1>4, FS_Subset, FS_CardinalityType
<1> QED BY <1>3, <1>5

\* Taking the members of a finite set to others gives a finite set.
LEMMA ImageIsFinite ==
  ASSUME NEW S, IsFiniteSet(S), NEW f, DOMAIN f = S, f = [x \in S |-> f[x]]
  PROVE  IsFiniteSet({f[x] : x \in S})
<1> DEFINE T == {f[x] : x \in S}
<1>1. f \in Surjection(S, T)
  BY DEF Surjection
<1> QED BY <1>1, FS_Surjection

-------------------------------------------------------------------------------
(* The write log: what an answer promises.                                 *)

LEMMA WriteLogCardinality ==
  \A S : W!Cardinality(S) = Cardinality(S)
BY DEF W!Cardinality, Cardinality

\* What the log has lost was written no later than evictedThrough.
PushedOut ==
  \A w \in DOMAIN W_writes :
    w \notin W!Log => W_writes[w].at <= W_evictedThrough

\* An answer was given about the event that is there still, from the records
\* there were.
Asked ==
  /\ W_answer.seen <= Len(W_writes) /\ W_answer.at <= W_now
  /\ W_answer.conf = "certain" \/ ~W_answer.pending => W_event.read # W!None

\* Why a final answer that is not certain will stay so: its horizon was over
\* and nothing matched, or there were two writers, or records were lost.
NoMatch ==
  /\ W_answer.at >= W!Settle
  /\ \A w \in 1 .. W_answer.seen :
       w \in W!Log /\ W!InCompetition(w) => ~W!Matching(w)
TwoWriters ==
  \E v, w \in 1 .. W_answer.seen :
    /\ W!InCompetition(v) /\ W!InCompetition(w)
    /\ W_writes[v].pid # W_writes[w].pid
Doubted ==
  W_answer.conf # "certain" /\ ~W_answer.pending
    => NoMatch \/ TwoWriters \/ W!Overflowed

WriteLogInv ==
  W!TypeOK /\ PushedOut /\ Asked /\ Doubted /\ W!CertainIsSoleWriter

LEMMA LogIs ==
  ASSUME W!TypeOK, NEW w
  PROVE  w \in W!Log <=>
           w \in 1 .. Len(W_writes) /\ w > Len(W_writes) - W_maxlen
<1>1. DOMAIN W_writes = 1 .. Len(W_writes)
  BY DEF W!TypeOK
<1> QED BY <1>1 DEF W!Log

LEMMA WriteLogTypes ==
  ASSUME W!TypeOK, NEW w \in 1 .. Len(W_writes)
  PROVE  /\ W_writes[w].at \in W!WriteTime /\ W_writes[w].stamp \in W!Time
         /\ W_writes[w].pid \in W_Pid \cup {W!None}
<1> DEFINE R == [pid : W_Pid \cup {W!None}, at : W!WriteTime, stamp : W!Time]
<1>1. W_writes \in Seq(R)
  BY DEF W!TypeOK
<1>2. W_writes[w] \in R
  <2> HIDE DEF R
  <2> QED BY <1>1
<1> QED BY <1>2

LEMMA SpansAreNumbers ==
  ASSUME W!TypeOK
  PROVE  /\ W!LoMatch \in Int /\ W!LoCompete \in Int /\ W!Hi \in Int
         /\ W!Settle \in Int /\ W!LoCompete <= W!LoMatch
<1>1. W_event.observed \in Int /\ W_event.read \in Int
  BY DEF W!TypeOK, W!Time, W!None
<1>2. /\ W_Window \in Nat /\ W_Competition \in Nat /\ W_Competition >= W_Window
      /\ W_Tolerance \in Nat /\ W_Horizon \in Nat
  BY MonitorAssumption DEF MonitorAssumption, W!WriteLogAssumption
<1> QED BY <1>1, <1>2 DEF W!LoMatch, W!LoCompete, W!Hi, W!Settle

\* There is a newest match when there is any.
LEMMA NewestIsMatch ==
  ASSUME W!TypeOK, W!Matches # {}
  PROVE  W!Newest \in W!Matches
<1>1. /\ W!Matches \subseteq 1 .. Len(W_writes)
      /\ \A w \in W!Matches : W_writes[w].at \in -1 .. W_MaxNow
      /\ W_MaxNow \in Nat
  <2>1. \A w \in W!Matches : w \in DOMAIN W_writes
    BY DEF W!Matches, W!Relevant, W!Log
  <2>2. DOMAIN W_writes = 1 .. Len(W_writes)
    BY DEF W!TypeOK
  <2>3. \A w \in 1 .. Len(W_writes) : W_writes[w].at \in -1 .. W_MaxNow
    BY WriteLogTypes DEF W!WriteTime
  <2>4. W_MaxNow \in Nat
    BY MonitorAssumption DEF MonitorAssumption, W!WriteLogAssumption
  <2> QED BY <2>1, <2>2, <2>3, <2>4
<1> DEFINE age == [w \in W!Matches |-> W_MaxNow - W_writes[w].at]
<1>2. age \in [W!Matches -> Nat]
  BY <1>1
<1>3. PICK m \in W!Matches : \A w \in W!Matches : age[m] <= age[w]
  BY <1>2, LeastMember
<1>4. \A w \in W!Matches : W_writes[w].at <= W_writes[m].at
  <2> SUFFICES ASSUME NEW w \in W!Matches PROVE W_writes[w].at <= W_writes[m].at
    OBVIOUS
  <2>1. W_MaxNow - W_writes[m].at <= W_MaxNow - W_writes[w].at
    BY <1>3
  <2>2. W_writes[w].at \in Int /\ W_writes[m].at \in Int /\ W_MaxNow \in Int
    BY <1>1
  <2> QED BY <2>1, <2>2
<1> DEFINE T == {w \in W!Matches : W_writes[w].at = W_writes[m].at}
<1>5. T \subseteq Nat /\ T # {}
  <2>1. \A w \in W!Matches : w \in Nat
    BY <1>1
  <2> QED BY <2>1
<1>6. PICK k \in T : \A w \in T : k <= w
  BY <1>5, LeastNatural
<1>7. \A v \in W!Matches : \/ W_writes[v].at < W_writes[k].at
                           \/ W_writes[v].at = W_writes[k].at /\ k <= v
  BY <1>1, <1>4, <1>6
<1> QED BY <1>6, <1>7 DEF W!Newest

\* The writers in the competition window are finitely many.
LEMMA WritersAreFinite ==
  ASSUME W!TypeOK
  PROVE  IsFiniteSet(W!Writers)
<1>1. Len(W_writes) \in Int /\ DOMAIN W_writes = 1 .. Len(W_writes)
  BY DEF W!TypeOK
<1>2. IsFiniteSet(1 .. Len(W_writes))
  BY <1>1, FS_Interval
<1>3. W!Relevant \in SUBSET (1 .. Len(W_writes))
  BY <1>1 DEF W!Relevant, W!Log
<1>4. IsFiniteSet(W!Relevant)
  BY <1>2, <1>3, FS_Subset
<1> DEFINE f == [w \in W!Relevant |-> W_writes[w].pid]
<1>5. IsFiniteSet({f[w] : w \in W!Relevant})
  BY <1>4, ImageIsFinite
<1>6. {f[w] : w \in W!Relevant} = W!Writers
  BY DEF W!Writers
<1> QED BY <1>5, <1>6

LEMMA WriteLogInit == W!Init => WriteLogInv
<1> SUFFICES ASSUME W!Init PROVE WriteLogInv
  OBVIOUS
<1>1. W_writes = <<>> /\ Len(W_writes) = 0 /\ W_now = 0 /\ W_answer = W!Unasked
  BY DEF W!Init
<1>2. W!TypeOK
  BY <1>1, MonitorAssumption
  DEF W!Init, W!TypeOK, W!Unasked, W!None, W!Time, W!WriteTime, W!Long,
      MonitorAssumption, W!WriteLogAssumption
<1>3. PushedOut /\ Asked /\ Doubted /\ W!CertainIsSoleWriter
  BY <1>1
  DEF PushedOut, Asked, Doubted, W!CertainIsSoleWriter, W!Unasked, W!None
<1> QED BY <1>2, <1>3 DEF WriteLogInv

\* What the log says of old records does not change; the newest eviction only
\* grows.
LEMMA RecordStep ==
  ASSUME WriteLogInv, NEW p \in W_Pid \cup {W!None}, NEW at \in W!WriteTime,
         NEW stamp \in W!Time, W!Record(p, at, stamp)
  PROVE  WriteLogInv'
<1> DEFINE n == Len(W_writes)
           r == [pid |-> p, at |-> at, stamp |-> stamp]
           oldest == n - W_maxlen + 1
<1>1. /\ n < W_MaxRecord /\ n \in Nat /\ W_writes' = Append(W_writes, r)
      /\ W_evictedThrough' = IF oldest \in W!Log THEN W!NewestEvicted(oldest)
                             ELSE W_evictedThrough
      /\ UNCHANGED <<W_maxlen, W_now, W_event, W_answer>>
  BY DEF W!Record, WriteLogInv, W!TypeOK
<1>2. /\ r \in [pid : W_Pid \cup {W!None}, at : W!WriteTime, stamp : W!Time]
      /\ W_writes \in Seq([pid : W_Pid \cup {W!None}, at : W!WriteTime,
                           stamp : W!Time])
      /\ W_maxlen \in Nat \ {0}
      /\ W_evictedThrough \in Int
  BY DEF WriteLogInv, W!TypeOK, W!WriteTime, W!Long
<1>3. /\ Len(W_writes') = n + 1 /\ W_writes'[n + 1] = r
      /\ \A w \in 1 .. n : W_writes'[w] = W_writes[w]
      /\ DOMAIN W_writes' = 1 .. n + 1 /\ DOMAIN W_writes = 1 .. n
      /\ W_writes' \in Seq([pid : W_Pid \cup {W!None}, at : W!WriteTime,
                            stamp : W!Time])
  <2> HIDE DEF r
  <2> QED BY <1>1, <1>2
<1>4. \A w \in 1 .. n : W_writes[w].at \in W!WriteTime
  BY WriteLogTypes DEF WriteLogInv
<1>5. /\ oldest \in W!Log => oldest \in 1 .. n
      /\ W_evictedThrough' \in {W!Long} \cup W!WriteTime
      /\ W_evictedThrough' >= W_evictedThrough
      /\ oldest \in W!Log => W_evictedThrough' >= W_writes[oldest].at
  <2>1. oldest \in W!Log => oldest \in 1 .. n
    BY LogIs DEF WriteLogInv
  <2>2. W_evictedThrough \in {W!Long} \cup W!WriteTime
    BY DEF WriteLogInv, W!TypeOK
  <2> HIDE DEF oldest
  <2>3. oldest \in W!Log => W_writes[oldest].at \in W!WriteTime
    BY <1>4, <2>1
  <2>4. CASE oldest \in W!Log
    <3> DEFINE x == W_writes[oldest].at
    <3>1. x \in Int /\ x \in W!WriteTime
      BY <2>3, <2>4 DEF W!WriteTime
    <3>2. W_evictedThrough' = IF x > W_evictedThrough THEN x ELSE W_evictedThrough
      BY <1>1, <2>4 DEF W!NewestEvicted, oldest
    <3> HIDE DEF x
    <3>3. /\ W_evictedThrough' \in {W!Long} \cup W!WriteTime
          /\ W_evictedThrough' >= W_evictedThrough /\ W_evictedThrough' >= x
      BY <1>2, <2>2, <3>1, <3>2
    <3> QED BY <2>1, <3>3 DEF x
  <2>5. CASE oldest \notin W!Log
    BY <1>1, <1>2, <2>2, <2>5 DEF oldest
  <2> QED BY <2>4, <2>5
<1>6. W!TypeOK'
  <2>1. n + 1 <= W_MaxRecord
    BY <1>1, MonitorAssumption DEF MonitorAssumption, W!WriteLogAssumption
  <2>2. W!TypeOK /\ UNCHANGED <<W_maxlen, W_now, W_event, W_answer>>
    BY <1>1 DEF WriteLogInv
  <2>3. /\ W_maxlen' \in 1 .. W_MaxEntries /\ W_now' \in W!Time
        /\ W_writes' \in Seq([pid : W_Pid \cup {W!None}, at : W!WriteTime,
                             stamp : W!Time])
        /\ Len(W_writes') <= W_MaxRecord
        /\ W_evictedThrough' \in {W!Long} \cup W!WriteTime
    BY <1>3, <1>5, <2>1, <2>2 DEF W!TypeOK
  <2> QED BY <2>2, <2>3 DEF W!TypeOK
<1>15. \A w : w \in W!Log' <=> w \in 1 .. n + 1 /\ w > n + 1 - W_maxlen
  <2>1. \A w : w \in W!Log'
                <=> w \in DOMAIN W_writes' /\ w > Len(W_writes') - W_maxlen'
    BY DEF W!Log
  <2>2. /\ W_maxlen' = W_maxlen /\ Len(W_writes') = n + 1
        /\ DOMAIN W_writes' = 1 .. n + 1
    BY <1>1, <1>3
  <2>3. n \in Nat /\ W_maxlen \in Nat
    BY <1>1, <1>2
  <2> HIDE DEF n
  <2> QED BY <2>1, <2>2, <2>3
<1>7. \A w \in 1 .. n : w \in W!Log' => w \in W!Log
  <2>1. \A w \in 1 .. n : w \in W!Log' => w > n + 1 - W_maxlen
    BY <1>15
  <2>2. \A w \in 1 .. n : w > n - W_maxlen => w \in W!Log
    BY LogIs DEF WriteLogInv
  <2> QED BY <1>1, <1>2, <2>1, <2>2
<1>8. PushedOut'
  <2> SUFFICES ASSUME NEW w \in 1 .. n + 1, w \notin W!Log'
               PROVE  W_writes'[w].at <= W_evictedThrough'
    BY <1>3 DEF PushedOut
  <2>1. ~ (w > n + 1 - W_maxlen)
    BY <1>15
  <2>2. w \in 1 .. n
    BY <1>1, <1>2, <2>1
  <2>3. CASE w \notin W!Log
    <3>1. W_writes[w].at <= W_evictedThrough
      BY <1>3, <2>2, <2>3 DEF PushedOut, WriteLogInv
    <3>2. W_writes[w].at \in Int /\ W_evictedThrough' \in Int
      BY <1>4, <1>5, <2>2 DEF W!WriteTime, W!Long
    <3> QED BY <1>2, <1>3, <1>5, <2>2, <3>1, <3>2
  <2>4. CASE w \in W!Log
    <3>1. w > n - W_maxlen
      BY <2>4 DEF W!Log
    <3>2. w = oldest
      BY <1>1, <1>2, <2>1, <2>2, <3>1
    <3>3. W_writes[w].at \in Int /\ W_evictedThrough' \in Int
      BY <1>4, <1>5, <2>2 DEF W!WriteTime, W!Long
    <3>4. W_evictedThrough' >= W_writes[w].at
      BY <1>5, <2>4, <3>2
    <3> HIDE DEF oldest
    <3> QED BY <1>3, <2>2, <3>3, <3>4
  <2> QED BY <2>3, <2>4
<1>9. Asked'
  BY <1>1, <1>3 DEF WriteLogInv, Asked, W!TypeOK
<1>10. /\ W!Settle' = W!Settle /\ W!LoMatch' = W!LoMatch
       /\ W!LoCompete' = W!LoCompete /\ W!Hi' = W!Hi
       /\ W_answer' = W_answer
  BY <1>1 DEF W!Settle, W!LoMatch, W!LoCompete, W!Hi
<1>11. \A w \in 1 .. W_answer.seen :
         /\ w \in 1 .. n
         /\ W!InCompetition(w)' <=> W!InCompetition(w)
         /\ W!Matching(w)' <=> W!Matching(w)
  <2>1. W_answer.seen \in Nat /\ W_answer.seen <= n
    BY DEF WriteLogInv, Asked, W!TypeOK
  <2> SUFFICES ASSUME NEW w \in 1 .. W_answer.seen
               PROVE  /\ w \in 1 .. n
                      /\ W!InCompetition(w)' <=> W!InCompetition(w)
                      /\ W!Matching(w)' <=> W!Matching(w)
    OBVIOUS
  <2>2. w \in 1 .. n
    BY <1>1, <2>1
  <2>3. W_writes'[w] = W_writes[w]
    BY <1>3, <2>2
  <2>4. W!InCompetition(w)' <=> W!InCompetition(w)
    BY <1>10, <2>3 DEF W!InCompetition
  <2>5. W!Matching(w)' <=> W!Matching(w)
    BY <1>10, <2>3 DEF W!Matching
  <2> QED BY <2>2, <2>4, <2>5
<1>12. W!Overflowed => W!Overflowed'
  <2>1. W_evictedThrough' \in Int
    BY <1>5 DEF W!WriteTime, W!Long
  <2>2. W!LoCompete \in Int
    BY SpansAreNumbers DEF WriteLogInv
  <2>3. W_evictedThrough \in Int /\ W_evictedThrough' >= W_evictedThrough
    BY <1>2, <1>5
  <2>4. W!LoCompete' = W!LoCompete
    BY <1>10
  <2> QED BY <2>1, <2>2, <2>3, <2>4 DEF W!Overflowed
<1>13. Doubted'
  <2> SUFFICES ASSUME Doubted, W_answer.conf # "certain", ~W_answer.pending
               PROVE  NoMatch' \/ TwoWriters' \/ W!Overflowed'
    BY <1>10 DEF Doubted, WriteLogInv
  <2>1. ASSUME NoMatch PROVE NoMatch'
    BY <1>7, <1>10, <1>11, <2>1 DEF NoMatch
  <2>2. ASSUME TwoWriters PROVE TwoWriters'
    BY <1>3, <1>10, <1>11, <2>2 DEF TwoWriters
  <2> QED BY <1>12, <2>1, <2>2 DEF Doubted
<1>14. W!CertainIsSoleWriter'
  <2>1. W!CertainIsSoleWriter
    BY DEF WriteLogInv
  <2> QED BY <1>3, <1>10, <1>11, <2>1 DEF W!CertainIsSoleWriter
<1> QED BY <1>6, <1>8, <1>9, <1>13, <1>14 DEF WriteLogInv

\* The time and the event do not change what was said.
LEMMA TickStep ==
  ASSUME WriteLogInv, W!Tick
  PROVE  WriteLogInv'
<1>1. /\ W_now < W_MaxNow /\ W_now' = W_now + 1
      /\ UNCHANGED <<W_maxlen, W_writes, W_evictedThrough, W_event, W_answer>>
  BY DEF W!Tick
<1>2. W!TypeOK'
  <2>1. W_now' \in W!Time
    BY <1>1, MonitorAssumption
    DEF WriteLogInv, W!TypeOK, W!Time, MonitorAssumption, W!WriteLogAssumption
  <2> QED BY <1>1, <2>1 DEF WriteLogInv, W!TypeOK
<1>3. Asked'
  <2>1. W_answer.at \in Int /\ W_now \in Int
    BY DEF WriteLogInv, W!TypeOK, W!Time, W!None
  <2> QED BY <1>1, <2>1 DEF WriteLogInv, Asked
<1>4. (PushedOut /\ Doubted /\ W!CertainIsSoleWriter)'
  BY <1>1
  DEF WriteLogInv, PushedOut, Doubted, NoMatch, TwoWriters, W!Overflowed,
      W!CertainIsSoleWriter, W!InCompetition, W!Matching, W!Log, W!LoMatch,
      W!LoCompete, W!Hi, W!Settle
<1> QED BY <1>2, <1>3, <1>4 DEF WriteLogInv

LEMMA ObserveStep ==
  ASSUME WriteLogInv, NEW observed \in W!Time, W!Observe(observed)
  PROVE  WriteLogInv'
<1>1. /\ W_event.read = W!None
      /\ W_event' = [observed |-> observed, read |-> W_now]
      /\ UNCHANGED <<W_maxlen, W_now, W_writes, W_evictedThrough, W_answer>>
  BY DEF W!Observe
<1>2. W_answer.conf # "certain" /\ W_answer.pending
  BY <1>1 DEF WriteLogInv, Asked
<1>3. W!TypeOK'
  BY <1>1 DEF WriteLogInv, W!TypeOK
<1>4. PushedOut' /\ Asked'
  BY <1>1, <1>2 DEF WriteLogInv, PushedOut, Asked, W!Log
<1>5. Doubted' /\ W!CertainIsSoleWriter'
  BY <1>1, <1>2 DEF Doubted, W!CertainIsSoleWriter
<1> QED BY <1>3, <1>4, <1>5 DEF WriteLogInv

Answers ==
  [conf : {"unknown", "probable", "certain"}, pid : W_Pid \cup {W!None},
   pending : BOOLEAN, at : W!Time \cup {W!None}, seen : 0 .. W_MaxRecord]

LEMMA AnswerIs ==
  ASSUME W!TypeOK, NEW conf \in {"unknown", "probable", "certain"},
         NEW pid \in W_Pid \cup {W!None}, NEW pending \in BOOLEAN,
         W_answer' = W!Says(conf, pid, pending)
  PROVE  /\ W_answer' \in Answers
         /\ W_answer'.conf = conf /\ W_answer'.pid = pid
         /\ W_answer'.pending = pending /\ W_answer'.at = W_now
         /\ W_answer'.seen = Len(W_writes)
<1>1. W_now \in W!Time /\ Len(W_writes) \in 0 .. W_MaxRecord
  BY DEF W!TypeOK
<1>2. W_answer' = [conf |-> conf, pid |-> pid, pending |-> pending,
                   at |-> W_now, seen |-> Len(W_writes)]
  BY DEF W!Says
<1> QED BY <1>1, <1>2 DEF Answers

\* What a look says, case by case.
LEMMA LookSays ==
  ASSUME WriteLogInv, NEW moment \in W!Time, W!Look(moment)
  PROVE  /\ W_event.read # W!None /\ W_answer'.at = W_now
         /\ W_answer'.seen = Len(W_writes)
         /\ W_answer'.conf = "certain" =>
              /\ moment >= W!Settle /\ W!Matches # {} /\ ~W!Overflowed
              /\ ~ (Cardinality(W!Writers) > 1)
              /\ W_answer'.pid = W_writes[W!Newest].pid
         /\ W_answer'.conf # "certain" /\ ~W_answer'.pending =>
              \/ W!Matches = {} /\ moment >= W!Settle
              \/ Cardinality(W!Writers) > 1 \/ W!Overflowed
         /\ W_answer' \in Answers
<1>1. W!Settle \in Int /\ moment \in Int
  BY SpansAreNumbers DEF WriteLogInv, W!Time
<1>2. W_now \in W!Time /\ Len(W_writes) \in 0 .. W_MaxRecord
  BY DEF WriteLogInv, W!TypeOK
<1>3. W!Matches # {} => W_writes[W!Newest].pid \in W_Pid \cup {W!None}
  <2> SUFFICES ASSUME W!Matches # {}
               PROVE  W_writes[W!Newest].pid \in W_Pid \cup {W!None}
    OBVIOUS
  <2>1. W!Newest \in W!Log
    BY NewestIsMatch DEF WriteLogInv, W!Matches, W!Relevant
  <2>2. W!Newest \in 1 .. Len(W_writes)
    BY <2>1, LogIs DEF WriteLogInv
  <2> QED BY <2>2, WriteLogTypes DEF WriteLogInv
<1> DEFINE arriving == moment < W!Settle
           named == W_writes[W!Newest].pid
<1>8. arriving \in BOOLEAN /\ (arriving <=> ~ (moment >= W!Settle))
  BY <1>1
<1>4. /\ W_event.read # W!None
      /\ W_answer' =
           IF W!Matches = {} THEN W!Says("unknown", W!None, arriving)
           ELSE IF Cardinality(W!Writers) > 1 THEN W!Says("probable", W!None, FALSE)
           ELSE IF W!Overflowed THEN W!Says("probable", named, FALSE)
           ELSE IF arriving THEN W!Says("probable", named, TRUE)
           ELSE W!Says("certain", named, FALSE)
  BY WriteLogCardinality DEF W!Look
<1> HIDE DEF named, arriving
<1>5. CASE W!Matches = {}
  <2>1. W_answer' = W!Says("unknown", W!None, arriving)
    BY <1>4, <1>5
  <2> QED BY <1>4, <1>5, <1>8, <2>1, AnswerIs DEF WriteLogInv
<1>6. CASE W!Matches # {} /\ Cardinality(W!Writers) > 1
  <2>1. W_answer' = W!Says("probable", W!None, FALSE)
    BY <1>4, <1>6
  <2> QED BY <1>4, <1>6, <2>1, AnswerIs DEF WriteLogInv
<1>7. CASE W!Matches # {} /\ ~ (Cardinality(W!Writers) > 1)
  <2>1. named \in W_Pid \cup {W!None}
    BY <1>3, <1>7 DEF named
  <2>2. CASE W!Overflowed
    <3>1. W_answer' = W!Says("probable", named, FALSE)
      BY <1>4, <1>7, <2>2
    <3> QED BY <1>4, <2>1, <2>2, <3>1, AnswerIs DEF WriteLogInv
  <2>3. CASE ~W!Overflowed /\ arriving
    <3>1. W_answer' = W!Says("probable", named, TRUE)
      BY <1>4, <1>7, <2>3
    <3> QED BY <1>4, <2>1, <3>1, AnswerIs DEF WriteLogInv
  <2>4. CASE ~W!Overflowed /\ ~arriving
    <3>1. W_answer' = W!Says("certain", named, FALSE)
      BY <1>4, <1>7, <2>4
    <3> QED
      BY <1>4, <1>7, <1>8, <2>1, <2>4, <3>1, AnswerIs DEF WriteLogInv, named
  <2> QED BY <2>2, <2>3, <2>4
<1> QED BY <1>5, <1>6, <1>7

\* Two members of the competition that are in the log are two writers.
LEMMA OneWriter ==
  ASSUME W!TypeOK, ~ (Cardinality(W!Writers) > 1),
         NEW v \in W!Relevant, NEW w \in W!Relevant
  PROVE  W_writes[v].pid = W_writes[w].pid
<1>1. W_writes[v].pid \in W!Writers /\ W_writes[w].pid \in W!Writers
  BY DEF W!Writers
<1> QED BY <1>1, TwoAreMore, WritersAreFinite

\* More than one writer are at least two.
LEMMA ManyWriters ==
  ASSUME W!TypeOK, Cardinality(W!Writers) > 1
  PROVE  \E v \in W!Relevant, w \in W!Relevant :
           W_writes[v].pid # W_writes[w].pid
<1> SUFFICES ASSUME \A v \in W!Relevant, w \in W!Relevant :
                      W_writes[v].pid = W_writes[w].pid
             PROVE  FALSE
  OBVIOUS
<1>1. CASE W!Relevant = {}
  <2>1. W!Writers = {}
    BY <1>1 DEF W!Writers
  <2> QED BY <2>1, FS_EmptySet
<1>2. ASSUME NEW v \in W!Relevant PROVE FALSE
  <2>1. W!Writers = {W_writes[v].pid}
    BY DEF W!Writers
  <2>2. Cardinality({W_writes[v].pid}) = 1
    BY FS_Singleton
  <2> QED BY <2>1, <2>2
<1> QED BY <1>1, <1>2

\* What has been logged, in competition and not doubted, is in the log still.
LEMMA StillLogged ==
  ASSUME WriteLogInv, ~W!Overflowed, NEW w \in 1 .. Len(W_writes),
         W!InCompetition(w)
  PROVE  w \in W!Relevant
<1>1. w \in DOMAIN W_writes
  BY DEF WriteLogInv, W!TypeOK
<1>2. /\ W!LoCompete \in Int /\ W_evictedThrough \in Int
      /\ W_writes[w].at \in Int
  BY SpansAreNumbers, WriteLogTypes
  DEF WriteLogInv, W!TypeOK, W!WriteTime, W!Long
<1>3. ~ (W_evictedThrough >= W!LoCompete) /\ W!LoCompete <= W_writes[w].at
  BY DEF W!Overflowed, W!InCompetition
<1>4. w \in W!Log
  BY <1>1, <1>2, <1>3 DEF WriteLogInv, PushedOut
<1> QED BY <1>4 DEF W!Relevant

LEMMA LookStep ==
  ASSUME WriteLogInv, NEW moment \in W!Time, W!Look(moment)
  PROVE  WriteLogInv'
<1>1. /\ UNCHANGED <<W_maxlen, W_now, W_writes, W_evictedThrough, W_event>>
      /\ moment <= W_now
  BY DEF W!Look
<1>2. /\ W_event.read # W!None /\ W_answer'.at = W_now
      /\ W_answer'.seen = Len(W_writes)
      /\ W_answer'.conf = "certain" =>
           /\ moment >= W!Settle /\ W!Matches # {} /\ ~W!Overflowed
           /\ ~ (Cardinality(W!Writers) > 1)
           /\ W_answer'.pid = W_writes[W!Newest].pid
      /\ W_answer'.conf # "certain" /\ ~W_answer'.pending =>
           \/ W!Matches = {} /\ moment >= W!Settle
           \/ Cardinality(W!Writers) > 1 \/ W!Overflowed
      /\ W_answer' \in Answers
  BY LookSays
<1>3. /\ W!Settle \in Int /\ moment \in Int /\ W_now \in Int
      /\ Len(W_writes) \in Nat /\ DOMAIN W_writes = 1 .. Len(W_writes)
  BY SpansAreNumbers DEF WriteLogInv, W!TypeOK, W!Time
<1>4. /\ W!Settle' = W!Settle /\ W!Log' = W!Log
      /\ W!Overflowed' <=> W!Overflowed
      /\ \A w \in 1 .. Len(W_writes) :
           /\ W!InCompetition(w)' <=> W!InCompetition(w)
           /\ W!Matching(w)' <=> W!Matching(w)
  BY <1>1
  DEF W!Settle, W!Log, W!Overflowed, W!InCompetition, W!Matching, W!LoMatch,
      W!LoCompete, W!Hi
<1>5. W!TypeOK' /\ PushedOut'
  BY <1>1, <1>2, <1>4 DEF WriteLogInv, W!TypeOK, PushedOut, Answers
<1>6. Asked'
  BY <1>1, <1>2, <1>3 DEF Asked
<1>7. Doubted'
  <2> SUFFICES ASSUME W_answer'.conf # "certain", ~W_answer'.pending
               PROVE  NoMatch' \/ TwoWriters' \/ W!Overflowed'
    BY DEF Doubted
  <2>1. CASE W!Overflowed
    BY <1>4, <2>1
  <2>2. CASE W!Matches = {} /\ moment >= W!Settle
    <3>1. W_answer'.at >= W!Settle'
      BY <1>1, <1>2, <1>3, <1>4, <2>2
    <3>2. \A w \in 1 .. W_answer'.seen :
            w \in W!Log /\ W!InCompetition(w) => ~W!Matching(w)
      BY <2>2 DEF W!Matches, W!Relevant
    <3>3. \A w \in 1 .. W_answer'.seen :
            w \in W!Log' /\ W!InCompetition(w)' => ~W!Matching(w)'
      BY <1>2, <1>4, <3>2
    <3> QED BY <3>1, <3>3 DEF NoMatch
  <2>3. CASE Cardinality(W!Writers) > 1
    <3>1. PICK v \in W!Relevant, w \in W!Relevant :
            W_writes[v].pid # W_writes[w].pid
      BY <2>3, ManyWriters DEF WriteLogInv
    <3>2. /\ v \in 1 .. W_answer'.seen /\ w \in 1 .. W_answer'.seen
          /\ W!InCompetition(v) /\ W!InCompetition(w)
      BY <1>2, <1>3 DEF W!Relevant, W!Log
    <3>3. W!InCompetition(v)' /\ W!InCompetition(w)'
      BY <1>2, <1>4, <3>2
    <3>4. W_writes'[v].pid # W_writes'[w].pid
      BY <1>1, <3>1
    <3> QED BY <3>2, <3>3, <3>4 DEF TwoWriters
  <2> QED BY <1>2, <2>1, <2>2, <2>3
<1>8. W!CertainIsSoleWriter'
  <2> SUFFICES ASSUME W_answer'.conf = "certain"
               PROVE  /\ W_answer'.at >= W!Settle'
                      /\ \A w \in 1 .. W_answer'.seen :
                           W!InCompetition(w)' /\ W_writes'[w].stamp <= W!Settle'
                             => W_writes'[w].pid = W_answer'.pid
    BY DEF W!CertainIsSoleWriter
  <2>1. W_answer'.at >= W!Settle'
    BY <1>1, <1>2, <1>3, <1>4
  <2>2. W!Newest \in W!Relevant
    BY <1>2, NewestIsMatch DEF WriteLogInv, W!Matches
  <2>3. ASSUME NEW w \in 1 .. Len(W_writes), W!InCompetition(w)
        PROVE  W_writes[w].pid = W_writes[W!Newest].pid
    BY <1>2, <2>2, <2>3, StillLogged, OneWriter DEF WriteLogInv
  <2>4. ASSUME NEW w \in 1 .. W_answer'.seen, W!InCompetition(w)'
        PROVE  W_writes'[w].pid = W_answer'.pid
    <3>1. w \in 1 .. Len(W_writes) /\ W!InCompetition(w)
      BY <1>2, <1>4, <2>4
    <3> QED BY <1>1, <1>2, <2>3, <3>1
  <2> QED BY <2>1, <2>4
<1> QED BY <1>5, <1>6, <1>7, <1>8 DEF WriteLogInv

LEMMA WriteLogStep == WriteLogInv /\ W!Next => WriteLogInv'
BY TickStep, RecordStep, ObserveStep, LookStep DEF W!Next

LEMMA WriteLogStays == WriteLogInv /\ UNCHANGED W_vars => WriteLogInv'
BY DEF WriteLogInv, W_vars, W!TypeOK, PushedOut, Asked, Doubted, NoMatch,
       TwoWriters, W!Overflowed, W!CertainIsSoleWriter, W!InCompetition,
       W!Matching, W!Log, W!LoMatch, W!LoCompete, W!Hi, W!Settle

\* A look after a final answer that was not certain finds no reason to be.
LEMMA LookRaisesNothing ==
  ASSUME WriteLogInv, NEW moment \in W!Time, W!Look(moment),
         W_answer.conf # "certain", ~W_answer.pending,
         \A w \in DOMAIN W_writes :
           w > W_answer.seen => W_writes[w].stamp > W_answer.at
  PROVE  W_answer'.conf # "certain"
<1> SUFFICES ASSUME W_answer'.conf = "certain" PROVE FALSE
  OBVIOUS
<1>1. /\ W!Matches # {} /\ ~W!Overflowed
      /\ ~ (Cardinality(W!Writers) > 1)
  BY LookSays
<1>2. /\ W_answer.seen \in Nat /\ W_answer.seen <= Len(W_writes)
      /\ Len(W_writes) \in Nat /\ DOMAIN W_writes = 1 .. Len(W_writes)
      /\ W_answer.at \in Int /\ W!Settle \in Int
  BY SpansAreNumbers DEF WriteLogInv, Asked, W!TypeOK, W!Time, W!None
<1>3. NoMatch \/ TwoWriters
  BY <1>1 DEF WriteLogInv, Doubted
<1>4. CASE TwoWriters
  <2>1. PICK v \in 1 .. W_answer.seen, w \in 1 .. W_answer.seen :
          /\ W!InCompetition(v) /\ W!InCompetition(w)
          /\ W_writes[v].pid # W_writes[w].pid
    BY <1>4 DEF TwoWriters
  <2>2. v \in 1 .. Len(W_writes) /\ w \in 1 .. Len(W_writes)
    BY <1>2
  <2>3. v \in W!Relevant /\ w \in W!Relevant
    BY <1>1, <2>1, <2>2, StillLogged
  <2> QED BY <1>1, <2>1, <2>3, OneWriter DEF WriteLogInv
<1>5. CASE NoMatch
  <2>1. PICK w \in W!Relevant : W!Matching(w)
    BY <1>1 DEF W!Matches
  <2>2. w \in W!Log /\ W!InCompetition(w) /\ w \in 1 .. Len(W_writes)
    BY <1>2 DEF W!Relevant, W!Log
  <2>3. W_writes[w].stamp <= W!Settle /\ W_writes[w].stamp \in Int
    BY <2>1, <2>2, WriteLogTypes DEF W!Matching, WriteLogInv, W!Time
  <2>4. CASE w <= W_answer.seen
    <3>1. w \in 1 .. W_answer.seen
      BY <1>2, <2>2, <2>4
    <3> QED BY <1>5, <2>1, <2>2, <3>1 DEF NoMatch
  <2>5. CASE ~ (w <= W_answer.seen)
    <3>1. W_writes[w].stamp > W_answer.at
      BY <1>2, <2>2, <2>5
    <3>2. W_answer.at >= W!Settle
      BY <1>5 DEF NoMatch
    <3> QED BY <1>2, <2>3, <3>1, <3>2
  <2> QED BY <2>4, <2>5
<1> QED BY <1>3, <1>4, <1>5

LEMMA WriteLogRaisesNothing ==
  WriteLogInv /\ (W!Next \/ UNCHANGED W_vars) => W!RaisesNothing
<1> SUFFICES ASSUME WriteLogInv, W!Next \/ UNCHANGED W_vars,
                    W_answer.conf # "certain", ~W_answer.pending,
                    \A w \in DOMAIN W_writes :
                      w > W_answer.seen => W_writes[w].stamp > W_answer.at
             PROVE  W_answer'.conf # "certain"
  BY DEF W!RaisesNothing
<1>1. ASSUME W_answer' = W_answer PROVE W_answer'.conf # "certain"
  BY <1>1
<1>2. CASE UNCHANGED W_vars
  BY <1>1, <1>2 DEF W_vars
<1>3. CASE W!Tick
  BY <1>1, <1>3 DEF W!Tick
<1>4. ASSUME NEW p \in W_Pid \cup {W!None}, NEW at \in W!WriteTime,
             NEW stamp \in W!Time, W!Record(p, at, stamp)
      PROVE  W_answer'.conf # "certain"
  BY <1>1, <1>4 DEF W!Record
<1>5. ASSUME NEW observed \in W!Time, W!Observe(observed)
      PROVE  W_answer'.conf # "certain"
  BY <1>1, <1>5 DEF W!Observe
<1>6. ASSUME NEW moment \in W!Time, W!Look(moment)
      PROVE  W_answer'.conf # "certain"
  BY <1>6, LookRaisesNothing
<1> QED BY <1>2, <1>3, <1>4, <1>5, <1>6 DEF W!Next

\* A certain answer names the only process that wrote the file in the
\* competition window, of all the records delivered before the horizon closed,
\* those the log has lost included.
THEOREM CertainNamesTheWriter == MonitorSpec => []CertainIsSoleWriter
<1> DEFINE Inv == part = "write_log" => WriteLogInv
<1>1. MonitorInit => Inv
  BY WriteLogInit DEF MonitorInit
<1>2. Inv /\ [MonitorNext]_monitorVars => Inv'
  BY WriteLogStep, WriteLogStays
  DEF MonitorNext, monitorVars, L_others, I_others, E_others, W_others, K_others
<1>3. Inv => CertainIsSoleWriter
  BY DEF CertainIsSoleWriter, WriteLogInv
<1> QED BY <1>1, <1>2, <1>3, PTL DEF MonitorSpec

\* An answer that may not change any more never becomes one that authorises a
\* kill, whatever is delivered late.
THEOREM FinalIsNeverRaised == MonitorSpec => NeverRaised
<1> DEFINE Inv == part = "write_log" => WriteLogInv
<1>1. MonitorInit => Inv
  BY WriteLogInit DEF MonitorInit
<1>2. Inv /\ [MonitorNext]_monitorVars => Inv'
  BY WriteLogStep, WriteLogStays
  DEF MonitorNext, monitorVars, L_others, I_others, E_others, W_others, K_others
<1>3. Inv /\ [MonitorNext]_monitorVars
        => [part = "write_log" => W!RaisesNothing]_monitorVars
  BY WriteLogRaisesNothing
  DEF MonitorNext, monitorVars, L_others, I_others, E_others, W_others, K_others
<1> QED BY <1>1, <1>2, <1>3, PTL DEF MonitorSpec, NeverRaised

-------------------------------------------------------------------------------
(* The kills.                                                              *)

LEMMA KillMemoryHolds ==
  /\ K_Tolerance \in Nat /\ K_MaxKills \in Nat \ {0} /\ K_Attempts \in Nat \ {0}
  /\ K_MaxProc \in Nat /\ K_MaxQuestion \in Nat /\ K_MaxNow \in Nat
BY MonitorAssumption DEF MonitorAssumption, K!KillMemoryAssumption

-------------------------------------------------------------------------------
(* The kill memory: what is known of its questions, its attempt under way  *)
(* and the kills it remembers.                                             *)

QuestKept ==
  \A q \in DOMAIN K_quest :
    K_quest[q].by \in DOMAIN K_proc /\ K_quest[q].written <= K_now

HitsKept ==
  \A hit \in K_hits : hit.q \in DOMAIN K_quest /\ hit.who \in DOMAIN K_proc

\* The process that had the PID when a question closed had started by its
\* write or runs the image of its writer.
SeenFor(q, i) ==
  /\ q \in DOMAIN K_quest /\ i \in DOMAIN K_proc
  /\ K!OldEnough(i, q) \/ K_proc[i].image = K!ImageOf(q)
ClosedOn == SeenFor(K_act.q, K_act.closed)
LaneKept == \A n \in DOMAIN K_lane : SeenFor(K_lane[n].q, K_lane[n].closed)

\* A process that had the PID at a time wrote after whoever had it before.
OwnedAt(i, at) ==
  \A q \in DOMAIN K_quest : K_quest[q].written < at => K_quest[q].by <= i

\* What the last probe saw, if it saw anybody.
ProbeSaw ==
  K_act.saw # K!Gone =>
    /\ K_act.saw \in DOMAIN K_proc
    /\ K_act.started \in K!Starts(K_act.saw)
    /\ ~K!StartedAfter(K_act.started, K_act.q)
    /\ OwnedAt(K_act.saw, K_act.at)

AttemptKept ==
  /\ K_act.at <= K_now
  /\ K_act.st # "idle" => ClosedOn
  /\ K_act.st \in {"asked", "lost", "confirmed"} => ProbeSaw
  /\ K_act.st = "confirmed" =>
       \E hit \in K_hits :
         hit.saw = K_act.saw /\ K_fate[hit.who] = "killed"

\* Some request met another process than its probe.
Swapped == \E hit \in K_hits : hit.who # hit.saw

\* A remembered kill is of a process that was killed, had the PID at its time
\* and started when the kill says, if it does.
KillIsOf(e, k) ==
  /\ k \in DOMAIN K_proc /\ K_fate[k] = "killed"
  /\ e.created # K!Unread => K_proc[k].born = e.created
  /\ OwnedAt(k, e.at)
KillsKept ==
  \A n \in DOMAIN K_kills :
    /\ K_kills[n].at <= K_now
    /\ Swapped \/ \E k \in DOMAIN K_proc : KillIsOf(K_kills[n], k)

KillMemoryInv ==
  /\ K!TypeOK /\ Len(K_quest) <= K_MaxQuestion
  /\ QuestKept /\ HitsKept /\ LaneKept /\ AttemptKept /\ KillsKept
  /\ K!OnlyTheWriterIsKilled /\ K!TerminatedEarlierWasKilled

-------------------------------------------------------------------------------
(* The type invariant.                                                     *)

Births == [born : K!Time, image : K_Image]
Quests == [by : K!Proc, written : K!Time, read : K!Time, result : K!Result]
Acts == [st : {"idle", "probe", "ask", "asked", "lost", "confirmed"},
         q : 0 .. K_MaxQuestion, closed : 0 .. K_MaxProc, saw : 0 .. K_MaxProc,
         started : K!Time \cup {K!Unread}, at : K!Time]

LEMMA KillTypes ==
  ASSUME K!TypeOK
  PROVE  /\ K_now \in K!Time /\ K_now \in Int
         /\ K_proc \in Seq(Births) /\ Len(K_proc) <= K_MaxProc
         /\ Len(K_proc) \in Nat /\ DOMAIN K_proc = 1 .. Len(K_proc)
         /\ \A i \in DOMAIN K_proc : K_proc[i] \in Births
         /\ K_quest \in Seq(Quests) /\ DOMAIN K_quest = 1 .. Len(K_quest)
         /\ \A q \in DOMAIN K_quest : K_quest[q] \in Quests
         /\ K_lane \in Seq(K!Waiting) /\ K_act \in Acts
         /\ K_kills \in Seq(K!Entry) /\ DOMAIN K_kills = 1 .. Len(K_kills)
         /\ \A n \in DOMAIN K_kills : K_kills[n] \in K!Entry
<1>1. /\ K_now \in K!Time /\ K_proc \in Seq(Births) /\ Len(K_proc) <= K_MaxProc
      /\ K_quest \in Seq(Quests) /\ K_lane \in Seq(K!Waiting)
      /\ K_act \in Acts /\ K_kills \in Seq(K!Entry)
  BY DEF K!TypeOK, Births, Quests, Acts
<1>2. K_now \in Int
  BY <1>1 DEF K!Time
<1> QED BY <1>1, <1>2

LEMMA OwnerIs ==
  ASSUME K!TypeOK
  PROVE  /\ K!Owner \in 0 .. K_MaxProc /\ K!Owner \in Nat
         /\ K!Owner # K!Gone <=> K!Alive
         /\ K!Owner # K!Gone => K!Owner = Len(K_proc) /\ K!Owner \in DOMAIN K_proc
                                /\ K!Owner \in K!Proc
<1>1. /\ Len(K_proc) <= K_MaxProc /\ Len(K_proc) \in Nat
      /\ DOMAIN K_proc = 1 .. Len(K_proc)
  BY KillTypes
<1>2. CASE K!Alive
  BY <1>1, <1>2 DEF K!Owner, K!Alive, K!Gone, K!Proc
<1>3. CASE ~K!Alive
  <2>1. K!Owner = 0
    BY <1>3 DEF K!Owner, K!Gone
  <2>2. 0 \in 0 .. K_MaxProc
    BY KillMemoryHolds
  <2> QED BY <1>1, <1>3, <2>1, <2>2 DEF K!Gone
<1> QED BY <1>2, <1>3
\* The other fields of a question whose result is set.
LEMMA ClosesKeeps ==
  ASSUME K!TypeOK, NEW q \in DOMAIN K_quest, NEW result \in K!Result,
         K!Closes(q, result)
  PROVE  /\ K_quest' \in Seq(Quests) /\ Len(K_quest') = Len(K_quest)
         /\ DOMAIN K_quest' = DOMAIN K_quest
         /\ \A r \in DOMAIN K_quest :
              /\ K_quest'[r].by = K_quest[r].by
              /\ K_quest'[r].written = K_quest[r].written
              /\ K_quest'[r].read = K_quest[r].read
              /\ K_quest'[r].result = IF r = q THEN result ELSE K_quest[r].result
<1>1. /\ K_quest \in Seq(Quests) /\ DOMAIN K_quest = 1 .. Len(K_quest)
      /\ \A r \in DOMAIN K_quest : K_quest[r] \in Quests
  BY KillTypes
<1>2. K_quest' = [K_quest EXCEPT ![q].result = result]
  BY DEF K!Closes
<1>3. ASSUME NEW r \in DOMAIN K_quest
      PROVE  /\ K_quest'[r] \in Quests
             /\ K_quest'[r].by = K_quest[r].by
             /\ K_quest'[r].written = K_quest[r].written
             /\ K_quest'[r].read = K_quest[r].read
             /\ K_quest'[r].result = IF r = q THEN result ELSE K_quest[r].result
  BY <1>1, <1>2 DEF Quests
<1>4. DOMAIN K_quest' = DOMAIN K_quest
  BY <1>2
<1>5. Len(K_quest') = Len(K_quest) /\ K_quest' \in Seq(Quests)
  <2> HIDE DEF Quests
  <2>1. K_quest' = [r \in 1 .. Len(K_quest) |-> K_quest'[r]]
    BY <1>1, <1>2, <1>4
  <2> QED BY <1>1, <1>3, <1>4, <2>1
<1> QED BY <1>3, <1>4, <1>5

\* What an attempt that has not ended yet is.
LEMMA RestingIsAct == K!Resting \in Acts
BY KillMemoryHolds DEF K!Resting, Acts, K!Gone, K!Unread, K!Time

\* What is cut out of a sequence.
LEMMA CutIs ==
  ASSUME NEW S, NEW s \in Seq(S), NEW i \in Nat, NEW j \in Nat,
         1 <= i, i <= j + 1, j <= Len(s)
  PROVE  /\ SubSeq(s, i, j) \in Seq(S) /\ Len(SubSeq(s, i, j)) = j - i + 1
         /\ \A k \in 1 .. j - i + 1 : SubSeq(s, i, j)[k] = s[i + k - 1]
OBVIOUS

LEMMA ConcatIs ==
  ASSUME NEW S, NEW a \in Seq(S), NEW b \in Seq(S)
  PROVE  /\ a \o b \in Seq(S) /\ Len(a \o b) = Len(a) + Len(b)
         /\ \A i \in 1 .. Len(a) : (a \o b)[i] = a[i]
         /\ \A i \in 1 .. Len(b) : (a \o b)[Len(a) + i] = b[i]
OBVIOUS

LEMMA LastNIs ==
  ASSUME NEW S, NEW s \in Seq(S), NEW n \in Nat
  PROVE  /\ K!LastN(s, n) \in Seq(S) /\ Len(K!LastN(s, n)) <= n
         /\ \A i \in DOMAIN K!LastN(s, n) :
              \E j \in DOMAIN s : K!LastN(s, n)[i] = s[j]
<1>1. CASE Len(s) > n
  <2>1. K!LastN(s, n) = SubSeq(s, Len(s) - n + 1, Len(s))
    BY <1>1 DEF K!LastN
  <2>2. /\ Len(s) - n + 1 \in 1 .. Len(s) + 1 /\ Len(s) \in Nat
    BY <1>1
  <2>3. /\ SubSeq(s, Len(s) - n + 1, Len(s)) \in Seq(S)
        /\ Len(SubSeq(s, Len(s) - n + 1, Len(s))) = n
        /\ \A i \in 1 .. n :
             SubSeq(s, Len(s) - n + 1, Len(s))[i] = s[Len(s) - n + i]
    BY <2>2
  <2>4. \A i \in 1 .. n : Len(s) - n + i \in DOMAIN s
    BY <1>1
  <2>5. DOMAIN K!LastN(s, n) = 1 .. n /\ Len(K!LastN(s, n)) = n
    BY <2>1, <2>3
  <2>6. \A i \in DOMAIN K!LastN(s, n) :
          \E j \in DOMAIN s : K!LastN(s, n)[i] = s[j]
    BY <2>1, <2>3, <2>4, <2>5
  <2> QED BY <2>1, <2>3, <2>5, <2>6
<1>2. CASE ~ (Len(s) > n)
  <2>1. K!LastN(s, n) = s
    BY <1>2 DEF K!LastN
  <2> QED BY <1>2, <2>1
<1> QED BY <1>1, <1>2

LEMMA PoppedIs ==
  ASSUME K!TypeOK, NEW started
  PROVE  /\ K!Popped(started) \in Seq(K!Entry)
         /\ \A i \in DOMAIN K!Popped(started) :
              \E j \in DOMAIN K_kills : K!Popped(started)[i] = K_kills[j]
<1>1. K_kills \in Seq(K!Entry) /\ DOMAIN K_kills = 1 .. Len(K_kills)
  BY KillTypes
<1> DEFINE at == {k \in DOMAIN K_kills : K_kills[k].created = started}
           m == CHOOSE k \in at : TRUE
<1>2. CASE at = {}
  <2>1. K!Popped(started) = K_kills
    BY <1>2 DEF K!Popped
  <2> QED BY <1>1, <2>1
<1>3. CASE at # {}
  <2>1. m \in 1 .. Len(K_kills)
    BY <1>1, <1>3
  <2>2. K!Popped(started)
          = SubSeq(K_kills, 1, m - 1) \o SubSeq(K_kills, m + 1, Len(K_kills))
    BY <1>3 DEF K!Popped, K!RemoveAt
  <2> DEFINE a == SubSeq(K_kills, 1, m - 1)
             b == SubSeq(K_kills, m + 1, Len(K_kills))
  <2> HIDE DEF m
  <2>3. /\ a \in Seq(K!Entry) /\ Len(a) = m - 1
        /\ \A i \in 1 .. m - 1 : a[i] = K_kills[i]
    BY <1>1, <2>1
  <2>4. /\ b \in Seq(K!Entry) /\ Len(b) = Len(K_kills) - m
        /\ \A i \in 1 .. Len(K_kills) - m : b[i] = K_kills[m + i]
    <3>1. /\ m + 1 \in Nat /\ Len(K_kills) \in Nat
          /\ 1 <= m + 1 /\ m + 1 <= Len(K_kills) + 1
          /\ Len(K_kills) - (m + 1) + 1 = Len(K_kills) - m
          /\ \A i \in 1 .. Len(K_kills) - m : m + 1 + i - 1 = m + i
      BY <1>1, <2>1
    <3>2. /\ b \in Seq(K!Entry) /\ Len(b) = Len(K_kills) - (m + 1) + 1
          /\ \A i \in 1 .. Len(K_kills) - (m + 1) + 1 :
               b[i] = K_kills[m + 1 + i - 1]
      BY <1>1, <3>1, CutIs
    <3> HIDE DEF b
    <3> QED BY <3>1, <3>2
  <2>5. /\ a \o b \in Seq(K!Entry) /\ Len(a \o b) = Len(K_kills) - 1
        /\ \A i \in 1 .. m - 1 : (a \o b)[i] = a[i]
        /\ \A i \in 1 .. Len(K_kills) - m : (a \o b)[m - 1 + i] = b[i]
    <3>0. a \in Seq(K!Entry) /\ b \in Seq(K!Entry)
      BY <2>3, <2>4
    <3> HIDE DEF a, b
    <3>1. /\ a \o b \in Seq(K!Entry) /\ Len(a \o b) = Len(a) + Len(b)
          /\ \A i \in 1 .. Len(a) : (a \o b)[i] = a[i]
          /\ \A i \in 1 .. Len(b) : (a \o b)[Len(a) + i] = b[i]
      BY <3>0, ConcatIs
    <3>2. Len(a) = m - 1 /\ Len(b) = Len(K_kills) - m /\ m \in Int
          /\ Len(K_kills) \in Int
      BY <1>1, <2>1, <2>3, <2>4
    <3>3. Len(a) + Len(b) = Len(K_kills) - 1
      BY <3>2
    <3> QED BY <3>1, <3>2, <3>3
  <2>6. ASSUME NEW i \in DOMAIN (a \o b)
        PROVE  \E j \in DOMAIN K_kills : (a \o b)[i] = K_kills[j]
    <3>1. i \in 1 .. Len(K_kills) - 1
      BY <2>5
    <3>2. CASE i <= m - 1
      <4>1. i \in 1 .. m - 1 /\ i \in DOMAIN K_kills
        BY <1>1, <2>1, <3>1, <3>2
      <4> QED BY <2>3, <2>5, <4>1
    <3>3. CASE ~ (i <= m - 1)
      <4>1. /\ i - m + 1 \in 1 .. Len(K_kills) - m
            /\ i = m - 1 + (i - m + 1) /\ m + (i - m + 1) \in DOMAIN K_kills
        BY <1>1, <2>1, <3>1, <3>3
      <4> HIDE DEF a, b
      <4> QED BY <2>4, <2>5, <4>1
    <3> QED BY <3>2, <3>3
  <2> QED BY <2>2, <2>5, <2>6
<1> QED BY <1>2, <1>3

-------------------------------------------------------------------------------
(* What every step keeps.                                                  *)

Grows ==
  /\ \A i \in DOMAIN K_proc :
       /\ i \in DOMAIN K_proc' /\ K_proc'[i] = K_proc[i]
       /\ K_fate[i] = "killed" => K_fate'[i] = "killed"
  /\ \A q \in DOMAIN K_quest :
       /\ q \in DOMAIN K_quest' /\ K_quest'[q].by = K_quest[q].by
       /\ K_quest'[q].written = K_quest[q].written
  /\ \A q \in DOMAIN K_quest' \ DOMAIN K_quest :
       /\ K_quest'[q].by \in DOMAIN K_proc'
       /\ K_quest'[q].written = K_now
  /\ K_hits \subseteq K_hits' /\ K_now <= K_now' /\ K_now' \in Int

LEMMA GrowsIs ==
  ASSUME KillMemoryInv, Grows
  PROVE  /\ QuestKept'
         /\ \A i \in DOMAIN K_proc, q \in DOMAIN K_quest :
              /\ K!OldEnough(i, q)' <=> K!OldEnough(i, q)
              /\ K!ImageOf(q)' = K!ImageOf(q)
         /\ \A i \in DOMAIN K_proc, at \in Int :
              at <= K_now /\ OwnedAt(i, at) => OwnedAt(i, at)'
<1>1. /\ K_now \in Int /\ K!TypeOK
      /\ \A q \in DOMAIN K_quest : K_quest[q].written \in Int
  BY KillTypes DEF KillMemoryInv, Quests, K!Time
<1>2. QuestKept'
  <2> SUFFICES ASSUME NEW q \in DOMAIN K_quest'
               PROVE  /\ K_quest'[q].by \in DOMAIN K_proc'
                      /\ K_quest'[q].written <= K_now'
    BY DEF QuestKept
  <2>1. CASE q \in DOMAIN K_quest
    BY <1>1, <2>1 DEF Grows, KillMemoryInv, QuestKept
  <2>2. CASE q \notin DOMAIN K_quest
    BY <1>1, <2>2 DEF Grows
  <2> QED BY <2>1, <2>2
<1>3. ASSUME NEW i \in DOMAIN K_proc, NEW q \in DOMAIN K_quest
      PROVE  /\ K!OldEnough(i, q)' <=> K!OldEnough(i, q)
             /\ K!ImageOf(q)' = K!ImageOf(q)
  BY DEF Grows, K!OldEnough, K!ImageOf, KillMemoryInv, QuestKept
<1>4. ASSUME NEW i \in DOMAIN K_proc, NEW at \in Int, at <= K_now,
             OwnedAt(i, at)
      PROVE  OwnedAt(i, at)'
  <2> SUFFICES ASSUME NEW q \in DOMAIN K_quest', K_quest'[q].written < at
               PROVE  K_quest'[q].by <= i
    BY DEF OwnedAt
  <2>1. CASE q \in DOMAIN K_quest
    BY <1>4, <2>1 DEF Grows, OwnedAt
  <2>2. CASE q \notin DOMAIN K_quest
    BY <1>1, <1>4, <2>2 DEF Grows
  <2> QED BY <2>1, <2>2
<1> QED BY <1>2, <1>3, <1>4

LEMMA SeenStays ==
  ASSUME KillMemoryInv, Grows, NEW q, NEW i, SeenFor(q, i)
  PROVE  SeenFor(q, i)'
<1>1. q \in DOMAIN K_quest /\ i \in DOMAIN K_proc
  BY DEF SeenFor
<1> QED BY <1>1, GrowsIs DEF SeenFor, Grows

LEMMA KillsGrow ==
  ASSUME KillMemoryInv, Grows, NEW e \in K!Entry, e.at <= K_now,
         Swapped \/ \E k \in DOMAIN K_proc : KillIsOf(e, k)
  PROVE  /\ e.at <= K_now'
         /\ Swapped' \/ \E k \in DOMAIN K_proc' : KillIsOf(e, k)'
<1>1. K_now \in Int /\ e.at \in Int
  BY KillTypes DEF KillMemoryInv, K!Entry, K!Time
<1>2. e.at <= K_now'
  BY <1>1 DEF Grows
<1>3. CASE Swapped
  BY <1>2, <1>3 DEF Swapped, Grows
<1>4. ASSUME NEW k \in DOMAIN K_proc, KillIsOf(e, k) PROVE KillIsOf(e, k)'
  <2>1. OwnedAt(k, e.at)'
    BY <1>1, <1>4, GrowsIs DEF KillIsOf
  <2> QED BY <1>4, <2>1 DEF KillIsOf, Grows
<1>5. \A k \in DOMAIN K_proc : k \in DOMAIN K_proc'
  BY DEF Grows
<1> QED BY <1>2, <1>3, <1>4, <1>5

\* What is remembered of kills, as long as nothing is added to it.
LEMMA MemoryStays ==
  ASSUME KillMemoryInv, Grows, UNCHANGED K_kills
  PROVE  KillsKept'
<1>1. \A n \in DOMAIN K_kills : K_kills[n] \in K!Entry
  BY KillTypes DEF KillMemoryInv
<1> SUFFICES ASSUME NEW n \in DOMAIN K_kills
             PROVE  /\ K_kills[n].at <= K_now'
                    /\ Swapped' \/ \E k \in DOMAIN K_proc' : KillIsOf(K_kills[n], k)'
  BY DEF KillsKept, KillIsOf
<1> QED BY <1>1, KillsGrow DEF KillMemoryInv, KillsKept

LEMMA HitsStay ==
  ASSUME KillMemoryInv, Grows, UNCHANGED K_hits
  PROVE  HitsKept' /\ K!OnlyTheWriterIsKilled'
<1>1. HitsKept'
  BY DEF HitsKept, Grows, KillMemoryInv
<1>2. K!OnlyTheWriterIsKilled'
  <2> SUFFICES ASSUME NEW hit \in K_hits
               PROVE  \/ K!OldEnough(hit.who, hit.q)'
                      \/ hit.who # hit.saw
                      \/ /\ hit.started = K!Unread
                         /\ \/ hit.who # hit.closed
                            \/ K_proc'[hit.who].image = K!ImageOf(hit.q)'
    BY DEF K!OnlyTheWriterIsKilled, K!OldEnough, K!ImageOf
  <2>1. hit.q \in DOMAIN K_quest /\ hit.who \in DOMAIN K_proc
    BY DEF KillMemoryInv, HitsKept
  <2>2. /\ K!OldEnough(hit.who, hit.q)' <=> K!OldEnough(hit.who, hit.q)
        /\ K!ImageOf(hit.q)' = K!ImageOf(hit.q)
        /\ K_proc'[hit.who] = K_proc[hit.who]
    BY <2>1, GrowsIs DEF Grows
  <2> QED BY <2>2 DEF KillMemoryInv, K!OnlyTheWriterIsKilled
<1> QED BY <1>1, <1>2

\* A question is said to be terminated earlier only when it was before.
LEMMA EarlierStays ==
  ASSUME KillMemoryInv, Grows,
         \A q \in DOMAIN K_quest' :
           K_quest'[q].result = "terminated_earlier"
             => q \in DOMAIN K_quest /\ K_quest[q].result = "terminated_earlier"
  PROVE  K!TerminatedEarlierWasKilled'
<1> SUFFICES ASSUME NEW q \in DOMAIN K_quest',
                    K_quest'[q].result = "terminated_earlier",
                    \A hit \in K_hits' : hit.who = hit.saw,
                    \A i \in DOMAIN K_proc' :
                      i > K_quest'[q].by => ~K!OldEnough(i, q)'
             PROVE  K_fate'[K_quest'[q].by] = "killed"
  BY DEF K!TerminatedEarlierWasKilled, K!I, K!OldEnough
<1>1. /\ q \in DOMAIN K_quest /\ K_quest[q].result = "terminated_earlier"
      /\ K_quest'[q].by = K_quest[q].by /\ K_quest[q].by \in DOMAIN K_proc
      /\ \A hit \in K_hits : hit.who = hit.saw
  BY DEF Grows, KillMemoryInv, QuestKept
<1>2. \A i \in DOMAIN K_proc : i > K_quest[q].by => ~K!OldEnough(i, q)
  BY <1>1, GrowsIs DEF Grows
<1>3. K_fate[K_quest[q].by] = "killed"
  BY <1>1, <1>2 DEF KillMemoryInv, K!TerminatedEarlierWasKilled, K!I
<1> QED BY <1>1, <1>3 DEF Grows

LEMMA AttemptStays ==
  ASSUME KillMemoryInv, Grows, UNCHANGED K_act
  PROVE  AttemptKept'
<1>1. /\ K_now \in Int /\ K_act.at \in Int /\ K_act.at <= K_now
  BY KillTypes DEF KillMemoryInv, AttemptKept, Acts, K!Time
<1>2. K_act'.at <= K_now'
  BY <1>1 DEF Grows
<1>3. ASSUME ClosedOn PROVE ClosedOn'
  BY <1>3, GrowsIs DEF ClosedOn, SeenFor, Grows
<1>4. ASSUME ClosedOn, ProbeSaw PROVE ProbeSaw'
  <2> SUFFICES ASSUME K_act.saw # K!Gone
               PROVE  /\ K_act.saw \in DOMAIN K_proc'
                      /\ K_act.started \in K!Starts(K_act.saw)'
                      /\ ~K!StartedAfter(K_act.started, K_act.q)'
                      /\ OwnedAt(K_act.saw, K_act.at)'
    BY DEF ProbeSaw, K!Starts, K!StartedAfter, OwnedAt
  <2>1. /\ K_act.saw \in DOMAIN K_proc /\ K_act.started \in K!Starts(K_act.saw)
        /\ ~K!StartedAfter(K_act.started, K_act.q)
        /\ OwnedAt(K_act.saw, K_act.at) /\ K_act.q \in DOMAIN K_quest
    BY <1>3, <1>4 DEF ProbeSaw, ClosedOn, SeenFor
  <2>2. OwnedAt(K_act.saw, K_act.at)'
    BY <1>1, <2>1, GrowsIs
  <2> QED BY <2>1, <2>2 DEF Grows, K!Starts, K!StartedAfter
<1>5. K_act.st = "confirmed" =>
        \E hit \in K_hits' : hit.saw = K_act.saw /\ K_fate'[hit.who] = "killed"
  BY DEF KillMemoryInv, AttemptKept, HitsKept, Grows
<1> QED BY <1>2, <1>3, <1>4, <1>5 DEF KillMemoryInv, AttemptKept

LEMMA LaneStays ==
  ASSUME KillMemoryInv, Grows, UNCHANGED K_lane
  PROVE  LaneKept'
<1> SUFFICES ASSUME NEW n \in DOMAIN K_lane
             PROVE  SeenFor(K_lane[n].q, K_lane[n].closed)'
  BY DEF LaneKept, SeenFor, K!OldEnough, K!ImageOf
<1>1. SeenFor(K_lane[n].q, K_lane[n].closed)
  BY DEF KillMemoryInv, LaneKept
<1> DEFINE q == K_lane[n].q
           i == K_lane[n].closed
<1>2. q \in DOMAIN K_quest /\ i \in DOMAIN K_proc
  BY <1>1 DEF SeenFor
<1> QED BY <1>1, <1>2, SeenStays

-------------------------------------------------------------------------------
(* Step by step.                                                           *)

LEMMA KillMemoryInit == K!Init => KillMemoryInv
<1> SUFFICES ASSUME K!Init PROVE KillMemoryInv
  OBVIOUS
<1>1. K!TypeOK
  <2>1. K_act \in Acts
    BY RestingIsAct DEF K!Init
  <2>2. K_now \in K!Time
    BY KillMemoryHolds DEF K!Init, K!Time
  <2>3. /\ <<>> \in Seq(Births) /\ Len(<<>>) = 0 /\ <<>> \in Seq(Quests)
        /\ <<>> \in Seq(K!Entry)
    OBVIOUS
  <2> QED BY <2>1, <2>2, <2>3, KillMemoryHolds
          DEF K!Init, K!TypeOK, Acts, Births, Quests
<1>2. K_act.st = "idle" /\ K_act.at = 0
  BY DEF K!Init, K!Resting
<1> QED
  BY <1>1, <1>2, KillMemoryHolds
  DEF K!Init, KillMemoryInv, QuestKept, HitsKept, LaneKept, AttemptKept, KillsKept,
      K!OnlyTheWriterIsKilled, K!TerminatedEarlierWasKilled

LEMMA TickKeeps ==
  ASSUME KillMemoryInv, K!Tick PROVE KillMemoryInv'
<1>1. /\ K_now' = K_now + 1 /\ K_now \in Int /\ K_now' \in K!Time
      /\ UNCHANGED <<K_proc, K_quest, K_lane, K_act, K_kills, K_unconfirmed, K_fate,
                     K_hits>>
  BY KillTypes, KillMemoryHolds DEF KillMemoryInv, K!Tick, K!Time
<1>2. Grows
  BY <1>1 DEF Grows
<1>3. K!TypeOK' /\ Len(K_quest') <= K_MaxQuestion
  BY <1>1 DEF KillMemoryInv, K!TypeOK
<1> QED
  BY <1>1, <1>2, <1>3, GrowsIs, MemoryStays, HitsStay, EarlierStays, AttemptStays, LaneStays
  DEF KillMemoryInv

LEMMA SpawnKeeps ==
  ASSUME KillMemoryInv, NEW image \in K_Image, K!Spawn(image)
  PROVE  KillMemoryInv'
<1> DEFINE new == [born |-> K_now, image |-> image]
           n == Len(K_proc)
<1>1. /\ K_proc' = Append(K_proc, new) /\ n < K_MaxProc
      /\ K_fate' = [K_fate EXCEPT ![Len(K_proc')] = "alive"]
      /\ UNCHANGED <<K_now, K_quest, K_lane, K_act, K_kills, K_unconfirmed, K_hits>>
  BY DEF K!Spawn
<1>2. /\ K_now \in Int /\ K_proc \in Seq(Births) /\ n \in Nat
      /\ DOMAIN K_proc = 1 .. n /\ new \in Births
  BY KillTypes DEF KillMemoryInv, Births
<1>3. /\ K_proc' \in Seq(Births) /\ Len(K_proc') = n + 1
      /\ DOMAIN K_proc' = 1 .. n + 1
      /\ \A i \in 1 .. n : K_proc'[i] = K_proc[i]
  <2> HIDE DEF new, Births
  <2> QED BY <1>1, <1>2
<1>4. \A i \in 1 .. n : K_fate'[i] = K_fate[i]
  BY <1>1, <1>2, <1>3 DEF KillMemoryInv, K!TypeOK, K!Proc
<1>5. Grows
  BY <1>1, <1>2, <1>3, <1>4 DEF Grows
<1>6. K!TypeOK' /\ Len(K_quest') <= K_MaxQuestion
  <2>1. K_fate' \in [K!Proc -> {"none", "alive", "exited", "killed"}]
    BY <1>1 DEF KillMemoryInv, K!TypeOK
  <2>2. Len(K_proc') <= K_MaxProc
    BY <1>1, <1>2, <1>3, KillMemoryHolds
  <2> QED BY <1>1, <1>3, <2>1, <2>2 DEF KillMemoryInv, K!TypeOK, Births
<1> QED
  BY <1>1, <1>5, <1>6, GrowsIs, MemoryStays, HitsStay, EarlierStays, AttemptStays, LaneStays
  DEF KillMemoryInv

LEMMA ExitKeeps ==
  ASSUME KillMemoryInv, K!Exit PROVE KillMemoryInv'
<1>1. /\ K_fate' = [K_fate EXCEPT ![K!Owner] = "exited"]
      /\ K_fate[K!Owner] = "alive" /\ K!Owner \in K!Proc
      /\ UNCHANGED <<K_now, K_proc, K_quest, K_lane, K_act, K_kills, K_unconfirmed,
                     K_hits>>
  BY OwnerIs DEF K!Exit, KillMemoryInv, K!Alive
<1>2. \A i \in DOMAIN K_proc : K_fate[i] = "killed" => K_fate'[i] = "killed"
  BY <1>1 DEF KillMemoryInv, K!TypeOK
<1>3. K_now \in Int
  BY KillTypes DEF KillMemoryInv
<1>4. Grows
  BY <1>1, <1>2, <1>3 DEF Grows
<1>5. K!TypeOK' /\ Len(K_quest') <= K_MaxQuestion
  BY <1>1 DEF KillMemoryInv, K!TypeOK
<1> QED
  BY <1>1, <1>4, <1>5, GrowsIs, MemoryStays, HitsStay, EarlierStays, AttemptStays, LaneStays
  DEF KillMemoryInv

LEMMA WriteKeeps ==
  ASSUME KillMemoryInv, K!WriteFile PROVE KillMemoryInv'
<1> DEFINE new == [by |-> K!Owner, written |-> K_now, read |-> K_now,
                   result |-> "open"]
           n == Len(K_quest)
<1>1. /\ K_quest' = Append(K_quest, new) /\ n < K_MaxQuestion
      /\ K!Owner \in DOMAIN K_proc /\ K!Owner \in K!Proc
      /\ UNCHANGED <<K_now, K_proc, K_lane, K_act, K_kills, K_unconfirmed, K_fate, K_hits>>
  BY OwnerIs DEF K!WriteFile, KillMemoryInv
<1>2. /\ K_now \in Int /\ K_quest \in Seq(Quests) /\ n \in Nat
      /\ DOMAIN K_quest = 1 .. n /\ new \in Quests
  BY <1>1, KillTypes DEF KillMemoryInv, Quests, K!Result
<1>3. /\ K_quest' \in Seq(Quests) /\ Len(K_quest') = n + 1
      /\ DOMAIN K_quest' = 1 .. n + 1 /\ K_quest'[n + 1] = new
      /\ \A q \in 1 .. n : K_quest'[q] = K_quest[q]
  <2> HIDE DEF new, Quests
  <2> QED BY <1>1, <1>2
<1>4. Grows
  <2>1. \A q \in DOMAIN K_quest' \ DOMAIN K_quest : q = n + 1
    BY <1>2, <1>3
  <2> QED BY <1>1, <1>2, <1>3, <2>1 DEF Grows
<1>5. K!TypeOK' /\ Len(K_quest') <= K_MaxQuestion
  <2>1. Len(K_quest') <= K_MaxQuestion
    BY <1>1, <1>2, <1>3, KillMemoryHolds
  <2> QED BY <1>1, <1>3, <2>1 DEF KillMemoryInv, K!TypeOK, Quests
<1>6. \A q \in DOMAIN K_quest' :
        K_quest'[q].result = "terminated_earlier"
          => q \in DOMAIN K_quest /\ K_quest[q].result = "terminated_earlier"
  <2>1. \A q \in DOMAIN K_quest' : q \in 1 .. n \/ q = n + 1
    BY <1>2, <1>3
  <2> QED BY <1>2, <1>3, <2>1
<1> QED
  BY <1>1, <1>4, <1>5, <1>6, GrowsIs, MemoryStays, HitsStay, EarlierStays,
     AttemptStays, LaneStays
  DEF KillMemoryInv

\* What becomes of a question changes, and nothing else but the lane and the
\* attempt.
LEMMA ClosingKeeps ==
  ASSUME KillMemoryInv, NEW q \in DOMAIN K_quest, NEW result \in K!Result,
         \/ K!Closes(q, result)
         \/ UNCHANGED K_quest,
         UNCHANGED <<K_now, K_proc, K_kills, K_unconfirmed, K_fate, K_hits>>,
         K_act' \in Acts, K_lane' \in Seq(K!Waiting),
         result # "terminated_earlier" \/ UNCHANGED K_quest
  PROVE  /\ Grows /\ K!TypeOK' /\ Len(K_quest') <= K_MaxQuestion
         /\ QuestKept' /\ HitsKept' /\ KillsKept'
         /\ K!OnlyTheWriterIsKilled' /\ K!TerminatedEarlierWasKilled'
<1>1. /\ K_quest' \in Seq(Quests) /\ Len(K_quest') = Len(K_quest)
      /\ DOMAIN K_quest' = DOMAIN K_quest
      /\ \A r \in DOMAIN K_quest :
           /\ K_quest'[r].by = K_quest[r].by
           /\ K_quest'[r].written = K_quest[r].written
           /\ K_quest'[r].result = "terminated_earlier"
                => K_quest[r].result = "terminated_earlier"
  <2>1. CASE UNCHANGED K_quest
    BY <2>1, KillTypes DEF KillMemoryInv
  <2>2. CASE K!Closes(q, result) /\ result # "terminated_earlier"
    BY <2>2, ClosesKeeps DEF KillMemoryInv
  <2> QED BY <2>1, <2>2
<1>2. K_now \in Int
  BY KillTypes DEF KillMemoryInv
<1>3. Grows
  BY <1>1, <1>2 DEF Grows
<1>4. K!TypeOK' /\ Len(K_quest') <= K_MaxQuestion
  BY <1>1 DEF KillMemoryInv, K!TypeOK, Acts, Quests
<1> QED
  BY <1>1, <1>3, <1>4, GrowsIs, MemoryStays, HitsStay, EarlierStays

\* Nothing is under way once an attempt is over.
LEMMA RestingKeeps ==
  ASSUME KillMemoryInv, K_act' = K!Resting, K_now' \in Int, K_now <= K_now'
  PROVE  K_act' \in Acts /\ AttemptKept'
<1>1. K_act'.st = "idle" /\ K_act'.at = 0 /\ K_act' \in Acts
  BY RestingIsAct DEF K!Resting
<1>2. 0 <= K_now'
  BY KillTypes DEF KillMemoryInv, K!Time
<1> QED BY <1>1, <1>2 DEF AttemptKept

LEMMA VerifyKeeps ==
  ASSUME KillMemoryInv, NEW q \in DOMAIN K_quest, K!Close(q)
  PROVE  KillMemoryInv'
<1>1. /\ UNCHANGED <<K_now, K_proc, K_act, K_kills, K_unconfirmed, K_fate, K_hits>>
      /\ K_act \in Acts /\ K_lane \in Seq(K!Waiting)
  BY KillTypes DEF K!Close, KillMemoryInv
<1>2. CASE K!Closes(q, "not_escalated") /\ UNCHANGED K_lane
  <2>1. "not_escalated" \in K!Result
    BY DEF K!Result
  <2>2. Grows
    BY <1>1, <1>2, <2>1, ClosingKeeps
  <2> QED
    BY <1>1, <1>2, <2>1, <2>2, ClosingKeeps, AttemptStays, LaneStays
    DEF KillMemoryInv
<1> DEFINE new == [q |-> q, closed |-> K!Owner]
<1>3. CASE /\ K!Verified(q) /\ K!Closes(q, "queued")
           /\ K_lane' = Append(K_lane, new)
  <2>1. /\ K!Owner \in DOMAIN K_proc /\ K!Owner \in K!Proc
        /\ K!OldEnough(K!Owner, q) \/ K_proc[K!Owner].image = K!ImageOf(q)
    <3>1. PICK started \in K!Starts(K!Owner), imageRead \in BOOLEAN :
            /\ ~K!StartedAfter(started, q)
            /\ imageRead => K_proc[K!Owner].image = K!ImageOf(q)
            /\ imageRead \/ started # K!Unread
      BY <1>3 DEF K!Verified
    <3>2. K!Owner \in DOMAIN K_proc /\ K!Owner \in K!Proc
      BY <1>3, OwnerIs DEF K!Verified, KillMemoryInv
    <3>3. CASE started # K!Unread
      <4>1. started = K_proc[K!Owner].born
        BY <3>1, <3>3 DEF K!Starts
      <4>2. ~ (K_proc[K!Owner].born > K_quest[q].written + K_Tolerance)
        BY <3>1, <3>3, <4>1 DEF K!StartedAfter
      <4>3. K_proc[K!Owner].born \in Int /\ K_quest[q].written \in Int
        BY SMTT(30), <3>2, KillTypes DEF KillMemoryInv, Births, Quests, K!Time
      <4> QED BY <3>2, <4>2, <4>3, KillMemoryHolds DEF K!OldEnough
    <3> QED BY <3>1, <3>2, <3>3
  <2>2. new \in K!Waiting
    <3>1. q \in 1 .. K_MaxQuestion
      BY KillTypes, KillMemoryHolds DEF KillMemoryInv
    <3> QED BY <2>1, <3>1 DEF K!Waiting
  <2>3. SeenFor(q, K!Owner)
    BY <2>1 DEF SeenFor
  <2> HIDE DEF new
  <2>4. /\ K_lane' \in Seq(K!Waiting)
        /\ \A n \in DOMAIN K_lane' :
             K_lane'[n] = new \/ (n \in DOMAIN K_lane /\ K_lane'[n] = K_lane[n])
    BY <1>1, <1>3, <2>2
  <2>5. "queued" \in K!Result
    BY DEF K!Result
  <2>6. /\ Grows /\ K!TypeOK' /\ Len(K_quest') <= K_MaxQuestion
        /\ QuestKept' /\ HitsKept' /\ KillsKept'
        /\ K!OnlyTheWriterIsKilled' /\ K!TerminatedEarlierWasKilled'
    BY <1>1, <1>3, <2>4, <2>5, ClosingKeeps
  <2>7. LaneKept'
    <3>1. ASSUME NEW w, w = new \/ \E n \in DOMAIN K_lane : w = K_lane[n]
          PROVE  SeenFor(w.q, w.closed)
      BY <2>3, <3>1 DEF KillMemoryInv, LaneKept, new
    <3>2. ASSUME NEW n \in DOMAIN K_lane', NEW w, w = K_lane'[n]
          PROVE  SeenFor(w.q, w.closed)'
      BY <2>4, <2>6, <3>1, <3>2, SeenStays
    <3> QED BY <3>2 DEF LaneKept
  <2> QED BY <1>1, <2>6, <2>7, AttemptStays DEF KillMemoryInv
<1> QED BY <1>2, <1>3 DEF K!Close

LEMMA TakeKeeps ==
  ASSUME KillMemoryInv, K!Take PROVE KillMemoryInv'
<1> DEFINE w == Head(K_lane)
<1>1. /\ K_lane # <<>> /\ K_lane' = Tail(K_lane) /\ K_lane \in Seq(K!Waiting)
      /\ K_act' = [K!Resting EXCEPT !.st = "probe", !.q = w.q, !.closed = w.closed]
      /\ UNCHANGED <<K_now, K_proc, K_quest, K_kills, K_unconfirmed, K_fate, K_hits>>
  BY KillTypes DEF K!Take, KillMemoryInv
<1>2. /\ w \in K!Waiting /\ 1 \in DOMAIN K_lane /\ w = K_lane[1]
      /\ K_lane' \in Seq(K!Waiting)
      /\ \A n \in DOMAIN K_lane' :
           n + 1 \in DOMAIN K_lane /\ K_lane'[n] = K_lane[n + 1]
  BY <1>1
<1>3. K_now \in Int /\ 0 <= K_now
  BY KillTypes DEF KillMemoryInv, K!Time
<1>4. Grows
  BY <1>1, <1>3 DEF Grows
<1>5. /\ K_act' \in Acts /\ K_act'.st = "probe" /\ K_act'.q = w.q
      /\ K_act'.closed = w.closed /\ K_act'.at = 0
  <2>1. w.q \in 0 .. K_MaxQuestion /\ w.closed \in 0 .. K_MaxProc
    BY <1>2, KillMemoryHolds DEF K!Waiting, K!Proc
  <2>2. K_act' = [st |-> "probe", q |-> w.q, closed |-> w.closed, saw |-> 0,
                  started |-> -1, at |-> 0]
    BY <1>1 DEF K!Resting, K!Gone, K!Unread
  <2>3. 0 \in K!Time /\ 0 \in 0 .. K_MaxProc
    BY KillMemoryHolds DEF K!Time
  <2> QED BY <2>1, <2>2, <2>3 DEF Acts, K!Unread
<1>6. K!TypeOK' /\ Len(K_quest') <= K_MaxQuestion
  BY <1>1, <1>2, <1>5 DEF KillMemoryInv, K!TypeOK, Acts
<1>7. ASSUME NEW n \in DOMAIN K_lane PROVE SeenFor(K_lane[n].q, K_lane[n].closed)
  BY DEF KillMemoryInv, LaneKept
<1>8. AttemptKept'
  <2>1. SeenFor(w.q, w.closed)
    BY <1>2, <1>7
  <2>2. ClosedOn'
    BY <1>1, <1>5, <2>1 DEF ClosedOn, SeenFor, K!OldEnough, K!ImageOf
  <2> QED BY <1>3, <1>1, <1>5, <2>2 DEF AttemptKept
<1>9. LaneKept'
  <2> SUFFICES ASSUME NEW n \in DOMAIN K_lane'
               PROVE  SeenFor(K_lane'[n].q, K_lane'[n].closed)
    BY <1>1 DEF LaneKept, SeenFor, K!OldEnough, K!ImageOf
  <2> QED BY <1>2, <1>7
<1> QED
  BY <1>1, <1>4, <1>6, <1>8, <1>9, GrowsIs, MemoryStays, HitsStay, EarlierStays
  DEF KillMemoryInv

\* What a remembered kill that covers a question is about.
LEMMA CoveredWasKilled ==
  ASSUME KillMemoryInv, NEW q \in DOMAIN K_quest, NEW n \in DOMAIN K_kills,
         K!Wrote(K_kills[n], q), ~Swapped,
         \A i \in DOMAIN K_proc : i > K_quest[q].by => ~K!OldEnough(i, q)
  PROVE  K_fate[K_quest[q].by] = "killed"
<1>1. PICK k \in DOMAIN K_proc : KillIsOf(K_kills[n], k)
  BY DEF KillMemoryInv, KillsKept
<1>2. /\ K_kills[n] \in K!Entry /\ K_quest[q] \in Quests
      /\ DOMAIN K_proc = 1 .. Len(K_proc) /\ Len(K_proc) \in Nat
      /\ K_quest[q].by \in DOMAIN K_proc
  BY KillTypes DEF KillMemoryInv, QuestKept
<1>3. /\ K_kills[n].created # K!Unread
      /\ K_kills[n].created <= K_quest[q].written + K_Tolerance
      /\ K_quest[q].written + K_Tolerance < K_kills[n].at
  BY DEF K!Wrote
<1>4. K!OldEnough(k, q)
  BY <1>1, <1>3 DEF KillIsOf, K!OldEnough
<1>5. K_quest[q].written < K_kills[n].at
  BY <1>2, <1>3, KillMemoryHolds DEF Quests, K!Entry, K!Time
<1>6. K_quest[q].by <= k
  BY <1>1, <1>5 DEF KillIsOf, OwnedAt
<1>7. ~ (k > K_quest[q].by)
  BY <1>1, <1>4
<1>8. k = K_quest[q].by
  BY <1>1, <1>2, <1>6, <1>7
<1> QED BY <1>1, <1>8 DEF KillIsOf

LEMMA EarlierKeeps ==
  ASSUME KillMemoryInv, K!Earlier PROVE KillMemoryInv'
<1> DEFINE q == K_act.q
<1>1. /\ K_act.st = "probe" /\ q \in DOMAIN K_quest /\ ClosedOn
      /\ K_act \in Acts /\ K_now \in Int
      /\ UNCHANGED <<K_now, K_proc, K_lane, K_kills, K_unconfirmed, K_fate, K_hits>>
      /\ K_lane \in Seq(K!Waiting)
  BY KillTypes DEF K!Earlier, KillMemoryInv, AttemptKept, ClosedOn, SeenFor
<1>2. CASE K_act' = [K_act EXCEPT !.st = "ask"] /\ UNCHANGED K_quest
  <2>1. /\ K_act' \in Acts /\ K_act'.st = "ask" /\ K_act'.q = K_act.q
        /\ K_act'.closed = K_act.closed /\ K_act'.at = K_act.at
    BY <1>1, <1>2 DEF Acts
  <2>2. AttemptKept'
    BY <1>1, <1>2, <2>1
    DEF KillMemoryInv, AttemptKept, ClosedOn, SeenFor, K!OldEnough, K!ImageOf
  <2>3. "open" \in K!Result
    BY DEF K!Result
  <2> QED BY <1>1, <1>2, <2>1, <2>2, <2>3, ClosingKeeps, LaneStays DEF KillMemoryInv
<1>3. ASSUME NEW started, K!KilledEarlier(q, started),
             K!Closes(q, "terminated_earlier"), K_act' = K!Resting
      PROVE  KillMemoryInv'
  <2>1. K_act' \in Acts /\ AttemptKept' /\ "terminated_earlier" \in K!Result
    BY <1>1, <1>3, RestingKeeps DEF K!Result
  <2>2. /\ K_quest' \in Seq(Quests) /\ Len(K_quest') = Len(K_quest)
        /\ DOMAIN K_quest' = DOMAIN K_quest
        /\ \A r \in DOMAIN K_quest :
             /\ K_quest'[r].by = K_quest[r].by
             /\ K_quest'[r].written = K_quest[r].written
             /\ r # q => K_quest'[r].result = K_quest[r].result
    BY <1>1, <1>3, <2>1, ClosesKeeps DEF KillMemoryInv
  <2>3. Grows
    BY <1>1, <2>2 DEF Grows
  <2>4. K!TypeOK' /\ Len(K_quest') <= K_MaxQuestion
    BY <1>1, <2>1, <2>2 DEF KillMemoryInv, K!TypeOK, Acts, Quests
  <2>5. PICK n \in DOMAIN K_kills : K!Wrote(K_kills[n], q)
    BY <1>3 DEF K!KilledEarlier, K!Covering
  <2>6. K!TerminatedEarlierWasKilled'
    <3> SUFFICES ASSUME NEW r \in DOMAIN K_quest',
                        K_quest'[r].result = "terminated_earlier",
                        \A hit \in K_hits' : hit.who = hit.saw,
                        \A i \in DOMAIN K_proc' :
                          i > K_quest'[r].by => ~K!OldEnough(i, r)'
                 PROVE  K_fate'[K_quest'[r].by] = "killed"
      BY DEF K!TerminatedEarlierWasKilled, K!I, K!OldEnough
    <3>1. /\ r \in DOMAIN K_quest /\ ~Swapped
          /\ K_quest'[r].by = K_quest[r].by
          /\ \A i \in DOMAIN K_proc :
               i > K_quest[r].by => ~K!OldEnough(i, r)
      BY <1>1, <2>2, <2>3, GrowsIs DEF Swapped
    <3>2. K_fate[K_quest[r].by] = "killed"
      <4>1. CASE r = q
        BY <2>5, <3>1, <4>1, CoveredWasKilled
      <4>2. CASE r # q
        BY <2>2, <3>1, <4>2
        DEF KillMemoryInv, K!TerminatedEarlierWasKilled, K!I, Swapped
      <4> QED BY <4>1, <4>2
    <3> QED BY <1>1, <3>1, <3>2
  <2> QED
    BY <1>1, <2>1, <2>3, <2>4, <2>6, GrowsIs, MemoryStays, HitsStay, LaneStays
    DEF KillMemoryInv
<1> QED BY <1>2, <1>3 DEF K!Earlier

LEMMA AskKeeps ==
  ASSUME KillMemoryInv, K!Ask PROVE KillMemoryInv'
<1> DEFINE q == K_act.q
<1>1. /\ K_act.st = "ask" /\ q \in DOMAIN K_quest /\ ClosedOn
      /\ K_act \in Acts /\ K_now \in K!Time /\ K_now \in Int
      /\ UNCHANGED <<K_now, K_proc, K_lane, K_kills, K_unconfirmed, K_fate, K_hits>>
      /\ K_lane \in Seq(K!Waiting)
  BY KillTypes DEF K!Ask, KillMemoryInv, AttemptKept, ClosedOn, SeenFor
<1>2. ASSUME NEW result \in {"pid_reused_before_kill",
                             "termination_unconfirmed_earlier"},
             K!Closes(q, result), K_act' = K!Resting
      PROVE  KillMemoryInv'
  <2>1. /\ K_act' \in Acts /\ AttemptKept' /\ result \in K!Result
        /\ result # "terminated_earlier"
    BY <1>1, <1>2, RestingKeeps DEF K!Result
  <2> QED BY <1>1, <1>2, <2>1, ClosingKeeps, LaneStays DEF KillMemoryInv
<1>3. ASSUME NEW started \in IF K!Owner = K!Gone THEN {K!Unread}
                             ELSE K!Starts(K!Owner),
             ~K!StartedAfter(started, q), K!Closes(q, "asked"),
             K_act' = [K_act EXCEPT !.st = "asked", !.saw = K!Owner,
                                    !.started = started, !.at = K_now]
      PROVE  KillMemoryInv'
  <2>1. started \in K!Time \cup {K!Unread}
    <3>1. CASE K!Owner = K!Gone
      BY <1>3, <3>1
    <3>2. CASE K!Owner # K!Gone
      BY <1>3, <3>2, OwnerIs, KillTypes
      DEF KillMemoryInv, K!Starts, Births
    <3> QED BY <3>1, <3>2
  <2>2. /\ K_act'.st = "asked" /\ K_act'.q = K_act.q
        /\ K_act'.closed = K_act.closed /\ K_act'.saw = K!Owner
        /\ K_act'.started = started /\ K_act'.at = K_now
        /\ K_act' \in Acts
    <3>1. K_act' = [st |-> "asked", q |-> K_act.q, closed |-> K_act.closed,
                    saw |-> K!Owner, started |-> started, at |-> K_now]
      BY <1>1, <1>3 DEF Acts
    <3>2. /\ K_act.q \in 0 .. K_MaxQuestion /\ K_act.closed \in 0 .. K_MaxProc
          /\ K!Owner \in 0 .. K_MaxProc
      BY <1>1, OwnerIs DEF Acts, KillMemoryInv
    <3> QED BY <1>1, <2>1, <3>1, <3>2 DEF Acts
  <2>3. "asked" \in K!Result
    BY DEF K!Result
  <2>4. /\ Grows /\ K!TypeOK' /\ Len(K_quest') <= K_MaxQuestion
        /\ QuestKept' /\ HitsKept' /\ KillsKept'
        /\ K!OnlyTheWriterIsKilled' /\ K!TerminatedEarlierWasKilled'
    BY <1>1, <1>3, <2>2, <2>3, ClosingKeeps
  <2>5. ClosedOn'
    <3>1. K_act'.q \in DOMAIN K_quest' /\ K_act'.closed \in DOMAIN K_proc'
      BY <1>1, <2>2, <2>4 DEF ClosedOn, SeenFor, Grows
    <3>2. /\ K_quest'[q].by = K_quest[q].by
          /\ K_quest'[q].written = K_quest[q].written
      BY <1>1, <2>4 DEF Grows
    <3> QED
      BY <1>1, <2>2, <3>1, <3>2 DEF ClosedOn, SeenFor, K!OldEnough, K!ImageOf
  <2>6. ProbeSaw'
    <3> SUFFICES ASSUME K_act'.saw # K!Gone
                 PROVE  /\ K_act'.saw \in DOMAIN K_proc'
                        /\ K_act'.started
                             \in {K_proc'[K_act'.saw].born, K!Unread}
                        /\ ~ (/\ K_act'.started # K!Unread
                              /\ K_act'.started
                                   > K_quest'[K_act'.q].written + K_Tolerance)
                        /\ \A r \in DOMAIN K_quest' :
                             K_quest'[r].written < K_act'.at
                               => K_quest'[r].by <= K_act'.saw
      BY DEF ProbeSaw, K!Starts, K!StartedAfter, OwnedAt
    <3>1. /\ K!Owner \in DOMAIN K_proc /\ K!Owner = Len(K_proc)
          /\ started \in {K_proc[K!Owner].born, K!Unread}
          /\ DOMAIN K_proc = 1 .. Len(K_proc) /\ Len(K_proc) \in Nat
      BY <1>3, <2>2, OwnerIs, KillTypes DEF KillMemoryInv, K!Starts
    <3>2. /\ K_quest'[q].written = K_quest[q].written
          /\ ~ (/\ started # K!Unread
                /\ started > K_quest[q].written + K_Tolerance)
      BY <1>1, <1>3, <2>4 DEF K!StartedAfter, Grows
    <3>3. ASSUME NEW r \in DOMAIN K_quest' PROVE K_quest'[r].by <= Len(K_proc)
      <4>1. K_quest'[r].by \in 1 .. Len(K_proc)
        BY <1>1, <2>4, <3>1 DEF QuestKept
      <4> QED BY <3>1, <4>1
    <3> QED BY <1>1, <2>2, <3>1, <3>2, <3>3
  <2>7. AttemptKept'
    BY <1>1, <2>2, <2>5, <2>6 DEF AttemptKept
  <2> QED BY <1>1, <2>4, <2>7, LaneStays DEF KillMemoryInv
<1> QED BY <1>2, <1>3 DEF K!Ask

LEMMA ServeKeeps ==
  ASSUME KillMemoryInv, K!Serve PROVE KillMemoryInv'
<1>1. /\ K_act.st = "asked" /\ K_act \in Acts /\ ClosedOn /\ ProbeSaw
      /\ K_now \in Int
      /\ UNCHANGED <<K_now, K_proc, K_quest, K_lane, K_kills, K_unconfirmed>>
  BY KillTypes DEF K!Serve, KillMemoryInv, AttemptKept
<1>2. ASSUME NEW st \in {"confirmed", "lost"},
             K_act' = [K_act EXCEPT !.st = st]
      PROVE  /\ K_act' \in Acts /\ K_act'.st = st /\ K_act'.q = K_act.q
             /\ K_act'.closed = K_act.closed /\ K_act'.saw = K_act.saw
             /\ K_act'.started = K_act.started /\ K_act'.at = K_act.at
             /\ ClosedOn' /\ ProbeSaw'
  <2>1. /\ K_act' \in Acts /\ K_act'.st = st /\ K_act'.q = K_act.q
        /\ K_act'.closed = K_act.closed /\ K_act'.saw = K_act.saw
        /\ K_act'.started = K_act.started /\ K_act'.at = K_act.at
    BY <1>1, <1>2 DEF Acts
  <2> QED
    BY <1>1, <2>1
    DEF ClosedOn, SeenFor, ProbeSaw, K!OldEnough, K!ImageOf, K!Starts, K!StartedAfter,
        OwnedAt
<1>3. CASE K_act' = [K_act EXCEPT !.st = "lost"] /\ UNCHANGED <<K_fate, K_hits>>
  <2>1. Grows
    BY <1>1, <1>3 DEF Grows
  <2>2. /\ K_act' \in Acts /\ K_act'.st = "lost" /\ K_act'.at = K_act.at
        /\ ClosedOn' /\ ProbeSaw'
    BY <1>2, <1>3
  <2>3. K!TypeOK' /\ Len(K_quest') <= K_MaxQuestion
    BY <1>1, <1>3, <2>2 DEF KillMemoryInv, K!TypeOK, Acts
  <2>4. AttemptKept'
    BY <1>1, <2>2 DEF KillMemoryInv, AttemptKept
  <2> QED
    BY <1>1, <1>3, <2>1, <2>3, <2>4, GrowsIs, MemoryStays, HitsStay, EarlierStays,
       LaneStays
    DEF KillMemoryInv
<1> DEFINE hit == [q |-> K_act.q, who |-> K!Owner, closed |-> K_act.closed,
                   saw |-> K_act.saw, started |-> K_act.started]
<1>4. ASSUME K!Alive, K_fate' = [K_fate EXCEPT ![K!Owner] = "killed"],
             K_hits' = K_hits \cup {hit}, NEW st \in {"confirmed", "lost"},
             K_act' = [K_act EXCEPT !.st = st]
      PROVE  KillMemoryInv'
  <2>1. /\ K!Owner \in DOMAIN K_proc /\ K!Owner \in K!Proc
        /\ K!Owner \in 0 .. K_MaxProc /\ K!Owner # K!Gone
    BY <1>4, OwnerIs DEF KillMemoryInv
  <2>2. /\ K_fate'[K!Owner] = "killed"
        /\ \A i \in DOMAIN K_proc : K_fate[i] = "killed" => K_fate'[i] = "killed"
    BY SMTT(30), <1>4, <2>1 DEF KillMemoryInv, K!TypeOK
  <2>3. Grows
    BY <1>1, <1>4, <2>2 DEF Grows
  <2>4. /\ K_act' \in Acts /\ K_act'.st = st /\ K_act'.at = K_act.at
        /\ K_act'.saw = K_act.saw /\ ClosedOn' /\ ProbeSaw'
    BY <1>2, <1>4
  <2>5. K!TypeOK' /\ Len(K_quest') <= K_MaxQuestion
    <3>1. /\ K_act.q \in 1 .. K_MaxQuestion /\ K_act.closed \in 0 .. K_MaxProc
          /\ K_act.saw \in 0 .. K_MaxProc
          /\ K_act.started \in K!Time \cup {K!Unread}
      <4>1. K_act.q \in 1 .. Len(K_quest) /\ Len(K_quest) <= K_MaxQuestion
            /\ Len(K_quest) \in Nat
        BY <1>1, KillTypes DEF KillMemoryInv, ClosedOn, SeenFor
      <4>2. K_act.q \in 1 .. K_MaxQuestion
        BY <4>1, KillMemoryHolds
      <4> QED BY <1>1, <4>2 DEF Acts
    <3>2. hit \in [q : 1 .. K_MaxQuestion, who : K!Proc, closed : 0 .. K_MaxProc,
                   saw : 0 .. K_MaxProc, started : K!Time \cup {K!Unread}]
      BY <2>1, <3>1
    <3>3. K_fate' \in [K!Proc -> {"none", "alive", "exited", "killed"}]
      BY <1>4 DEF KillMemoryInv, K!TypeOK
    <3> HIDE DEF hit
    <3> QED BY <1>1, <1>4, <2>4, <3>2, <3>3 DEF KillMemoryInv, K!TypeOK, Acts
  <2>6. HitsKept'
    BY <1>1, <1>4, <2>1 DEF KillMemoryInv, HitsKept, ClosedOn, SeenFor
  <2>7. K!OnlyTheWriterIsKilled'
    <3>1. ASSUME hit.who = hit.saw
          PROVE  \/ K!OldEnough(hit.who, hit.q)
                 \/ /\ hit.started = K!Unread
                    /\ \/ hit.who # hit.closed
                       \/ K_proc[hit.who].image = K!ImageOf(hit.q)
      <4>1. /\ K_act.saw = K!Owner /\ K_act.started \in K!Starts(K!Owner)
            /\ ~K!StartedAfter(K_act.started, K_act.q)
        BY <1>1, <2>1, <3>1 DEF ProbeSaw
      <4>2. CASE K_act.started # K!Unread
        <5>1. K_act.started = K_proc[K!Owner].born
          BY <4>1, <4>2 DEF K!Starts
        <5>2. ~ (K_proc[K!Owner].born > K_quest[K_act.q].written + K_Tolerance)
          BY <4>1, <4>2, <5>1 DEF K!StartedAfter
        <5>3. K_proc[K!Owner].born \in Int /\ K_quest[K_act.q].written \in Int
          BY SMTT(30), <1>1, <2>1, KillTypes
          DEF KillMemoryInv, ClosedOn, SeenFor, Births, Quests, K!Time
        <5> QED BY <5>2, <5>3, KillMemoryHolds DEF K!OldEnough
      <4>3. CASE K_act.started = K!Unread
        BY <1>1, <4>3 DEF ClosedOn, SeenFor
      <4> QED BY <4>2, <4>3
    <3>2. ASSUME NEW h \in K_hits'
          PROVE  \/ K!OldEnough(h.who, h.q)
                 \/ h.who # h.saw
                 \/ /\ h.started = K!Unread
                    /\ h.who # h.closed \/ K_proc[h.who].image = K!ImageOf(h.q)
      <4>1. h \in K_hits \/ h = hit
        BY <1>4
      <4> HIDE DEF hit
      <4>2. CASE h = hit
        BY <3>1, <4>2
      <4>3. CASE h \in K_hits
        BY <4>3 DEF KillMemoryInv, K!OnlyTheWriterIsKilled
      <4> QED BY <4>1, <4>2, <4>3
    <3> QED
      BY <1>1, <3>2 DEF K!OnlyTheWriterIsKilled, K!OldEnough, K!ImageOf
  <2>8. AttemptKept'
    <3>1. hit \in K_hits' /\ hit.saw = K_act'.saw /\ K_fate'[hit.who] = "killed"
      BY <1>4, <2>2, <2>4
    <3> HIDE DEF hit
    <3> QED BY <1>1, <2>4, <3>1 DEF KillMemoryInv, AttemptKept
  <2> QED
    BY <1>1, <2>3, <2>5, <2>6, <2>7, <2>8, GrowsIs, MemoryStays, EarlierStays,
       LaneStays
    DEF KillMemoryInv
<1> QED BY <1>3, <1>4 DEF K!Serve

LEMMA AnsweredKeeps ==
  ASSUME KillMemoryInv, K!Answered PROVE KillMemoryInv'
<1> DEFINE e == K!ThisAttempt
<1>1. /\ K_act.st \in {"lost", "confirmed"} /\ K_act \in Acts
      /\ ClosedOn /\ ProbeSaw /\ K_act.at <= K_now /\ K_now \in Int
      /\ K_act' = K!Resting
      /\ UNCHANGED <<K_now, K_proc, K_quest, K_lane, K_fate, K_hits>>
  BY KillTypes DEF K!Answered, KillMemoryInv, AttemptKept
<1>2. e \in K!Entry /\ e.created = K_act.started /\ e.at = K_act.at
  <2>1. K!ImageOf(K_act.q) \in K_Image
    BY <1>1, KillTypes DEF KillMemoryInv, K!ImageOf, ClosedOn, SeenFor, QuestKept, Births
  <2>2. K_act.started \in K!Time \cup {K!Unread} /\ K_act.at \in K!Time
    BY <1>1 DEF Acts
  <2> QED BY <2>1, <2>2 DEF K!ThisAttempt, K!Entry
<1>3. Grows
  BY <1>1 DEF Grows
<1>4. K_act' \in Acts /\ AttemptKept'
  BY <1>1, RestingKeeps
<1>5. CASE K!RememberUnconfirmed
  <2>1. K_unconfirmed' \in [K!Time -> Seq(K!Entry)]
        /\ \A t \in K!Time : Len(K_unconfirmed'[t]) <= K_Attempts
    <3>1. CASE UNCHANGED K_unconfirmed
      BY <3>1 DEF KillMemoryInv, K!TypeOK
    <3>2. CASE /\ K_act.started # K!Unread
               /\ K_unconfirmed' =
                    [K_unconfirmed EXCEPT ![K_act.started] =
                       K!LastN(Append(@, K!ThisAttempt), K_Attempts)]
      <4>1. /\ K_act.started \in K!Time
            /\ K_unconfirmed[K_act.started] \in Seq(K!Entry)
        BY <1>1, <3>2 DEF Acts, KillMemoryInv, K!TypeOK
      <4> DEFINE s == Append(K_unconfirmed[K_act.started], K!ThisAttempt)
      <4>2. s \in Seq(K!Entry)
        BY <1>2, <4>1
      <4>3. /\ K!LastN(s, K_Attempts) \in Seq(K!Entry)
            /\ Len(K!LastN(s, K_Attempts)) <= K_Attempts
        BY <4>2, LastNIs, KillMemoryHolds
      <4>4. K_unconfirmed' = [K_unconfirmed EXCEPT ![K_act.started] =
                                K!LastN(s, K_Attempts)]
        BY <3>2
      <4> HIDE DEF s
      <4> QED BY <4>1, <4>3, <4>4 DEF KillMemoryInv, K!TypeOK
    <3> QED BY <1>5, <3>1, <3>2 DEF K!RememberUnconfirmed
  <2>2. UNCHANGED K_kills
    BY <1>5 DEF K!RememberUnconfirmed
  <2>3. K!TypeOK' /\ Len(K_quest') <= K_MaxQuestion
    BY <1>1, <1>4, <2>1, <2>2 DEF KillMemoryInv, K!TypeOK, Acts
  <2> QED
    BY <1>1, <1>3, <1>4, <2>2, <2>3, GrowsIs, MemoryStays, HitsStay, EarlierStays,
       LaneStays
    DEF KillMemoryInv
<1>6. CASE K!Remember
  <2> DEFINE s == Append(K!Popped(K_act.started), K!ThisAttempt)
  <2>1. /\ K_act.st = "confirmed" /\ K_kills' = K!LastN(s, K_MaxKills)
        /\ UNCHANGED K_unconfirmed
    BY <1>6 DEF K!Remember, K!IsAKill
  <2>2. /\ K!Popped(K_act.started) \in Seq(K!Entry)
        /\ \A i \in DOMAIN K!Popped(K_act.started) :
             \E j \in DOMAIN K_kills : K!Popped(K_act.started)[i] = K_kills[j]
    BY PoppedIs DEF KillMemoryInv
  <2>3. /\ s \in Seq(K!Entry)
        /\ \A i \in DOMAIN s :
             s[i] = e \/ \E j \in DOMAIN K_kills : s[i] = K_kills[j]
    BY <1>2, <2>2
  <2>4. /\ K_kills' \in Seq(K!Entry) /\ Len(K_kills') <= K_MaxKills
        /\ \A i \in DOMAIN K_kills' :
             K_kills'[i] = e \/ \E j \in DOMAIN K_kills : K_kills'[i] = K_kills[j]
    <3> HIDE DEF s, e
    <3>1. /\ K!LastN(s, K_MaxKills) \in Seq(K!Entry)
          /\ Len(K!LastN(s, K_MaxKills)) <= K_MaxKills
          /\ \A i \in DOMAIN K!LastN(s, K_MaxKills) :
               \E j \in DOMAIN s : K!LastN(s, K_MaxKills)[i] = s[j]
      BY <2>3, LastNIs, KillMemoryHolds
    <3> QED BY <2>1, <2>3, <3>1
  <2>5. e.at <= K_now /\ (Swapped \/ \E k \in DOMAIN K_proc : KillIsOf(e, k))
    <3>1. PICK hit \in K_hits : hit.saw = K_act.saw /\ K_fate[hit.who] = "killed"
      BY <2>1 DEF KillMemoryInv, AttemptKept
    <3>2. CASE hit.who # hit.saw
      BY <1>1, <1>2, <3>2 DEF Swapped
    <3>3. CASE hit.who = hit.saw
      <4>1. /\ K_act.saw \in DOMAIN K_proc /\ K_fate[K_act.saw] = "killed"
            /\ K_act.saw # K!Gone
        BY <3>1, <3>3, KillTypes DEF KillMemoryInv, HitsKept, K!Gone
      <4>2. KillIsOf(e, K_act.saw)
        BY <1>1, <1>2, <4>1 DEF KillIsOf, ProbeSaw, K!Starts
      <4> QED BY <1>1, <1>2, <4>1, <4>2
    <3> QED BY <3>2, <3>3
  <2>6. KillsKept'
    <3> HIDE DEF e
    <3> SUFFICES ASSUME NEW i \in DOMAIN K_kills'
                 PROVE  /\ K_kills'[i].at <= K_now
                        /\ \/ Swapped
                           \/ \E k \in DOMAIN K_proc : KillIsOf(K_kills'[i], k)
      BY <1>1 DEF KillsKept, KillIsOf, Swapped, OwnedAt
    <3>1. CASE K_kills'[i] = e
      BY <2>5, <3>1
    <3>2. ASSUME NEW j \in DOMAIN K_kills, K_kills'[i] = K_kills[j]
          PROVE  /\ K_kills'[i].at <= K_now
                 /\ \/ Swapped
                    \/ \E k \in DOMAIN K_proc : KillIsOf(K_kills'[i], k)
      BY <3>2 DEF KillMemoryInv, KillsKept
    <3> QED BY <2>4, <3>1, <3>2
  <2>7. K!TypeOK' /\ Len(K_quest') <= K_MaxQuestion
    BY <1>1, <1>4, <2>1, <2>4 DEF KillMemoryInv, K!TypeOK, Acts
  <2> QED
    BY <1>1, <1>3, <1>4, <2>6, <2>7, GrowsIs, HitsStay, EarlierStays,
       LaneStays
    DEF KillMemoryInv
<1> QED BY <1>5, <1>6 DEF K!Answered

LEMMA KillMemoryStep ==
  KillMemoryInv /\ (K!Next \/ UNCHANGED K_vars) => KillMemoryInv'
<1>1. KillMemoryInv /\ UNCHANGED K_vars => KillMemoryInv'
  BY DEF KillMemoryInv, K_vars, K!TypeOK, QuestKept, HitsKept, AttemptKept,
         KillsKept, LaneKept, ClosedOn, SeenFor, ProbeSaw, OwnedAt, Swapped,
         KillIsOf, K!OldEnough, K!ImageOf, K!Starts, K!StartedAfter, K!OnlyTheWriterIsKilled,
         K!TerminatedEarlierWasKilled, K!I
<1> QED
  BY <1>1, TickKeeps, SpawnKeeps, ExitKeeps, WriteKeeps, VerifyKeeps, TakeKeeps,
     EarlierKeeps, AskKeeps, ServeKeeps, AnsweredKeeps
  DEF K!Next

-------------------------------------------------------------------------------
(* The escalator's line: the closed questions of a process, in the order   *)
(* they closed, are first those acted on, then its lane, then the inbox.   *)

LEMMA EscalationHolds ==
  /\ E_NoPid \notin E_Pid /\ E_Worker # {} /\ E_MaxQuestion \in Nat
  /\ \A q \in E!Q : q \in Nat /\ q # 0
BY MonitorAssumption DEF MonitorAssumption, E!EscalationAssumption, E!Q

\* x is in s; y closed after x, if c lists the closings.
Has(s, x) == \E i \in DOMAIN s : s[i] = x
Later(c, x, y) == \E m, n \in DOMAIN c : m < n /\ c[m] = x /\ c[n] = y

LineTypes(c, of, acts, rows, box) ==
  /\ c \in Seq(E!Q) /\ acts \in Seq(E!Q) /\ box \in Seq(E!Q \cup {0})
  /\ of \in [E!Q -> E_Pid \cup {E_NoPid}] /\ rows \in [E_Pid -> Seq(E!Q)]

Members(c, of, acts, rows, box) ==
  /\ \A m, n \in DOMAIN c : c[m] = c[n] => m = n
  /\ \A k \in DOMAIN acts : Has(c, acts[k]) /\ of[acts[k]] \in E_Pid
  /\ \A p \in E_Pid : \A i \in DOMAIN rows[p] :
       Has(c, rows[p][i]) /\ of[rows[p][i]] = p
  /\ \A j \in DOMAIN box : box[j] # 0 => Has(c, box[j])

ActsInOrder(c, of, acts, rows, box) ==
  \A k \in DOMAIN acts :
    /\ \A l \in DOMAIN acts :
         k < l /\ of[acts[k]] = of[acts[l]] => Later(c, acts[k], acts[l])
    /\ \A i \in DOMAIN rows[of[acts[k]]] :
         Later(c, acts[k], rows[of[acts[k]]][i])
    /\ \A j \in DOMAIN box : box[j] # 0 => Later(c, acts[k], box[j])

RowsInOrder(c, rows, box) ==
  \A p \in E_Pid : \A i \in DOMAIN rows[p] :
    /\ \A j \in DOMAIN rows[p] : i < j => Later(c, rows[p][i], rows[p][j])
    /\ \A j \in DOMAIN box : box[j] # 0 => Later(c, rows[p][i], box[j])

BoxInOrder(c, box) ==
  \A i, j \in DOMAIN box :
    i < j /\ box[i] # 0 /\ box[j] # 0 => Later(c, box[i], box[j])

NoneLost(c, of, acts, rows, box) ==
  \A n \in DOMAIN c : of[c[n]] \in E_Pid =>
    Has(acts, c[n]) \/ Has(rows[of[c[n]]], c[n]) \/ Has(box, c[n])

Line(c, of, acts, rows, box) ==
  /\ LineTypes(c, of, acts, rows, box) /\ Members(c, of, acts, rows, box)
  /\ ActsInOrder(c, of, acts, rows, box) /\ RowsInOrder(c, rows, box)
  /\ BoxInOrder(c, box) /\ NoneLost(c, of, acts, rows, box)

LEMMA AppendIs ==
  ASSUME NEW S, NEW s \in Seq(S), NEW x \in S
  PROVE  /\ Append(s, x) \in Seq(S)
         /\ Len(s) \in Nat /\ DOMAIN s = 1 .. Len(s)
         /\ DOMAIN Append(s, x) = 1 .. Len(s) + 1
         /\ Len(s) + 1 \in DOMAIN Append(s, x)
         /\ \A i \in DOMAIN s : /\ i \in DOMAIN Append(s, x) /\ i < Len(s) + 1
                                /\ Append(s, x)[i] = s[i]
         /\ \A i \in DOMAIN Append(s, x) :
              i = Len(s) + 1 \/ i \in DOMAIN s
         /\ Append(s, x)[Len(s) + 1] = x
  OBVIOUS

LEMMA TailIs ==
  ASSUME NEW S, NEW s \in Seq(S), s # <<>>
  PROVE  /\ Tail(s) \in Seq(S) /\ Head(s) \in S
         /\ 1 \in DOMAIN s /\ Head(s) = s[1]
         /\ \A i \in DOMAIN Tail(s) : /\ i \in Nat /\ i + 1 \in DOMAIN s /\ 1 < i + 1
                                      /\ Tail(s)[i] = s[i + 1]
         /\ \A i \in DOMAIN s :
              i = 1 \/ (i - 1 \in DOMAIN Tail(s) /\ s[i] = Tail(s)[i - 1])
  OBVIOUS

\* Where an entry of a list is after one more is appended, and before.
LEMMA AppendHas ==
  ASSUME NEW S, NEW s \in Seq(S), NEW x \in S
  PROVE  /\ Has(Append(s, x), x)
         /\ \A y : Has(s, y) => Has(Append(s, x), y)
         /\ \A y : Has(Append(s, x), y) => Has(s, y) \/ y = x
         /\ \A y, z : Later(s, y, z) => Later(Append(s, x), y, z)
         /\ \A y : Has(s, y) => Later(Append(s, x), y, x)
BY AppendIs DEF Has, Later

LEMMA TailHas ==
  ASSUME NEW S, NEW s \in Seq(S), s # <<>>
  PROVE  /\ \A y : Has(s, y) => y = Head(s) \/ Has(Tail(s), y)
         /\ \A y : Has(Tail(s), y) => Has(s, y)
<1>1. /\ 1 \in DOMAIN s /\ Head(s) = s[1]
      /\ \A i \in DOMAIN Tail(s) : i + 1 \in DOMAIN s /\ Tail(s)[i] = s[i + 1]
      /\ \A i \in DOMAIN s :
              i = 1 \/ (i - 1 \in DOMAIN Tail(s) /\ s[i] = Tail(s)[i - 1])
  BY TailIs
<1> QED BY <1>1 DEF Has

LEMMA LineCloses ==
  ASSUME NEW c, NEW of, NEW acts, NEW rows, NEW box,
         Line(c, of, acts, rows, box),
         NEW q \in E!Q, ~Has(c, q), NEW p \in E_Pid \cup {E_NoPid}
  PROVE  Line(Append(c, q), [of EXCEPT ![q] = p], acts, rows, Append(box, q))
<1> DEFINE d == Append(c, q)
           in == [of EXCEPT ![q] = p]
           tray == Append(box, q)
<1>1. LineTypes(c, of, acts, rows, box) /\ Members(c, of, acts, rows, box)
      /\ q \in E!Q \cup {0} /\ q # 0
  BY EscalationHolds DEF Line
<1>2. /\ d \in Seq(E!Q) /\ tray \in Seq(E!Q \cup {0})
      /\ \A y : Has(c, y) => Has(d, y) /\ Later(d, y, q) /\ y # q
      /\ Has(d, q) /\ \A y : Has(d, y) => Has(c, y) \/ y = q
      /\ \A y, z : Later(c, y, z) => Later(d, y, z)
      /\ Has(tray, q) /\ \A y : Has(box, y) => Has(tray, y)
  BY <1>1, AppendIs, AppendHas DEF LineTypes
<1>3. /\ \A j \in DOMAIN box : j \in DOMAIN tray /\ tray[j] = box[j]
      /\ \A j \in DOMAIN tray : j \in DOMAIN box \/ tray[j] = q
      /\ \A j, i \in DOMAIN tray :
           i < j => i \in DOMAIN box /\ (j \in DOMAIN box \/ tray[j] = q)
  BY <1>1, AppendIs DEF LineTypes
<1>4. /\ in \in [E!Q -> E_Pid \cup {E_NoPid}] /\ in[q] = p
      /\ \A r : Has(c, r) => in[r] = of[r]
  <2>1. \A r : Has(c, r) => r \in E!Q
    BY <1>1 DEF Has, LineTypes
  <2> QED BY <1>1, <1>2, <2>1 DEF LineTypes
<1>5. /\ Members(c, of, acts, rows, box) /\ ActsInOrder(c, of, acts, rows, box)
      /\ RowsInOrder(c, rows, box) /\ BoxInOrder(c, box)
      /\ NoneLost(c, of, acts, rows, box)
  BY DEF Line
<1>6. LineTypes(d, in, acts, rows, tray)
  BY <1>1, <1>2, <1>4 DEF LineTypes
<1>7. \A m, n \in DOMAIN d : d[m] = d[n] => m = n
  <2>1. /\ \A m \in DOMAIN d : \/ m \in DOMAIN c /\ d[m] = c[m] /\ d[m] # q
                               \/ m = Len(c) + 1 /\ d[m] = q
    BY <1>1, AppendIs DEF LineTypes, Has
  <2> QED BY <1>5, <2>1 DEF Members
<1> HIDE DEF d, in, tray
<1>8. Members(d, in, acts, rows, tray)
  BY <1>2, <1>3, <1>4, <1>5, <1>7 DEF Members
<1>9. ActsInOrder(d, in, acts, rows, tray)
  BY <1>2, <1>3, <1>4, <1>5 DEF Members, ActsInOrder
<1>10. RowsInOrder(d, rows, tray)
  BY <1>2, <1>3, <1>5 DEF Members, RowsInOrder
<1>11. BoxInOrder(d, tray)
  BY <1>2, <1>3, <1>5 DEF Members, BoxInOrder
<1>12. NoneLost(d, in, acts, rows, tray)
  <2> SUFFICES ASSUME NEW n \in DOMAIN d, in[d[n]] \in E_Pid
               PROVE  Has(acts, d[n]) \/ Has(rows[in[d[n]]], d[n]) \/ Has(tray, d[n])
    BY DEF NoneLost
  <2>1. CASE d[n] = q
    BY <1>2, <2>1
  <2>2. CASE Has(c, d[n])
    <3>1. PICK m \in DOMAIN c : c[m] = d[n]
      BY <2>2 DEF Has
    <3>2. in[d[n]] = of[d[n]] /\ of[c[m]] \in E_Pid
      BY <1>4, <2>2, <3>1
    <3>3. Has(acts, c[m]) \/ Has(rows[of[c[m]]], c[m]) \/ Has(box, c[m])
      BY <1>5, <3>2 DEF NoneLost
    <3> QED BY <1>2, <3>1, <3>2, <3>3
  <2>3. Has(d, d[n])
    BY DEF Has
  <2> QED BY <1>2, <2>1, <2>2, <2>3
<1>13. Line(d, in, acts, rows, tray)
  BY <1>6, <1>8, <1>9, <1>10, <1>11, <1>12 DEF Line
<1> QED BY <1>13 DEF d, in, tray

\* The sentinel changes nothing.
LEMMA LineStops ==
  ASSUME NEW c, NEW of, NEW acts, NEW rows, NEW box,
         Line(c, of, acts, rows, box)
  PROVE  Line(c, of, acts, rows, Append(box, 0))
<1> DEFINE tray == Append(box, 0)
<1>1. box \in Seq(E!Q \cup {0}) /\ 0 \in E!Q \cup {0}
  BY DEF Line, LineTypes
<1>2. /\ tray \in Seq(E!Q \cup {0})
      /\ \A j \in DOMAIN tray :
           (j \in DOMAIN box /\ tray[j] = box[j]) \/ tray[j] = 0
      /\ \A y : Has(box, y) => Has(tray, y)
  BY <1>1, AppendIs, AppendHas
<1> HIDE DEF tray
<1>3. Members(c, of, acts, rows, tray) /\ ActsInOrder(c, of, acts, rows, tray)
  BY <1>2 DEF Line, Members, ActsInOrder
<1>4. RowsInOrder(c, rows, tray) /\ BoxInOrder(c, tray)
  BY <1>2 DEF Line, RowsInOrder, BoxInOrder
<1>5. LineTypes(c, of, acts, rows, tray) /\ NoneLost(c, of, acts, rows, tray)
  BY <1>2 DEF Line, LineTypes, NoneLost
<1> QED BY <1>3, <1>4, <1>5 DEF Line, tray

\* Neither the sentinel nor a question that kills nothing has a lane.
LEMMA LineDrops ==
  ASSUME NEW c, NEW of, NEW acts, NEW rows, NEW box,
         Line(c, of, acts, rows, box),
         box # <<>>, Head(box) = 0 \/ of[Head(box)] = E_NoPid
  PROVE  Line(c, of, acts, rows, Tail(box))
<1> DEFINE tray == Tail(box)
<1>1. box \in Seq(E!Q \cup {0})
  BY DEF Line, LineTypes
<1>2. /\ tray \in Seq(E!Q \cup {0})
      /\ \A j \in DOMAIN tray : /\ j \in Nat /\ j + 1 \in DOMAIN box
                                /\ tray[j] = box[j + 1]
      /\ \A y : Has(box, y) => y = Head(box) \/ Has(tray, y)
  BY <1>1, TailIs, TailHas
<1> HIDE DEF tray
<1>3. Members(c, of, acts, rows, tray) /\ ActsInOrder(c, of, acts, rows, tray)
  BY <1>2 DEF Line, Members, ActsInOrder
<1>4. RowsInOrder(c, rows, tray) /\ BoxInOrder(c, tray)
  <2>1. \A i, j \in DOMAIN tray : i < j => i + 1 < j + 1
    BY <1>2
  <2> QED BY <1>2, <2>1 DEF Line, RowsInOrder, BoxInOrder
<1>5. NoneLost(c, of, acts, rows, tray)
  <2>1. \A n \in DOMAIN c : c[n] # 0
    BY EscalationHolds DEF Line, LineTypes
  <2> QED BY <1>2, <2>1, EscalationHolds DEF Line, NoneLost
<1>6. LineTypes(c, of, acts, rows, tray)
  BY <1>2 DEF Line, LineTypes
<1> QED BY <1>3, <1>4, <1>5, <1>6 DEF Line, tray

\* The head of the inbox goes to the lane of its process.
LEMMA LineRoutes ==
  ASSUME NEW c, NEW of, NEW acts, NEW rows, NEW box,
         Line(c, of, acts, rows, box),
         box # <<>>, Head(box) # 0, of[Head(box)] # E_NoPid
  PROVE  Line(c, of, acts,
              [rows EXCEPT ![of[Head(box)]] = Append(@, Head(box))], Tail(box))
<1> DEFINE q == Head(box)
           p == of[Head(box)]
           tray == Tail(box)
           rack == [rows EXCEPT ![p] = Append(@, q)]
<1>1. /\ box \in Seq(E!Q \cup {0}) /\ LineTypes(c, of, acts, rows, box)
      /\ Members(c, of, acts, rows, box) /\ ActsInOrder(c, of, acts, rows, box)
      /\ RowsInOrder(c, rows, box) /\ BoxInOrder(c, box)
      /\ NoneLost(c, of, acts, rows, box)
  BY DEF Line, LineTypes
<1>2. /\ tray \in Seq(E!Q \cup {0}) /\ q \in E!Q \cup {0}
      /\ 1 \in DOMAIN box /\ q = box[1]
      /\ \A j \in DOMAIN tray : /\ j \in Nat /\ j + 1 \in DOMAIN box /\ 1 < j + 1
                                /\ tray[j] = box[j + 1]
      /\ \A y : Has(box, y) => y = q \/ Has(tray, y)
  BY <1>1, TailIs, TailHas
<1>3. q \in E!Q /\ q # 0 /\ p \in E_Pid /\ rows[p] \in Seq(E!Q) /\ Has(c, q)
  BY <1>1, <1>2 DEF LineTypes, Members
<1>4. /\ rack \in [E_Pid -> Seq(E!Q)]
      /\ rack[p] = Append(rows[p], q)
      /\ \A x \in E_Pid : x # p => rack[x] = rows[x]
  BY <1>1, <1>3, AppendIs DEF LineTypes
<1>5. /\ \A i \in DOMAIN rack[p] :
           \/ i \in DOMAIN rows[p] /\ rack[p][i] = rows[p][i]
           \/ rack[p][i] = q /\ \A j \in DOMAIN rack[p] : ~(i < j)
      /\ Has(rack[p], q) /\ \A y : Has(rows[p], y) => Has(rack[p], y)
  BY <1>3, <1>4, AppendIs, AppendHas
<1> HIDE DEF tray, rack, q, p
<1>6. LineTypes(c, of, acts, rack, tray)
  BY <1>1, <1>2, <1>4 DEF LineTypes
<1>7. of[q] = p
  BY DEF q, p
<1>8. Members(c, of, acts, rack, tray)
  <2>1. ASSUME NEW x \in E_Pid, NEW i \in DOMAIN rack[x]
        PROVE  Has(c, rack[x][i]) /\ of[rack[x][i]] = x
    <3>1. CASE x # p
      BY <1>1, <1>4, <3>1 DEF Members
    <3>2. CASE x = p
      BY <1>1, <1>3, <1>5, <1>7, <3>2 DEF Members
    <3> QED BY <3>1, <3>2
  <2>2. \A j \in DOMAIN tray : tray[j] # 0 => Has(c, tray[j])
    BY <1>1, <1>2 DEF Members
  <2> QED BY <1>1, <2>1, <2>2 DEF Members
<1>9. \A j \in DOMAIN box : 1 < j /\ box[j] # 0 => Later(c, q, box[j])
  BY <1>1, <1>2, <1>3 DEF BoxInOrder
<1>10. ActsInOrder(c, of, acts, rack, tray)
  <2> SUFFICES ASSUME NEW k \in DOMAIN acts
               PROVE  /\ \A l \in DOMAIN acts :
                           k < l /\ of[acts[k]] = of[acts[l]]
                             => Later(c, acts[k], acts[l])
                      /\ \A i \in DOMAIN rack[of[acts[k]]] :
                           Later(c, acts[k], rack[of[acts[k]]][i])
                      /\ \A j \in DOMAIN tray :
                           tray[j] # 0 => Later(c, acts[k], tray[j])
    BY DEF ActsInOrder
  <2>1. of[acts[k]] \in E_Pid
    BY <1>1 DEF Members
  <2>2. Later(c, acts[k], q)
    BY <1>1, <1>2, <1>3 DEF ActsInOrder
  <2>3. \A i \in DOMAIN rack[of[acts[k]]] :
          Later(c, acts[k], rack[of[acts[k]]][i])
    BY <1>1, <1>4, <1>5, <2>1, <2>2 DEF ActsInOrder
  <2> QED BY <1>1, <1>2, <2>3 DEF ActsInOrder
<1>11. RowsInOrder(c, rack, tray)
  <2> SUFFICES ASSUME NEW x \in E_Pid, NEW i \in DOMAIN rack[x]
               PROVE  /\ \A j \in DOMAIN rack[x] :
                           i < j => Later(c, rack[x][i], rack[x][j])
                      /\ \A j \in DOMAIN tray :
                           tray[j] # 0 => Later(c, rack[x][i], tray[j])
    BY DEF RowsInOrder
  <2>1. CASE x # p
    BY <1>1, <1>2, <1>4, <2>1 DEF RowsInOrder
  <2>2. CASE x = p /\ i \in DOMAIN rows[p] /\ rack[p][i] = rows[p][i]
    <3>1. Later(c, rack[p][i], q)
      BY <1>1, <1>2, <1>3, <2>2 DEF RowsInOrder
    <3>2. \A j \in DOMAIN rack[p] : i < j => Later(c, rack[p][i], rack[p][j])
      BY <1>1, <1>3, <1>5, <2>2, <3>1 DEF RowsInOrder
    <3>3. \A j \in DOMAIN tray : tray[j] # 0 => Later(c, rack[p][i], tray[j])
      BY <1>1, <1>2, <1>3, <2>2 DEF RowsInOrder
    <3> QED BY <2>2, <3>2, <3>3
  <2>3. CASE x = p /\ rack[p][i] = q /\ \A j \in DOMAIN rack[p] : ~(i < j)
    BY <1>2, <1>9, <2>3
  <2> QED BY <1>5, <2>1, <2>2, <2>3
<1>12. BoxInOrder(c, tray)
  <2>1. \A i, j \in DOMAIN tray : i < j => i + 1 < j + 1
    BY <1>2
  <2> QED BY <1>1, <1>2, <2>1 DEF BoxInOrder
<1>13. NoneLost(c, of, acts, rack, tray)
  <2> SUFFICES ASSUME NEW n \in DOMAIN c, of[c[n]] \in E_Pid
               PROVE  Has(acts, c[n]) \/ Has(rack[of[c[n]]], c[n])
                      \/ Has(tray, c[n])
    BY DEF NoneLost
  <2>1. Has(acts, c[n]) \/ Has(rows[of[c[n]]], c[n]) \/ Has(box, c[n])
    BY <1>1 DEF NoneLost
  <2>2. Has(rows[of[c[n]]], c[n]) => Has(rack[of[c[n]]], c[n])
    BY <1>4, <1>5
  <2>3. Has(box, c[n]) => Has(rack[of[c[n]]], c[n]) \/ Has(tray, c[n])
    BY <1>2, <1>5, <1>7
  <2> QED BY <2>1, <2>2, <2>3
<1>14. Line(c, of, acts, rack, tray)
  BY <1>6, <1>8, <1>10, <1>11, <1>12, <1>13 DEF Line
<1> QED BY <1>14 DEF rack, tray, p, q

\* The first question of a lane is acted on.
LEMMA LineActs ==
  ASSUME NEW c, NEW of, NEW acts, NEW rows, NEW box,
         Line(c, of, acts, rows, box),
         NEW p \in E_Pid, rows[p] # <<>>
  PROVE  Line(c, of, Append(acts, Head(rows[p])),
              [rows EXCEPT ![p] = Tail(@)], box)
<1> DEFINE q == Head(rows[p])
           done == Append(acts, q)
           rack == [rows EXCEPT ![p] = Tail(@)]
<1>1. /\ rows[p] \in Seq(E!Q) /\ LineTypes(c, of, acts, rows, box)
      /\ Members(c, of, acts, rows, box) /\ ActsInOrder(c, of, acts, rows, box)
      /\ RowsInOrder(c, rows, box) /\ BoxInOrder(c, box)
      /\ NoneLost(c, of, acts, rows, box)
  BY DEF Line, LineTypes
<1>2. /\ Tail(rows[p]) \in Seq(E!Q) /\ q \in E!Q
      /\ 1 \in DOMAIN rows[p] /\ q = rows[p][1]
      /\ \A i \in DOMAIN Tail(rows[p]) :
           /\ i \in Nat /\ i + 1 \in DOMAIN rows[p] /\ 1 < i + 1
           /\ Tail(rows[p])[i] = rows[p][i + 1]
      /\ \A y : Has(rows[p], y) => y = q \/ Has(Tail(rows[p]), y)
  BY <1>1, TailIs, TailHas
<1>3. /\ rack \in [E_Pid -> Seq(E!Q)] /\ rack[p] = Tail(rows[p])
      /\ \A x \in E_Pid : x # p => rack[x] = rows[x]
  BY <1>1, <1>2 DEF LineTypes
<1>4. /\ done \in Seq(E!Q)
      /\ \A k \in DOMAIN done :
           \/ k \in DOMAIN acts /\ done[k] = acts[k]
           \/ done[k] = q /\ \A l \in DOMAIN done : ~(k < l)
      /\ Has(done, q) /\ \A y : Has(acts, y) => Has(done, y)
  <2>1. acts \in Seq(E!Q)
    BY <1>1 DEF LineTypes
  <2> QED BY <1>2, <2>1, AppendIs, AppendHas
<1>5. Has(c, q) /\ of[q] = p
  BY <1>1, <1>2 DEF Members
<1> HIDE DEF q, done, rack
<1>6. LineTypes(c, of, done, rack, box)
  BY <1>1, <1>3, <1>4 DEF LineTypes
<1>7. Members(c, of, done, rack, box)
  <2>1. ASSUME NEW x \in E_Pid, NEW i \in DOMAIN rack[x]
        PROVE  Has(c, rack[x][i]) /\ of[rack[x][i]] = x
    <3>1. CASE x # p
      BY <1>1, <1>3, <3>1 DEF Members
    <3>2. CASE x = p
      <4>1. i + 1 \in DOMAIN rows[p] /\ rack[x][i] = rows[p][i + 1]
        BY <1>2, <1>3, <3>2
      <4> QED BY <1>1, <3>2, <4>1 DEF Members
    <3> QED BY <3>1, <3>2
  <2>2. \A k \in DOMAIN done : Has(c, done[k]) /\ of[done[k]] \in E_Pid
    BY <1>1, <1>4, <1>5 DEF Members
  <2> QED BY <1>1, <2>1, <2>2 DEF Members
<1>8. /\ \A i \in DOMAIN rack[p] : Later(c, q, rack[p][i])
      /\ \A j \in DOMAIN box : box[j] # 0 => Later(c, q, box[j])
  BY <1>1, <1>2, <1>3 DEF RowsInOrder
<1>9. ActsInOrder(c, of, done, rack, box)
  <2> SUFFICES ASSUME NEW k \in DOMAIN done
               PROVE  /\ \A l \in DOMAIN done :
                           k < l /\ of[done[k]] = of[done[l]]
                             => Later(c, done[k], done[l])
                      /\ \A i \in DOMAIN rack[of[done[k]]] :
                           Later(c, done[k], rack[of[done[k]]][i])
                      /\ \A j \in DOMAIN box :
                           box[j] # 0 => Later(c, done[k], box[j])
    BY DEF ActsInOrder
  <2>1. CASE done[k] = q /\ \A l \in DOMAIN done : ~(k < l)
    BY <1>5, <1>8, <2>1
  <2>2. CASE k \in DOMAIN acts /\ done[k] = acts[k]
    <3>1. of[acts[k]] \in E_Pid
      BY <1>1, <2>2 DEF Members
    <3>2. of[acts[k]] = p => Later(c, acts[k], q)
      BY <1>1, <1>2, <2>2 DEF ActsInOrder
    <3>3. \A l \in DOMAIN done :
            k < l /\ of[done[k]] = of[done[l]] => Later(c, done[k], done[l])
      BY <1>1, <1>4, <1>5, <2>2, <3>2 DEF ActsInOrder
    <3>4. \A i \in DOMAIN rack[of[acts[k]]] :
            Later(c, acts[k], rack[of[acts[k]]][i])
      <4>1. \A i \in DOMAIN rows[of[acts[k]]] :
              Later(c, acts[k], rows[of[acts[k]]][i])
        BY <1>1, <2>2 DEF ActsInOrder
      <4>2. CASE of[acts[k]] # p
        BY <1>3, <3>1, <4>1, <4>2
      <4>3. CASE of[acts[k]] = p
        <5>1. \A i \in DOMAIN rack[p] : /\ i + 1 \in DOMAIN rows[p]
                                        /\ rack[p][i] = rows[p][i + 1]
          BY <1>2, <1>3
        <5> QED BY <4>1, <4>3, <5>1
      <4> QED BY <4>2, <4>3
    <3> QED BY <1>1, <2>2, <3>3, <3>4 DEF ActsInOrder
  <2> QED BY <1>4, <2>1, <2>2
<1>10. RowsInOrder(c, rack, box)
  <2>1. \A i, j \in DOMAIN rack[p] : i < j => i + 1 < j + 1
    BY <1>2, <1>3
  <2> SUFFICES ASSUME NEW x \in E_Pid, NEW i \in DOMAIN rack[x]
               PROVE  /\ \A j \in DOMAIN rack[x] :
                           i < j => Later(c, rack[x][i], rack[x][j])
                      /\ \A j \in DOMAIN box :
                           box[j] # 0 => Later(c, rack[x][i], box[j])
    BY DEF RowsInOrder
  <2>2. CASE x # p
    BY <1>1, <1>3, <2>2 DEF RowsInOrder
  <2>3. CASE x = p
    <3>1. i + 1 \in DOMAIN rows[p] /\ rack[p][i] = rows[p][i + 1]
      BY <1>2, <1>3, <2>3
    <3>2. ASSUME NEW j \in DOMAIN rack[p], i < j
          PROVE  Later(c, rack[p][i], rack[p][j])
      <4>1. j + 1 \in DOMAIN rows[p] /\ rack[p][j] = rows[p][j + 1]
        BY <1>2, <1>3
      <4>2. i + 1 < j + 1
        BY <2>1, <2>3, <3>2
      <4> QED BY <1>1, <3>1, <4>1, <4>2 DEF RowsInOrder
    <3>3. \A j \in DOMAIN box : box[j] # 0 => Later(c, rack[p][i], box[j])
      BY <1>1, <3>1 DEF RowsInOrder
    <3> QED BY <2>3, <3>2, <3>3
  <2> QED BY <2>2, <2>3
<1>11. NoneLost(c, of, done, rack, box)
  <2> SUFFICES ASSUME NEW n \in DOMAIN c, of[c[n]] \in E_Pid
               PROVE  Has(done, c[n]) \/ Has(rack[of[c[n]]], c[n])
                      \/ Has(box, c[n])
    BY DEF NoneLost
  <2>1. Has(acts, c[n]) \/ Has(rows[of[c[n]]], c[n]) \/ Has(box, c[n])
    BY <1>1 DEF NoneLost
  <2>2. Has(rows[of[c[n]]], c[n]) => Has(rack[of[c[n]]], c[n]) \/ c[n] = q
    BY <1>2, <1>3
  <2> QED BY <1>4, <2>1, <2>2
<1>12. Line(c, of, done, rack, box)
  BY <1>1, <1>6, <1>7, <1>9, <1>10, <1>11 DEF Line
<1> QED BY <1>12 DEF done, rack, q

-------------------------------------------------------------------------------
(* The escalator's invariant: its line, and the lanes' line of ready PIDs. *)

KillWorkers == [st : {"up", "act", "hand", "gone"}, item : E!Item]
Acts1(w) == E_worker[w].st = "act"
PidOf(w) == E_pid[E_worker[w].item.q]

ClosedAre ==
  /\ E_stage \in [E!Q -> {"none", "queued", "open", "closed"}]
  /\ \A q \in E!Q : E_stage[q] = "closed" <=> Has(E_closings, q)

\* A PID is busy while a worker acts on it, one worker.
BusyAre ==
  /\ E_worker \in [E_Worker -> KillWorkers] /\ E_busy \subseteq E_Pid
  /\ \A w \in E_Worker : Acts1(w) =>
       /\ E_worker[w].item.q \in E!Q /\ Has(E_closings, E_worker[w].item.q)
       /\ PidOf(w) \in E_busy
  /\ \A p \in E_busy : \E w \in E_Worker : Acts1(w) /\ PidOf(w) = p
  /\ \A v, w \in E_Worker : Acts1(v) /\ Acts1(w) /\ PidOf(v) = PidOf(w) => v = w

ReadyAre ==
  /\ E_ready \in Seq(E_Pid)
  /\ \A i, j \in DOMAIN E_ready : E_ready[i] = E_ready[j] => i = j
  /\ \A p \in E_Pid : Has(E_ready, p) <=> E_lanes[p] # <<>> /\ p \notin E_busy

\* Workers leave only closed lanes, and the last leaves none of them ready.
StoppingIs ==
  /\ E_intake \in {"up", "draining", "joining", "last", "gone"}
  /\ E_lanesClosed <=> E_intake \in {"joining", "last", "gone"}
  /\ \A w \in E_Worker : E_worker[w] = E!Gone => E_lanesClosed
  /\ E!WorkersGone => E_ready = <<>>
  /\ E_intake \in {"last", "gone"} => E!WorkersGone

EscalatorInv ==
  /\ Line(E_closings, E_pid, E_acted, E_lanes, E_inbox)
  /\ ClosedAre /\ BusyAre /\ ReadyAre /\ StoppingIs

LEMMA EscalatorInit == E!Init => EscalatorInv
<1> SUFFICES ASSUME E!Init PROVE EscalatorInv
  OBVIOUS
<1>1. \A S : /\ <<>> \in Seq(S) /\ DOMAIN <<>> = {}
  OBVIOUS
<1>2. LineTypes(E_closings, E_pid, E_acted, E_lanes, E_inbox)
  BY <1>1 DEF E!Init, LineTypes
<1>3. Line(E_closings, E_pid, E_acted, E_lanes, E_inbox)
  BY <1>1, <1>2
  DEF E!Init, Line, Members, ActsInOrder, RowsInOrder, BoxInOrder, NoneLost
<1>4. ClosedAre
  BY <1>1 DEF E!Init, ClosedAre, Has
<1>5. E!Up \in KillWorkers /\ E!Up # E!Gone /\ E!Up.st # "act"
  BY EscalationHolds DEF E!Up, E!Gone, KillWorkers, E!Nothing, E!Thing, E!Item, E!Sentinel
<1>6. BusyAre
  BY <1>5 DEF E!Init, BusyAre, Acts1
<1>7. ReadyAre
  BY <1>1 DEF E!Init, ReadyAre, Has
<1>8. StoppingIs
  BY <1>5, EscalationHolds DEF E!Init, StoppingIs, E!WorkersGone
<1> QED BY <1>3, <1>4, <1>6, <1>7, <1>8 DEF EscalatorInv

\* What the invariant is about.
LineIsAsItWas ==
  UNCHANGED <<E_stage, E_pid, E_closings, E_acted, E_inbox, E_intake, E_lanes,
              E_ready, E_busy, E_lanesClosed, E_worker>>

LEMMA OthersKeepTheLine ==
  ASSUME EscalatorInv, LineIsAsItWas
  PROVE  EscalatorInv'
<1>1. Line(E_closings, E_pid, E_acted, E_lanes, E_inbox)'
  BY DEF EscalatorInv, LineIsAsItWas
<1>2. ClosedAre' /\ ReadyAre'
  BY DEF EscalatorInv, LineIsAsItWas, ClosedAre, ReadyAre
<1>3. BusyAre'
  BY DEF EscalatorInv, LineIsAsItWas, BusyAre, Acts1, PidOf
<1>4. StoppingIs'
  BY DEF EscalatorInv, LineIsAsItWas, StoppingIs, E!WorkersGone
<1> QED BY <1>1, <1>2, <1>3, <1>4 DEF EscalatorInv

LEMMA OtherThreadsAreOther ==
  E!DrainStep \/ E!TailStep \/ E!WriterStep \/ UNCHANGED E_vars => LineIsAsItWas
<1>1. E!DrainStep => LineIsAsItWas
  BY DEF E!DrainStep, E!DrainTakes, E!DrainRuns, E!DrainHands, E!DrainRecords,
         LineIsAsItWas, E!incidentVars, E!laneVars, E!askVars
<1>2. E!TailStep => LineIsAsItWas
  BY DEF E!TailStep, E!TailTakes, E!TailWrites, E!TailSettles,
         LineIsAsItWas, E!incidentVars, E!laneVars, E!askVars
<1>3. E!WriterStep => LineIsAsItWas
  BY DEF E!WriterStep, E!WriterTakes, E!WriterWrites, E!WriterQueues,
         LineIsAsItWas, E!incidentVars, E!laneVars, E!askVars
<1>4. UNCHANGED E_vars => LineIsAsItWas
  BY DEF E_vars, LineIsAsItWas
<1> QED BY <1>1, <1>2, <1>3, <1>4

\* A lane thread queues or opens a question: none is closed by it.
LEMMA LaneStepKeeps ==
  ASSUME EscalatorInv, E!LaneStep
  PROVE  EscalatorInv'
<1>1. PICK q \in E!Q, st \in {"queued", "open"} :
        /\ E_stage[q] # "closed" /\ E_stage' = [E_stage EXCEPT ![q] = st]
  BY DEF E!LaneStep, E!Detect, E!Open
<1>2. UNCHANGED <<E_pid, E_closings, E_acted, E_inbox, E_intake, E_lanes,
                  E_ready, E_busy, E_lanesClosed, E_worker>>
  BY DEF E!LaneStep, E!Detect, E!Open, E!laneVars, E!askVars
<1>3. ClosedAre'
  BY <1>1, <1>2 DEF EscalatorInv, ClosedAre
<1>4. Line(E_closings, E_pid, E_acted, E_lanes, E_inbox)'
  BY <1>2 DEF EscalatorInv
<1>5. ReadyAre'
  BY <1>2 DEF EscalatorInv, ReadyAre
<1>6. BusyAre'
  BY <1>2 DEF EscalatorInv, BusyAre, Acts1, PidOf
<1>7. StoppingIs'
  BY <1>2 DEF EscalatorInv, StoppingIs, E!WorkersGone
<1> QED BY <1>3, <1>4, <1>5, <1>6, <1>7 DEF EscalatorInv

\* Once the intake is gone the lanes are empty: a fresh escalator loses none.
LEMMA GoneLeavesNothing ==
  ASSUME EscalatorInv, E_intake = "gone"
  PROVE  /\ E_ready = <<>> /\ E_busy = {}
         /\ E_lanes = [p \in E_Pid |-> <<>>]
         /\ \A w \in E_Worker : E_worker[w] = E!Gone
<1>1. E!WorkersGone /\ E_ready = <<>>
  BY DEF EscalatorInv, StoppingIs
<1>2. \A w \in E_Worker : ~Acts1(w)
  BY <1>1 DEF E!WorkersGone, E!Gone, Acts1
<1>3. E_busy = {}
  BY <1>2 DEF EscalatorInv, BusyAre
<1>4. \A p \in E_Pid : E_lanes[p] = <<>>
  BY <1>1, <1>3 DEF EscalatorInv, ReadyAre, Has
<1>5. E_lanes \in [E_Pid -> Seq(E!Q)]
  BY DEF EscalatorInv, Line, LineTypes
<1> QED BY <1>1, <1>3, <1>4, <1>5 DEF E!WorkersGone

LEMMA CloseKeeps ==
  ASSUME EscalatorInv, NEW q \in E!Q, NEW p \in E_Pid \cup {E_NoPid},
         E!Close(q, p)
  PROVE  EscalatorInv'
<1>1. /\ E_stage[q] = "open" /\ E_stage' = [E_stage EXCEPT ![q] = "closed"]
      /\ E_pid' = [E_pid EXCEPT ![q] = p]
      /\ E_closings' = Append(E_closings, q) /\ E_inbox' = Append(E_inbox, q)
      /\ E_acted' = E_acted
  BY DEF E!Close
<1>2. /\ E_closings \in Seq(E!Q) /\ E_pid \in [E!Q -> E_Pid \cup {E_NoPid}]
      /\ E_stage \in [E!Q -> {"none", "queued", "open", "closed"}]
      /\ ~Has(E_closings, q)
  BY <1>1 DEF EscalatorInv, Line, LineTypes, ClosedAre
<1>3. E_lanes' = E_lanes /\ E_ready' = E_ready /\ E_busy' = E_busy
  BY GoneLeavesNothing DEF E!Close, E!laneVars
<1>4. Line(E_closings, E_pid, E_acted, E_lanes, E_inbox)'
  BY <1>1, <1>2, <1>3, LineCloses DEF EscalatorInv
<1>5. /\ Has(E_closings', q)
      /\ \A r : Has(E_closings, r) => Has(E_closings', r) /\ r # q
      /\ \A r : Has(E_closings', r) => Has(E_closings, r) \/ r = q
  BY <1>1, <1>2, AppendHas
<1>6. ClosedAre'
  BY <1>1, <1>2, <1>5 DEF EscalatorInv, ClosedAre
<1>7. ReadyAre'
  BY <1>3 DEF EscalatorInv, ReadyAre
<1>8. \A r \in E!Q : Has(E_closings, r) => E_pid'[r] = E_pid[r]
  BY <1>1, <1>2, <1>5
<1>9. CASE E_intake # "gone"
  <2>1. UNCHANGED <<E_intake, E_worker, E_lanesClosed>>
    BY <1>9 DEF E!Close, E!laneVars
  <2>2. \A w \in E_Worker : Acts1(w) => PidOf(w)' = PidOf(w)
    BY <1>8, <2>1 DEF EscalatorInv, BusyAre, PidOf
  <2>3. BusyAre'
    <3>1. \A w \in E_Worker : Acts1(w)' <=> Acts1(w)
      BY <2>1 DEF Acts1
    <3>2. /\ E_worker' \in [E_Worker -> KillWorkers] /\ E_busy' \subseteq E_Pid
      BY <1>3, <2>1 DEF EscalatorInv, BusyAre
    <3> QED BY <1>3, <1>5, <2>1, <2>2, <3>1, <3>2 DEF EscalatorInv, BusyAre
  <2>4. StoppingIs'
    BY <1>3, <2>1 DEF EscalatorInv, StoppingIs, E!WorkersGone
  <2> QED BY <1>4, <1>6, <1>7, <2>3, <2>4 DEF EscalatorInv
<1>10. CASE E_intake = "gone"
  <2>1. /\ E_ready' = <<>> /\ E_busy' = {} /\ E_intake' = "up"
        /\ E_worker' = [w \in E_Worker |-> E!Up] /\ E_lanesClosed' = FALSE
    BY <1>3, <1>10, GoneLeavesNothing DEF E!Close
  <2>2. E!Up \in KillWorkers /\ E!Up # E!Gone /\ E!Up.st # "act"
    BY EscalationHolds
    DEF E!Up, E!Gone, KillWorkers, E!Nothing, E!Thing, E!Item, E!Sentinel
  <2>3. BusyAre'
    BY <2>1, <2>2 DEF BusyAre, Acts1
  <2>4. StoppingIs'
    BY <2>1, <2>2, EscalationHolds DEF StoppingIs, E!WorkersGone
  <2> QED BY <1>4, <1>6, <1>7, <2>3, <2>4 DEF EscalatorInv
<1> QED BY <1>9, <1>10

LEMMA StopAskedKeeps ==
  ASSUME EscalatorInv, E!StopAsked
  PROVE  EscalatorInv'
<1>1. /\ E_inbox' = Append(E_inbox, 0)
      /\ UNCHANGED <<E_stage, E_pid, E_closings, E_acted, E_intake, E_lanes,
                     E_ready, E_busy, E_lanesClosed, E_worker>>
  BY DEF E!StopAsked, E!Sentinel, E!incidentVars, E!laneVars, E!askVars
<1>2. Line(E_closings, E_pid, E_acted, E_lanes, E_inbox)'
  BY <1>1, LineStops DEF EscalatorInv
<1>3. ClosedAre' /\ ReadyAre'
  BY <1>1 DEF EscalatorInv, ClosedAre, ReadyAre
<1>4. BusyAre'
  BY <1>1 DEF EscalatorInv, BusyAre, Acts1, PidOf
<1>5. StoppingIs'
  BY <1>1 DEF EscalatorInv, StoppingIs, E!WorkersGone
<1> QED BY <1>2, <1>3, <1>4, <1>5 DEF EscalatorInv

\* The intake, but for a question that goes to a lane.
LEMMA IntakeKeeps ==
  ASSUME EscalatorInv,
         E!SeesSentinel \/ E!ClosesLanes \/ E!StopsWriter \/ E!IntakeEnds
  PROVE  EscalatorInv'
<1>1. UNCHANGED <<E_stage, E_pid, E_closings, E_acted, E_lanes, E_ready, E_busy,
                  E_worker>>
  BY DEF E!SeesSentinel, E!ClosesLanes, E!StopsWriter, E!IntakeEnds,
         E!incidentVars, E!laneVars, E!askVars
<1>2. \/ E_inbox' = E_inbox
      \/ E_inbox # <<>> /\ Head(E_inbox) = 0 /\ E_inbox' = Tail(E_inbox)
  BY DEF E!SeesSentinel, E!ClosesLanes, E!StopsWriter, E!IntakeEnds, E!Sentinel
<1>3. Line(E_closings, E_pid, E_acted, E_lanes, E_inbox)'
  <2>1. CASE E_inbox' = E_inbox
    BY <1>1, <2>1 DEF EscalatorInv
  <2>2. CASE E_inbox # <<>> /\ Head(E_inbox) = 0 /\ E_inbox' = Tail(E_inbox)
    BY <1>1, <2>2, LineDrops DEF EscalatorInv
  <2> QED BY <1>2, <2>1, <2>2
<1>4. ClosedAre' /\ ReadyAre'
  BY <1>1 DEF EscalatorInv, ClosedAre, ReadyAre
<1>5. BusyAre'
  BY <1>1 DEF EscalatorInv, BusyAre, Acts1, PidOf
<1>6. StoppingIs'
  <2>1. \/ E_intake = "up" /\ E_intake' = "draining" /\ E_lanesClosed' = E_lanesClosed
        \/ E_intake = "draining" /\ E_intake' = "joining" /\ E_lanesClosed' = TRUE
        \/ /\ E_intake = "joining" /\ E_intake' = "last" /\ E!WorkersGone
           /\ E_lanesClosed' = E_lanesClosed
        \/ E_intake = "last" /\ E_intake' = "gone" /\ E_lanesClosed' = E_lanesClosed
    BY DEF E!SeesSentinel, E!ClosesLanes, E!StopsWriter, E!IntakeEnds, E!laneVars
  <2> QED BY <1>1, <2>1 DEF EscalatorInv, StoppingIs, E!WorkersGone
<1> QED BY <1>3, <1>4, <1>5, <1>6 DEF EscalatorInv

\* A PID that was not in the ready line goes to its end.
ReadyGrows(old, new, p) ==
  /\ new \in Seq(E_Pid)
  /\ \A i, j \in DOMAIN new : new[i] = new[j] => i = j
  /\ \A x \in E_Pid : Has(new, x) <=> Has(old, x) \/ x = p

LEMMA ReadyAppends ==
  ASSUME NEW old \in Seq(E_Pid), NEW p \in E_Pid, ~Has(old, p),
         \A i, j \in DOMAIN old : old[i] = old[j] => i = j
  PROVE  ReadyGrows(old, Append(old, p), p)
<1> DEFINE new == Append(old, p)
<1>1. /\ new \in Seq(E_Pid)
      /\ \A i \in DOMAIN new : \/ i \in DOMAIN old /\ new[i] = old[i]
                               \/ i = Len(old) + 1 /\ new[i] = p
      /\ \A x : Has(old, x) => Has(new, x)
      /\ Has(new, p) /\ \A x : Has(new, x) => Has(old, x) \/ x = p
  BY AppendIs, AppendHas
<1>2. \A i \in DOMAIN old : old[i] # p
  BY DEF Has
<1> HIDE DEF new
<1>3. ReadyGrows(old, new, p)
  BY <1>1, <1>2 DEF ReadyGrows
<1> QED BY <1>3 DEF new

\* While the intake still routes, no worker has left.
LEMMA RouteKeeps ==
  ASSUME EscalatorInv, E!Route
  PROVE  EscalatorInv'
<1> DEFINE q == Head(E_inbox)
           p == E_pid[q]
<1>1. /\ E_intake \in {"up", "draining"} /\ E_inbox # <<>> /\ q # 0
      /\ E_inbox' = Tail(E_inbox)
      /\ UNCHANGED <<E_stage, E_pid, E_closings, E_acted, E_intake, E_worker>>
      /\ E_busy' = E_busy /\ E_lanesClosed' = E_lanesClosed
  BY DEF E!Route, E!PutLane, E!Sentinel, E!incidentVars, E!laneVars, E!askVars
<1>2. ClosedAre' /\ BusyAre'
  BY <1>1 DEF EscalatorInv, ClosedAre, BusyAre, Acts1, PidOf
<1>3. ~E!WorkersGone /\ \A w \in E_Worker : E_worker[w] # E!Gone
  BY <1>1, EscalationHolds DEF EscalatorInv, StoppingIs, E!WorkersGone
<1>4. StoppingIs'
  BY <1>1, <1>3 DEF EscalatorInv, StoppingIs, E!WorkersGone
<1>5. CASE p = E_NoPid
  <2>1. E_lanes' = E_lanes /\ E_ready' = E_ready
    BY <1>5 DEF E!Route, E!laneVars
  <2>2. Line(E_closings, E_pid, E_acted, E_lanes, E_inbox)'
    BY <1>1, <1>5, <2>1, LineDrops DEF EscalatorInv
  <2>3. ReadyAre'
    BY <1>1, <2>1 DEF EscalatorInv, ReadyAre
  <2> QED BY <1>2, <1>4, <2>2, <2>3 DEF EscalatorInv
<1>6. CASE p # E_NoPid
  <2>1. E!PutLane(p, q)
    BY <1>6 DEF E!Route
  <2>2. E_lanes' = [E_lanes EXCEPT ![p] = Append(@, q)]
    BY <2>1 DEF E!PutLane
  <2>3. Line(E_closings, E_pid, E_acted, E_lanes, E_inbox)'
    BY <1>1, <1>6, <2>2, LineRoutes DEF EscalatorInv
  <2>4. /\ E_inbox \in Seq(E!Q \cup {0})
        /\ E_pid \in [E!Q -> E_Pid \cup {E_NoPid}]
        /\ E_lanes \in [E_Pid -> Seq(E!Q)]
    BY DEF EscalatorInv, Line, LineTypes
  <2>5. q \in E!Q /\ p \in E_Pid
    <3>1. q \in E!Q \cup {0}
      BY <1>1, <2>4, TailIs
    <3> QED BY <1>1, <1>6, <2>4, <3>1
  <2>6. /\ E_lanes'[p] # <<>>
        /\ \A x \in E_Pid : x # p => E_lanes'[x] = E_lanes[x]
    <3>1. E_lanes'[p] = Append(E_lanes[p], q) /\ E_lanes[p] \in Seq(E!Q)
      BY <2>2, <2>4, <2>5
    <3>2. Append(E_lanes[p], q) # <<>>
      BY <2>5, <3>1
    <3> QED BY <2>2, <2>4, <3>1, <3>2
  <2>7. ReadyAre'
    <3>1. /\ E_ready \in Seq(E_Pid)
          /\ \A i, j \in DOMAIN E_ready : E_ready[i] = E_ready[j] => i = j
          /\ \A x \in E_Pid : Has(E_ready, x) <=> E_lanes[x] # <<>> /\ x \notin E_busy
      BY DEF EscalatorInv, ReadyAre
    <3> HIDE DEF p, q
    <3>2. CASE E_lanes[p] = <<>> /\ p \notin E_busy
      <4>1. E_ready' = Append(E_ready, p) /\ ~Has(E_ready, p)
        BY <2>1, <2>5, <3>1, <3>2 DEF E!PutLane, E!MadeReady
      <4>2. ReadyGrows(E_ready, E_ready', p)
        BY <2>5, <3>1, <4>1, ReadyAppends
      <4> QED BY <1>1, <2>5, <2>6, <3>1, <3>2, <4>2 DEF ReadyAre, ReadyGrows
    <3>3. CASE ~(E_lanes[p] = <<>> /\ p \notin E_busy)
      <4>1. E_ready' = E_ready
        BY <2>1, <3>3 DEF E!PutLane, E!MadeReady
      <4> QED BY <1>1, <2>5, <2>6, <3>1, <3>3, <4>1 DEF ReadyAre
    <3> QED BY <3>2, <3>3
  <2> QED BY <1>2, <1>4, <2>3, <2>7 DEF EscalatorInv
<1> QED BY <1>5, <1>6

\* The head of the ready line leaves it.
ReadyLess(old, new, p) ==
  /\ new \in Seq(E_Pid)
  /\ \A i, j \in DOMAIN new : new[i] = new[j] => i = j
  /\ \A x \in E_Pid : Has(new, x) <=> Has(old, x) /\ x # p

LEMMA ReadyTails ==
  ASSUME NEW old \in Seq(E_Pid), old # <<>>,
         \A i, j \in DOMAIN old : old[i] = old[j] => i = j
  PROVE  ReadyLess(old, Tail(old), Head(old))
<1> DEFINE new == Tail(old)
<1>1. /\ new \in Seq(E_Pid) /\ 1 \in DOMAIN old /\ Head(old) = old[1]
      /\ \A i \in DOMAIN new : /\ i \in Nat /\ i + 1 \in DOMAIN old /\ 1 < i + 1
                               /\ new[i] = old[i + 1]
  BY TailIs
<1>2. /\ \A x : Has(old, x) => x = Head(old) \/ Has(new, x)
      /\ \A x : Has(new, x) => Has(old, x)
  BY TailHas
<1> HIDE DEF new
<1>3. \A i \in DOMAIN new : new[i] # old[1]
  BY <1>1
<1>4. \A i, j \in DOMAIN new : new[i] = new[j] => i = j
  <2> SUFFICES ASSUME NEW i \in DOMAIN new, NEW j \in DOMAIN new, new[i] = new[j]
               PROVE  i = j
    OBVIOUS
  <2>1. i + 1 = j + 1
    BY <1>1
  <2> QED BY <1>1, <2>1
<1>5. ~Has(new, Head(old))
  BY <1>1, <1>3 DEF Has
<1>6. ReadyLess(old, new, Head(old))
  BY <1>1, <1>2, <1>4, <1>5 DEF ReadyLess
<1> QED BY <1>6 DEF new

\* A worker changes and the others do not.
LEMMA WorkersStep ==
  ASSUME BusyAre, NEW w \in E_Worker, NEW new \in KillWorkers,
         E_worker' = [E_worker EXCEPT ![w] = new], E_pid' = E_pid
  PROVE  /\ E_worker' \in [E_Worker -> KillWorkers] /\ E_worker'[w] = new
         /\ \A v \in E_Worker : v # w =>
              /\ E_worker'[v] = E_worker[v]
              /\ Acts1(v)' = Acts1(v) /\ PidOf(v)' = PidOf(v)
<1>1. /\ E_worker' \in [E_Worker -> KillWorkers] /\ E_worker'[w] = new
      /\ \A v \in E_Worker : v # w => E_worker'[v] = E_worker[v]
  BY DEF BusyAre
<1> QED BY <1>1 DEF Acts1, PidOf

\* No worker that acts, or has acted, has left.
LEMMA StoppingStays ==
  ASSUME StoppingIs, NEW w \in E_Worker,
         E_worker[w] # E!Gone, E_worker'[w] # E!Gone,
         \A v \in E_Worker : v # w => E_worker'[v] = E_worker[v],
         UNCHANGED <<E_intake, E_lanesClosed>>
  PROVE  StoppingIs'
BY DEF StoppingIs, E!WorkersGone

LEMMA KillTakesKeeps ==
  ASSUME EscalatorInv, NEW w \in E_Worker, E!KillTakes(w)
  PROVE  EscalatorInv'
<1> DEFINE p == Head(E_ready)
           q == Head(E_lanes[p])
           new == [st |-> "act", item |-> [kind |-> "record", q |-> q]]
<1>1. /\ E_worker[w] = E!Up /\ E_ready # <<>> /\ E_ready' = Tail(E_ready)
      /\ E_busy' = E_busy \cup {p}
      /\ E_lanes' = [E_lanes EXCEPT ![p] = Tail(@)]
      /\ E_worker' = [E_worker EXCEPT ![w] = new]
      /\ E_acted' = Append(E_acted, q)
      /\ UNCHANGED <<E_stage, E_pid, E_closings, E_inbox, E_intake, E_lanesClosed>>
  BY DEF E!KillTakes, E!Thing, E!incidentVars
<1>2. /\ Line(E_closings, E_pid, E_acted, E_lanes, E_inbox)
      /\ E_ready \in Seq(E_Pid)
      /\ \A i, j \in DOMAIN E_ready : E_ready[i] = E_ready[j] => i = j
      /\ \A x \in E_Pid : Has(E_ready, x) <=> E_lanes[x] # <<>> /\ x \notin E_busy
  BY DEF EscalatorInv, ReadyAre
<1>3. ReadyLess(E_ready, E_ready', p)
  BY <1>1, <1>2, ReadyTails
<1>4. p \in E_Pid /\ Has(E_ready, p) /\ E_lanes[p] # <<>> /\ p \notin E_busy
  <2>1. p \in E_Pid /\ Has(E_ready, p)
    BY <1>1, <1>2, TailIs DEF Has
  <2> QED BY <1>2, <2>1
<1>5. Line(E_closings, E_pid, E_acted, E_lanes, E_inbox)'
  BY <1>1, <1>2, <1>4, LineActs
<1>6. q \in E!Q /\ Has(E_closings, q) /\ E_pid[q] = p
  <2>1. E_lanes[p] \in Seq(E!Q)
    BY <1>2, <1>4 DEF Line, LineTypes
  <2>2. 1 \in DOMAIN E_lanes[p] /\ q = E_lanes[p][1] /\ q \in E!Q
    BY <1>4, <2>1, TailIs
  <2> QED BY <1>2, <1>4, <2>2 DEF Line, Members
<1>7. new \in KillWorkers
  BY <1>6 DEF KillWorkers, E!Item, E!Q
<1>8. /\ \A x \in E_Pid : x # p => E_lanes'[x] = E_lanes[x]
  BY <1>1, <1>2 DEF Line, LineTypes
<1> HIDE DEF p, q
<1>9. ReadyAre'
  BY <1>1, <1>2, <1>3, <1>4, <1>8 DEF ReadyAre, ReadyLess
<1>10. new.st = "act" /\ new.item.q = q
  OBVIOUS
<1> HIDE DEF new
<1>11. /\ E_worker' \in [E_Worker -> KillWorkers] /\ E_worker'[w] = new
       /\ \A v \in E_Worker : v # w =>
            /\ E_worker'[v] = E_worker[v]
            /\ Acts1(v)' = Acts1(v) /\ PidOf(v)' = PidOf(v)
  BY <1>1, <1>7, WorkersStep DEF EscalatorInv
<1>12. Acts1(w)' /\ PidOf(w)' = p /\ ~Acts1(w)
  BY <1>1, <1>6, <1>10, <1>11 DEF Acts1, PidOf, E!Up
<1>13. BusyAre'
  <2>1. \A v \in E_Worker : Acts1(v)' =>
          /\ E_worker'[v].item.q \in E!Q /\ Has(E_closings', E_worker'[v].item.q)
          /\ PidOf(v)' \in E_busy'
    BY <1>1, <1>6, <1>10, <1>11, <1>12 DEF EscalatorInv, BusyAre
  <2>2. \A x \in E_busy' : \E v \in E_Worker : Acts1(v)' /\ PidOf(v)' = x
    BY <1>1, <1>11, <1>12 DEF EscalatorInv, BusyAre
  <2>3. \A u, v \in E_Worker :
          Acts1(u)' /\ Acts1(v)' /\ PidOf(u)' = PidOf(v)' => u = v
    BY <1>4, <1>11, <1>12 DEF EscalatorInv, BusyAre
  <2>4. E_busy' \subseteq E_Pid
    BY <1>1, <1>4 DEF EscalatorInv, BusyAre
  <2> QED BY <1>11, <2>1, <2>2, <2>3, <2>4 DEF BusyAre
<1>14. StoppingIs'
  <2>1. E_worker[w] # E!Gone /\ E_worker'[w] # E!Gone
    BY <1>1, <1>10, <1>11 DEF E!Gone, E!Up
  <2> QED BY <1>1, <1>11, <2>1, StoppingStays DEF EscalatorInv
<1>15. ClosedAre'
  BY <1>1 DEF EscalatorInv, ClosedAre
<1> QED BY <1>5, <1>9, <1>13, <1>14, <1>15 DEF EscalatorInv

LEMMA KillReturnsKeeps ==
  ASSUME EscalatorInv, NEW w \in E_Worker, E!KillReturns(w)
  PROVE  EscalatorInv'
<1> DEFINE p == PidOf(w)
<1>1. /\ Acts1(w) /\ E_busy' = E_busy \ {p}
      /\ E_ready' = IF E_lanes[p] = <<>> THEN E_ready ELSE Append(E_ready, p)
      /\ UNCHANGED <<E_stage, E_pid, E_closings, E_acted, E_inbox, E_intake,
                     E_lanes, E_lanesClosed>>
  BY DEF E!KillReturns, E!ReadyAgain, Acts1, PidOf, E!incidentVars
<1>2. PICK new \in KillWorkers : /\ E_worker' = [E_worker EXCEPT ![w] = new]
                                 /\ new.st # "act" /\ new # E!Gone
  <2>1. E_worker[w] \in KillWorkers /\ E!Up \in KillWorkers
    BY EscalationHolds
    DEF EscalatorInv, BusyAre, E!Up, KillWorkers, E!Nothing, E!Thing, E!Item,
        E!Sentinel
  <2>2. CASE E_worker' = [E_worker EXCEPT ![w].st = "hand"]
    <3>1. E_worker' = [E_worker EXCEPT
                         ![w] = [st |-> "hand", item |-> E_worker[w].item]]
      <4>1. [E_worker[w] EXCEPT !.st = "hand"]
              = [st |-> "hand", item |-> E_worker[w].item]
        BY <2>1 DEF KillWorkers
      <4>2. E_worker' = [E_worker EXCEPT ![w] = [E_worker[w] EXCEPT !.st = "hand"]]
        BY <2>2
      <4> QED BY <4>1, <4>2
    <3>2. [st |-> "hand", item |-> E_worker[w].item] \in KillWorkers
      BY <2>1 DEF KillWorkers
    <3> QED BY <3>1, <3>2 DEF E!Gone
  <2>3. CASE E_worker' = [E_worker EXCEPT ![w] = E!Up]
    BY <2>1, <2>3 DEF E!Up, E!Gone
  <2> QED BY <2>2, <2>3 DEF E!KillReturns
<1>3. /\ E_worker' \in [E_Worker -> KillWorkers] /\ E_worker'[w] = new
      /\ \A v \in E_Worker : v # w =>
           /\ E_worker'[v] = E_worker[v]
           /\ Acts1(v)' = Acts1(v) /\ PidOf(v)' = PidOf(v)
  BY <1>1, <1>2, WorkersStep DEF EscalatorInv
<1>4. ~Acts1(w)'
  BY <1>2, <1>3 DEF Acts1
<1>5. p \in E_busy /\ p \in E_Pid
  BY <1>1 DEF EscalatorInv, BusyAre
<1>6. /\ E_ready \in Seq(E_Pid) /\ ~Has(E_ready, p)
      /\ \A i, j \in DOMAIN E_ready : E_ready[i] = E_ready[j] => i = j
      /\ \A x \in E_Pid : Has(E_ready, x) <=> E_lanes[x] # <<>> /\ x \notin E_busy
  BY <1>5 DEF EscalatorInv, ReadyAre
<1>7. BusyAre'
  <2>1. \A v \in E_Worker : Acts1(v)' =>
          /\ v # w
          /\ E_worker'[v].item.q \in E!Q /\ Has(E_closings', E_worker'[v].item.q)
          /\ PidOf(v)' \in E_busy /\ PidOf(v)' # p
    BY <1>1, <1>3, <1>4 DEF EscalatorInv, BusyAre
  <2>2. \A x \in E_busy' : \E v \in E_Worker : Acts1(v)' /\ PidOf(v)' = x
    BY <1>1, <1>3 DEF EscalatorInv, BusyAre
  <2>3. \A u, v \in E_Worker :
          Acts1(u)' /\ Acts1(v)' /\ PidOf(u)' = PidOf(v)' => u = v
    BY <1>3, <1>4 DEF EscalatorInv, BusyAre
  <2>4. E_busy' \subseteq E_Pid
    BY <1>1 DEF EscalatorInv, BusyAre
  <2> QED BY <1>1, <1>3, <2>1, <2>2, <2>3, <2>4 DEF BusyAre
<1> HIDE DEF p
<1>8. ReadyAre'
  <2>1. CASE E_lanes[p] = <<>>
    BY <1>1, <1>6, <2>1 DEF ReadyAre
  <2>2. CASE E_lanes[p] # <<>>
    <3>1. ReadyGrows(E_ready, E_ready', p)
      BY <1>1, <1>5, <1>6, <2>2, ReadyAppends
    <3> QED BY <1>1, <1>5, <1>6, <2>2, <3>1 DEF ReadyAre, ReadyGrows
  <2> QED BY <2>1, <2>2
<1>9. StoppingIs'
  <2>1. E_worker[w] # E!Gone /\ E_worker'[w] # E!Gone
    BY <1>1, <1>2, <1>3 DEF E!Gone, Acts1
  <2> QED BY <1>1, <1>3, <2>1, StoppingStays DEF EscalatorInv
<1>10. ClosedAre' /\ Line(E_closings, E_pid, E_acted, E_lanes, E_inbox)'
  BY <1>1 DEF EscalatorInv, ClosedAre
<1> QED BY <1>7, <1>8, <1>9, <1>10 DEF EscalatorInv

LEMMA KillEndsKeeps ==
  ASSUME EscalatorInv, NEW w \in E_Worker, E!KillHands(w) \/ E!KillExits(w)
  PROVE  EscalatorInv'
<1>1. PICK new \in {E!Up, E!Gone} :
        /\ E_worker' = [E_worker EXCEPT ![w] = new]
        /\ E_worker[w].st \in {"hand", "up"} /\ E_worker[w] # E!Gone
        /\ new = E!Gone => E_ready = <<>> /\ E_lanesClosed
  BY DEF E!KillHands, E!KillExits, E!Up, E!Gone
<1>2. UNCHANGED <<E_stage, E_pid, E_closings, E_acted, E_inbox, E_intake, E_lanes,
                  E_ready, E_busy, E_lanesClosed>>
  BY DEF E!KillHands, E!KillExits, E!incidentVars, E!laneVars
<1>3. new \in KillWorkers /\ new.st # "act"
  BY EscalationHolds
  DEF E!Up, E!Gone, KillWorkers, E!Nothing, E!Thing, E!Item, E!Sentinel
<1>4. /\ E_worker' \in [E_Worker -> KillWorkers] /\ E_worker'[w] = new
      /\ \A v \in E_Worker : v # w =>
           /\ E_worker'[v] = E_worker[v]
           /\ Acts1(v)' = Acts1(v) /\ PidOf(v)' = PidOf(v)
  BY <1>1, <1>2, <1>3, WorkersStep DEF EscalatorInv
<1>5. ~Acts1(w) /\ ~Acts1(w)'
  BY <1>1, <1>3, <1>4 DEF Acts1
<1>6. BusyAre'
  BY <1>2, <1>4, <1>5 DEF EscalatorInv, BusyAre
<1>7. StoppingIs'
  BY <1>1, <1>2, <1>4 DEF EscalatorInv, StoppingIs, E!WorkersGone
<1>8. ClosedAre' /\ ReadyAre' /\ Line(E_closings, E_pid, E_acted, E_lanes, E_inbox)'
  BY <1>2 DEF EscalatorInv, ClosedAre, ReadyAre
<1> QED BY <1>6, <1>7, <1>8 DEF EscalatorInv

LEMMA EscalatorStep ==
  EscalatorInv /\ (E!Next \/ UNCHANGED E_vars) => EscalatorInv'
<1>1. ASSUME EscalatorInv, E!DrainStep \/ E!TailStep \/ E!WriterStep \/ UNCHANGED E_vars
      PROVE  EscalatorInv'
  BY <1>1, OtherThreadsAreOther, OthersKeepTheLine
<1>2. ASSUME EscalatorInv, E!IntakeStep PROVE EscalatorInv'
  BY <1>2, RouteKeeps, IntakeKeeps DEF E!IntakeStep
<1>3. ASSUME EscalatorInv, NEW w \in E_Worker, E!KillStep(w) PROVE EscalatorInv'
  BY <1>3, KillTakesKeeps, KillReturnsKeeps, KillEndsKeeps DEF E!KillStep
<1>4. ASSUME EscalatorInv, E!CloseStep PROVE EscalatorInv'
  BY <1>4, CloseKeeps DEF E!CloseStep
<1> QED
  BY <1>1, <1>2, <1>3, <1>4, LaneStepKeeps, StopAskedKeeps DEF E!Next

\* What the run checks follows from the line.
LEMMA LineIsOneKill == EscalatorInv => E!OneKillPerPid
<1> SUFFICES ASSUME EscalatorInv PROVE E!OneKillPerPid
  OBVIOUS
<1>1. \A v, w \in E_Worker : E_worker[v].st = "act" /\ E_worker[w].st = "act"
        /\ E_pid[E_worker[v].item.q] = E_pid[E_worker[w].item.q] => v = w
  BY DEF EscalatorInv, BusyAre, Acts1, PidOf
<1>2. ASSUME NEW m \in DOMAIN E_closings, NEW n \in DOMAIN E_closings,
             NEW k \in DOMAIN E_acted,
             m < n, E_pid[E_closings[m]] = E_pid[E_closings[n]],
             E_acted[k] = E_closings[n]
      PROVE  \E j \in 1 .. k : E_acted[j] = E_closings[m]
  <2> DEFINE x == E_closings[m]
             y == E_closings[n]
             p == E_pid[y]
  <2>1. /\ \A i, j \in DOMAIN E_closings : E_closings[i] = E_closings[j] => i = j
        /\ p \in E_Pid /\ m \in Nat /\ n \in Nat
        /\ E_acted \in Seq(E!Q) /\ E_closings \in Seq(E!Q)
    BY <1>2 DEF EscalatorInv, Line, LineTypes, Members
  <2>2. ~Later(E_closings, y, x)
    <3> SUFFICES ASSUME NEW a \in DOMAIN E_closings, NEW b \in DOMAIN E_closings,
                        a < b, E_closings[a] = y, E_closings[b] = x
                 PROVE  FALSE
      BY DEF Later
    <3>1. a = n /\ b = m
      BY <2>1
    <3> QED BY <1>2, <2>1, <3>1
  <2>3. Has(E_acted, x) \/ Has(E_lanes[p], x) \/ Has(E_inbox, x)
    BY <1>2, <2>1 DEF EscalatorInv, Line, NoneLost
  <2>4. ActsInOrder(E_closings, E_pid, E_acted, E_lanes, E_inbox) /\ x # 0
    BY <2>1, EscalationHolds DEF EscalatorInv, Line
  <2>5. ~Has(E_lanes[p], x) /\ ~Has(E_inbox, x)
    BY <1>2, <2>2, <2>4 DEF ActsInOrder, Has
  <2>6. PICK j \in DOMAIN E_acted : E_acted[j] = x
    BY <2>3, <2>5 DEF Has
  <2>7. ~(k < j)
    BY <1>2, <2>2, <2>4, <2>6 DEF ActsInOrder
  <2>8. j \in 1 .. k
    BY <2>1, <2>6, <2>7
  <2> QED BY <2>6, <2>8
<1>3. \A i, j \in DOMAIN E_ready : E_ready[i] = E_ready[j] => i = j
  BY DEF EscalatorInv, ReadyAre
<1>4. E!ToSet(E_ready) = {p \in E_Pid : E_lanes[p] # <<>> /\ p \notin E_busy}
  <2>1. /\ \A i \in DOMAIN E_ready : E_ready[i] \in E_Pid
        /\ \A p \in E_Pid : Has(E_ready, p) <=> E_lanes[p] # <<>> /\ p \notin E_busy
    BY DEF EscalatorInv, ReadyAre
  <2> QED BY <2>1 DEF E!ToSet, Has
<1> QED BY <1>1, <1>2, <1>3, <1>4 DEF E!OneKillPerPid, E!IsInjective

\* The kill lanes have one terminate of a process in flight and take its
\* questions in the order they closed; a kill hits the writer, or a process no
\* probe could tell from it; a question closed as terminated earlier is about
\* a killed process (pipeline.py _take_action, app.py _KillLanes).
THEOREM EachKillIsTheWriters == MonitorSpec => []KillsTheWriterOnce
<1> DEFINE Inv == /\ part = "escalation" => EscalatorInv
                  /\ part = "kill_memory" => KillMemoryInv
<1>1. MonitorInit => Inv
  BY EscalatorInit, KillMemoryInit DEF MonitorInit
<1>2. Inv /\ [MonitorNext]_monitorVars => Inv'
  BY EscalatorStep, KillMemoryStep
  DEF MonitorNext, monitorVars, L_others, I_others, E_others, W_others, K_others
<1>3. Inv => KillsTheWriterOnce
  BY LineIsOneKill DEF KillsTheWriterOnce, KillMemoryInv
<1> QED BY <1>1, <1>2, <1>3, PTL DEF MonitorSpec

-------------------------------------------------------------------------------
(* The correlation lanes.  The observer offers its jobs one by one, so that *)
(* a queue is in order, and of a lane's queued jobs the next to begin is    *)
(* the least that has not.  A lane no stop has left behind has one thread,  *)
(* the one the next stop joins, and it ends after its queue.                *)

Lanes == Cardinality(L_Lane)
Serves(c) == L_ctl[c].op \in {"start", "tell", "join"}
Offering == L_obs.op \in {"offer", "note"}

LaneTypes ==
  /\ L_laneOf \in [L_Path -> L_Lane]
  /\ L_queue \in [L_Lane -> Seq(Nat)]
  /\ L_stopping \in [L_Lane -> BOOLEAN]
  /\ L_worker \in [L_Lane -> [L!Worker -> {"none", "up", "gone"}]]
  /\ L_doing \in [L_Lane -> [L!Worker -> Nat]]
  /\ L_thread \in [L_Lane -> L!Worker \cup {0}]
  /\ L_running \in BOOLEAN
  /\ L_ctl \in [L_Controller -> [op : {"idle", "start", "drain", "tell", "join"},
                                 lane : Nat]]
  /\ L_obs \in [op : {"idle", "offer", "note", "run", "inline"}, job : Nat]
  /\ L_path \in Seq(L_Path)
  /\ L_begun \in Seq(Nat)

\* Who has the lock is the one that starts or stops, and has come to a lane.
OneServes ==
  /\ L_lock \in L_Controller \cup {L_Nobody}
  /\ \A c \in L_Controller : Serves(c) <=> L_lock = c
  /\ \A c \in L_Controller : Serves(c) => L_ctl[c].lane \in 1 .. Lanes + 1
  /\ \A c \in L_Controller : L_ctl[c].op = "join" =>
       L_ctl[c].lane \in L_Lane /\ L_stopping[L_ctl[c].lane]

\* Which lanes have a thread that a stop would join.
ThreadsKnown ==
  /\ L_lock = L_Nobody =>
       \A l \in L_Lane : L_running <=> L_thread[l] # 0
  /\ \A c \in L_Controller : L_ctl[c].op = "start" =>
       /\ ~L_running
       /\ \A l \in L_Lane : l < L_ctl[c].lane <=> L_thread[l] # 0
  /\ \A c \in L_Controller : L_ctl[c].op \in {"tell", "join"} =>
       \A l \in L_Lane : l < L_ctl[c].lane => L_thread[l] = 0
  /\ L_obs.op = "offer" \/ L_running =>
       \A l \in L_Lane : L_thread[l] # 0 \/ L_stopping[l]

\* A lane no stop has left behind: its one thread ends after its queue.
OneThread ==
  \A l \in L_Lane : l \notin L_late =>
    /\ \A w \in L!Worker : L_worker[l][w] = "up" => w = L_thread[l]
    /\ L_thread[l] = 0 => L_queue[l] = <<>>
    /\ L_thread[l] # 0 /\ L_worker[l][L_thread[l]] # "up" =>
         L_queue[l] = <<>> /\ L_stopping[l]

OnLane(j, l) == j \in 1 .. Len(L_path) /\ L_laneOf[L_path[j]] = l

DoesItsOwn ==
  \A l \in L_Lane, w \in L!Worker : L_doing[l][w] # 0 =>
    L_worker[l][w] = "up" /\ OnLane(L_doing[l][w], l)

\* A job is on offer, queued, or has begun; a queue is in order.
OnOffer ==
  /\ L_obs.op # "idle" => L_obs.job = Len(L_path) /\ L_path # <<>>
  /\ Offering => ~Has(L_begun, L_obs.job) /\ L_obs.job \notin L_aside
InQueue ==
  \A l \in L_Lane : \A i \in DOMAIN L_queue[l] :
    /\ OnLane(L_queue[l][i], l) /\ ~Has(L_begun, L_queue[l][i])
    /\ L_queue[l][i] \notin L_aside
    /\ Offering => L_queue[l][i] # L_obs.job
    /\ \A n \in DOMAIN L_queue[l] : i < n => L_queue[l][i] < L_queue[l][n]
HasBegun ==
  /\ \A i \in DOMAIN L_begun : L_begun[i] \in 1 .. Len(L_path)
  /\ L_aside \subseteq 1 .. Len(L_path)
NoneMissing ==
  \A j \in 1 .. Len(L_path) :
    \/ Has(L_begun, j) \/ Has(L_queue[L_laneOf[L_path[j]]], j)
    \/ Offering /\ L_obs.job = j

\* Of two queued jobs of a lane, the second begins after the first.
BegunInOrder ==
  \A j, k \in 1 .. Len(L_path) :
    /\ j < k /\ L_laneOf[L_path[j]] = L_laneOf[L_path[k]]
    /\ j \notin L_aside /\ k \notin L_aside /\ Has(L_begun, k)
    => Has(L_begun, j) /\ ~L!Before(L_begun, k, j)

\* The inductive invariant.
LanesInv ==
  /\ LaneTypes /\ OneServes /\ ThreadsKnown /\ OneThread /\ DoesItsOwn
  /\ OnOffer /\ InQueue /\ HasBegun /\ NoneMissing /\ BegunInOrder

LEMMA LanesConst ==
  /\ Lanes \in Nat /\ L_Lane = 1 .. Lanes /\ L_Nobody \notin L_Controller
<1>1. L!IsFiniteSet(L_Lane) /\ L_Lane = 1 .. L!Cardinality(L_Lane)
      /\ L_Nobody \notin L_Controller
  BY MonitorAssumption DEF L!LanesAssumption
<1>2. L!Cardinality(L_Lane) = Lanes
  BY DEF L!Cardinality, Cardinality, Lanes
<1>3. IsFiniteSet(L_Lane)
  BY <1>1 DEF L!IsFiniteSet, IsFiniteSet
<1> QED BY <1>1, <1>2, <1>3, FS_CardinalityType DEF Lanes

\* Who starts or stops the lanes, and their threads.
LanesControl == LaneTypes /\ OneServes /\ ThreadsKnown /\ OneThread

\* The jobs: where each is, and what has begun.
LanesJobs ==
  DoesItsOwn /\ OnOffer /\ InQueue /\ HasBegun /\ NoneMissing /\ BegunInOrder

LEMMA LanesStart == L!Init => LanesInv
<1> SUFFICES ASSUME L!Init PROVE LanesInv
  OBVIOUS
<1>1. /\ L_laneOf \in [L_Path -> L_Lane]
      /\ L_queue = [l \in L_Lane |-> <<>>]
      /\ L_stopping = [l \in L_Lane |-> FALSE]
      /\ L_worker = [l \in L_Lane |-> [w \in L!Worker |-> "none"]]
      /\ L_doing = [l \in L_Lane |-> [w \in L!Worker |-> 0]]
      /\ L_thread = [l \in L_Lane |-> 0]
      /\ L_running = FALSE
      /\ L_lock = L_Nobody
      /\ L_ctl = [c \in L_Controller |-> [op |-> "idle", lane |-> 0]]
      /\ L_obs = [op |-> "idle", job |-> 0]
      /\ L_path = <<>> /\ L_begun = <<>> /\ L_aside = {}
  BY DEF L!Init, L!Idle, L!Resting
<1>2. LaneTypes
  <2>1. L_queue \in [L_Lane -> Seq(Nat)] /\ L_path \in Seq(L_Path)
        /\ L_begun \in Seq(Nat)
    BY <1>1
  <2>2. /\ L_stopping \in [L_Lane -> BOOLEAN]
        /\ L_thread \in [L_Lane -> L!Worker \cup {0}]
        /\ L_running \in BOOLEAN
    BY <1>1
  <2>3. L_worker \in [L_Lane -> [L!Worker -> {"none", "up", "gone"}]]
    BY <1>1
  <2>4. L_doing \in [L_Lane -> [L!Worker -> Nat]]
    BY <1>1
  <2>5. L_obs \in [op : {"idle", "offer", "note", "run", "inline"}, job : Nat]
    BY <1>1
  <2>6. L_ctl \in [L_Controller -> [op : {"idle", "start", "drain", "tell", "join"},
                                    lane : Nat]]
    BY <1>1
  <2> QED BY <1>1, <2>1, <2>2, <2>3, <2>4, <2>5, <2>6 DEF LaneTypes
<1>3. OneServes
  BY <1>1, LanesConst DEF OneServes, Serves
<1>4. ThreadsKnown
  BY <1>1, LanesConst DEF ThreadsKnown
<1>5. OneThread
  BY <1>1 DEF OneThread
<1>6. DoesItsOwn /\ OnOffer
  BY <1>1 DEF DoesItsOwn, OnOffer, Offering
<1>7. InQueue
  BY <1>1 DEF InQueue
<1>8. HasBegun /\ NoneMissing /\ BegunInOrder
  BY <1>1 DEF HasBegun, NoneMissing, BegunInOrder
<1> QED BY <1>2, <1>3, <1>4, <1>5, <1>6, <1>7, <1>8 DEF LanesInv

\* Jobs stay where they are while a start or a stop does something.
LEMMA JobsStay ==
  ASSUME LanesJobs,
         UNCHANGED <<L_laneOf, L_queue, L_doing, L_obs, L_path, L_begun, L_aside>>,
         DoesItsOwn'
  PROVE  LanesJobs'
BY DEF LanesJobs, OnOffer, Offering, InQueue, HasBegun, NoneMissing,
       BegunInOrder, OnLane, Has, L!Before

LEMMA LanesRest == LanesInv /\ UNCHANGED L_vars => LanesInv'
<1> SUFFICES ASSUME LanesInv, UNCHANGED L_vars PROVE LanesInv'
  OBVIOUS
<1>1. LaneTypes' /\ OneServes'
  BY DEF LanesInv, L_vars, LaneTypes, OneServes, Serves
<1>2. ThreadsKnown' /\ OneThread'
  BY DEF LanesInv, L_vars, ThreadsKnown, OneThread
<1>3. LanesJobs'
  <2>1. DoesItsOwn'
    BY DEF LanesInv, L_vars, DoesItsOwn, OnLane
  <2> QED BY <2>1, JobsStay DEF LanesInv, LanesJobs, L_vars
<1> QED BY <1>1, <1>2, <1>3 DEF LanesInv, LanesJobs

-------------------------------------------------------------------------------
(* A start or a stop.                                                      *)

\* What stays with the controllers that do nothing, and with the jobs.
LEMMA LanesBegin ==
  ASSUME LanesInv, NEW c \in L_Controller, NEW o \in {"start", "tell"},
         L_lock = L_Nobody, ~Serves(c),
         o = "start" => ~L_running,
         L_lock' = c,
         L_ctl' = [L_ctl EXCEPT ![c] = [op |-> o, lane |-> 1]],
         UNCHANGED <<L_laneOf, L_queue, L_stopping, L_worker, L_doing, L_thread,
                     L_running, L_obs, L_path, L_begun, L_aside, L_late>>
  PROVE  LanesInv'
<1>1. /\ LaneTypes /\ OneServes /\ ThreadsKnown /\ OneThread /\ LanesJobs
      /\ c # L_Nobody /\ Lanes \in Nat /\ L_Lane = 1 .. Lanes
  BY LanesConst DEF LanesInv, LanesJobs
<1>2. /\ L_ctl'[c].op = o /\ L_ctl'[c].lane = 1
      /\ \A d \in L_Controller : d # c => L_ctl'[d] = L_ctl[d] /\ ~Serves(d)
  <2>1. \A d \in L_Controller : ~Serves(d)
    BY <1>1, LanesConst DEF OneServes
  <2>2. /\ L_ctl'[c] = [op |-> o, lane |-> 1]
        /\ \A d \in L_Controller : d # c => L_ctl'[d] = L_ctl[d]
    BY <1>1 DEF LaneTypes
  <2> QED BY <2>1, <2>2
<1>3. LaneTypes'
  <2>1. [op |-> o, lane |-> 1] \in
          [op : {"idle", "start", "drain", "tell", "join"}, lane : Nat]
    OBVIOUS
  <2>2. L_ctl' \in [L_Controller -> [op : {"idle", "start", "drain", "tell", "join"},
                                     lane : Nat]]
    BY <1>1, <2>1 DEF LaneTypes
  <2> QED BY <1>1, <2>2 DEF LaneTypes
<1>4. OneServes'
  BY <1>1, <1>2 DEF OneServes, Serves
<1>5. ThreadsKnown'
  BY <1>1, <1>2 DEF ThreadsKnown, OneServes, Serves
<1>6. OneThread'
  BY <1>1 DEF OneThread
<1>7. DoesItsOwn'
  BY <1>1 DEF LanesJobs, DoesItsOwn, OnLane
<1> QED BY <1>1, <1>3, <1>4, <1>5, <1>6, <1>7, JobsStay DEF LanesInv, LanesJobs

LEMMA StartKeeps ==
  ASSUME LanesInv, NEW c \in L_Controller, L!Start(c) PROVE LanesInv'
<1>1. /\ L_ctl[c].op = "idle" /\ L_lock = L_Nobody /\ ~L_running /\ L_lock' = c
      /\ L_ctl' = [L_ctl EXCEPT ![c] = [op |-> "start", lane |-> 1]]
      /\ UNCHANGED <<L_laneOf, L_queue, L_stopping, L_worker, L_doing, L_thread,
                     L_running, L_obs, L_path, L_begun, L_aside, L_late>>
  BY DEF L!Start, L!Idle, L!Starts, L!laneVars, L!runVars
<1>2. ~Serves(c)
  BY <1>1 DEF Serves
<1> QED BY <1>1, <1>2, LanesBegin

LEMMA StopLocksKeeps ==
  ASSUME LanesInv, NEW c \in L_Controller, L!StopLocks(c) PROVE LanesInv'
<1>1. /\ L_ctl[c].op = "drain" /\ L_lock = L_Nobody /\ L_lock' = c
      /\ L_ctl' = [L_ctl EXCEPT ![c] = [op |-> "tell", lane |-> 1]]
      /\ UNCHANGED <<L_laneOf, L_queue, L_stopping, L_worker, L_doing, L_thread,
                     L_running, L_obs, L_path, L_begun, L_aside, L_late>>
  BY DEF L!StopLocks, L!laneVars, L!runVars
<1>2. ~Serves(c)
  BY <1>1 DEF Serves
<1> QED BY <1>1, <1>2, LanesBegin

LEMMA StopKeeps ==
  ASSUME LanesInv, NEW c \in L_Controller, L!Stop(c) PROVE LanesInv'
<1>1. /\ LaneTypes /\ OneServes /\ ThreadsKnown /\ OneThread /\ LanesJobs
  BY DEF LanesInv, LanesJobs
<1>2. /\ L_ctl[c].op = "idle"
      /\ L_ctl' = [L_ctl EXCEPT ![c].op = "drain"]
      /\ UNCHANGED <<L_laneOf, L_queue, L_stopping, L_worker, L_doing, L_thread,
                     L_running, L_lock, L_obs, L_path, L_begun, L_aside, L_late>>
  BY DEF L!Stop, L!Idle, L!laneVars, L!runVars
<1>3. /\ L_ctl'[c].op = "drain"
      /\ \A d \in L_Controller : d # c => L_ctl'[d] = L_ctl[d]
  BY <1>1, <1>2 DEF LaneTypes
<1>4. LaneTypes'
  <2>1. [L_ctl[c] EXCEPT !.op = "drain"] \in
          [op : {"idle", "start", "drain", "tell", "join"}, lane : Nat]
    <3>1. L_ctl[c] \in [op : {"idle", "start", "drain", "tell", "join"}, lane : Nat]
      BY <1>1 DEF LaneTypes
    <3> QED BY <3>1
  <2>2. L_ctl' \in [L_Controller -> [op : {"idle", "start", "drain", "tell", "join"},
                                     lane : Nat]]
    BY <1>1, <1>2, <2>1 DEF LaneTypes
  <2> QED BY <1>1, <1>2, <2>2 DEF LaneTypes
<1>5. OneServes'
  BY <1>1, <1>2, <1>3 DEF OneServes, Serves
<1>6. ThreadsKnown'
  BY <1>1, <1>2, <1>3 DEF ThreadsKnown
<1>7. OneThread' /\ DoesItsOwn'
  BY <1>1, <1>2 DEF OneThread, LanesJobs, DoesItsOwn, OnLane
<1> QED BY <1>1, <1>2, <1>4, <1>5, <1>6, <1>7, JobsStay DEF LanesInv, LanesJobs

\* The last lane is done: what a start or a stop leaves.
LEMMA LanesEnd ==
  ASSUME LanesInv, NEW c \in L_Controller, NEW r \in BOOLEAN,
         L_ctl[c].op = IF r THEN "start" ELSE "tell",
         L_ctl[c].lane \notin L_Lane,
         L_running' = r,
         L_lock' = L_Nobody,
         L_ctl' = [L_ctl EXCEPT ![c] = [op |-> "idle", lane |-> 0]],
         UNCHANGED <<L_laneOf, L_queue, L_stopping, L_worker, L_doing, L_thread,
                     L_obs, L_path, L_begun, L_aside, L_late>>
  PROVE  LanesInv'
<1>1. /\ LaneTypes /\ OneServes /\ ThreadsKnown /\ OneThread /\ LanesJobs
      /\ L_Nobody \notin L_Controller /\ Lanes \in Nat /\ L_Lane = 1 .. Lanes
  BY LanesConst DEF LanesInv, LanesJobs
<1>2. /\ L_ctl'[c].op = "idle"
      /\ \A d \in L_Controller : d # c => L_ctl'[d] = L_ctl[d] /\ ~Serves(d)
      /\ L_ctl[c].lane = Lanes + 1
  <2>1. Serves(c) /\ L_lock = c
    BY <1>1 DEF OneServes, Serves
  <2> QED BY <1>1, <2>1 DEF LaneTypes, OneServes
<1>3. \A l \in L_Lane : r <=> L_thread[l] # 0
  BY <1>1, <1>2 DEF ThreadsKnown
<1>4. LaneTypes'
  <2>1. [op |-> "idle", lane |-> 0] \in
          [op : {"idle", "start", "drain", "tell", "join"}, lane : Nat]
    OBVIOUS
  <2>2. L_ctl' \in [L_Controller -> [op : {"idle", "start", "drain", "tell", "join"},
                                     lane : Nat]]
    BY <1>1, <2>1 DEF LaneTypes
  <2> QED BY <1>1, <2>2 DEF LaneTypes
<1>5. OneServes'
  BY <1>1, <1>2 DEF OneServes, Serves
<1>6. ThreadsKnown'
  BY <1>1, <1>2, <1>3 DEF ThreadsKnown, Serves
<1>7. OneThread' /\ DoesItsOwn'
  BY <1>1 DEF OneThread, LanesJobs, DoesItsOwn, OnLane
<1> QED BY <1>1, <1>4, <1>5, <1>6, <1>7, JobsStay DEF LanesInv, LanesJobs

LEMMA StartedKeeps ==
  ASSUME LanesInv, NEW c \in L_Controller, L!Started(c) PROVE LanesInv'
<1>1. /\ L_ctl[c].op = "start" /\ L_ctl[c].lane \notin L_Lane
      /\ L_running' = TRUE /\ L_lock' = L_Nobody
      /\ L_ctl' = [L_ctl EXCEPT ![c] = [op |-> "idle", lane |-> 0]]
      /\ UNCHANGED <<L_laneOf, L_queue, L_stopping, L_worker, L_doing, L_thread,
                     L_obs, L_path, L_begun, L_aside, L_late>>
  BY DEF L!Started, L!Idle, L!laneVars, L!runVars
<1> QED BY <1>1, LanesEnd

LEMMA StoppedKeeps ==
  ASSUME LanesInv, NEW c \in L_Controller, L!Stopped(c) PROVE LanesInv'
<1>1. /\ L_ctl[c].op = "tell" /\ L_ctl[c].lane \notin L_Lane
      /\ L_running' = FALSE /\ L_lock' = L_Nobody
      /\ L_ctl' = [L_ctl EXCEPT ![c] = [op |-> "idle", lane |-> 0]]
      /\ UNCHANGED <<L_laneOf, L_queue, L_stopping, L_worker, L_doing, L_thread,
                     L_obs, L_path, L_begun, L_aside, L_late>>
  BY DEF L!Stopped, L!Idle, L!laneVars, L!runVars
<1> QED BY <1>1, LanesEnd

\* A lane starts: its queue is empty, and no thread of it is up, unless a stop
\* has left one behind.
LEMMA StartLaneKeeps ==
  ASSUME LanesInv, NEW c \in L_Controller, L!StartLane(c) PROVE LanesInv'
<1>1. /\ LaneTypes /\ OneServes /\ ThreadsKnown /\ OneThread /\ LanesJobs
      /\ L_Nobody \notin L_Controller /\ Lanes \in Nat /\ L_Lane = 1 .. Lanes
  BY LanesConst DEF LanesInv, LanesJobs
<1> DEFINE l == L_ctl[c].lane
<1>2. /\ L_ctl[c].op = "start" /\ l \in L_Lane
      /\ L_stopping' = [L_stopping EXCEPT ![l] = FALSE]
      /\ L_ctl' = [L_ctl EXCEPT ![c].lane = l + 1]
      /\ UNCHANGED <<L_laneOf, L_queue, L_doing, L_running, L_lock, L_obs, L_path,
                     L_begun, L_aside, L_late>>
  BY DEF L!StartLane, L!runVars
<1>3. PICK w \in L!Worker :
        /\ L_worker[l][w] = "none"
        /\ L_worker' = [L_worker EXCEPT ![l][w] = "up"]
        /\ L_thread' = [L_thread EXCEPT ![l] = w]
  BY DEF L!StartLane
<1> HIDE DEF l
<1>4. w # 0 /\ \A v \in L!Worker : v # 0
  BY DEF L!Worker
<1>5. /\ L_ctl'[c].op = "start" /\ L_ctl'[c].lane = l + 1 /\ L_ctl[c].lane = l
      /\ \A d \in L_Controller : d # c => L_ctl'[d] = L_ctl[d] /\ ~Serves(d)
  <2>1. Serves(c) /\ L_lock = c
    BY <1>1, <1>2 DEF OneServes, Serves
  <2>2. \A d \in L_Controller : d # c => ~Serves(d)
    BY <1>1, <2>1 DEF OneServes
  <2>3. /\ L_ctl'[c].op = "start" /\ L_ctl'[c].lane = l + 1
        /\ \A d \in L_Controller : d # c => L_ctl'[d] = L_ctl[d]
    BY <1>1, <1>2 DEF LaneTypes
  <2> QED BY <2>2, <2>3 DEF l
<1>6. /\ L_thread'[l] = w /\ L_stopping'[l] = FALSE /\ L_worker'[l][w] = "up"
      /\ \A m \in L_Lane : m # l => L_thread'[m] = L_thread[m]
                             /\ L_stopping'[m] = L_stopping[m]
                             /\ L_worker'[m] = L_worker[m]
      /\ \A v \in L!Worker : v # w => L_worker'[l][v] = L_worker[l][v]
  BY <1>1, <1>2, <1>3 DEF LaneTypes
<1>7. LaneTypes'
  <2>1. [L_ctl[c] EXCEPT !.lane = l + 1] \in
          [op : {"idle", "start", "drain", "tell", "join"}, lane : Nat]
    BY <1>1, <1>2 DEF LaneTypes
  <2>2. L_ctl' \in [L_Controller -> [op : {"idle", "start", "drain", "tell", "join"},
                                     lane : Nat]]
    BY <1>1, <1>2, <2>1 DEF LaneTypes
  <2>3. L_worker' \in [L_Lane -> [L!Worker -> {"none", "up", "gone"}]]
    BY <1>1, <1>2, <1>3 DEF LaneTypes
  <2>4. /\ L_stopping' \in [L_Lane -> BOOLEAN]
        /\ L_thread' \in [L_Lane -> L!Worker \cup {0}]
    BY <1>1, <1>2, <1>3 DEF LaneTypes
  <2> QED BY <1>1, <1>2, <2>2, <2>3, <2>4 DEF LaneTypes
<1>8. OneServes'
  BY <1>1, <1>2, <1>5 DEF OneServes, Serves
<1>9. ThreadsKnown'
  <2>1. ~L_running /\ L_lock = c /\ L_lock' = c
        /\ \A m \in L_Lane : m < l <=> L_thread[m] # 0
    BY <1>1, <1>2 DEF ThreadsKnown, OneServes, Serves, l
  <2>2. \A m \in L_Lane : m < l + 1 <=> L_thread'[m] # 0
    BY <1>1, <1>2, <1>4, <1>6, <2>1
  <2>3. \A d \in L_Controller : L_ctl'[d].op \in {"start", "tell", "join"} => d = c
    BY <1>5 DEF Serves
  <2>4. L_obs'.op = "offer" \/ L_running' =>
          \A m \in L_Lane : L_thread'[m] # 0 \/ L_stopping'[m]
    BY <1>1, <1>2, <1>4, <1>6 DEF ThreadsKnown
  <2> QED BY <1>1, <1>2, <1>5, <2>1, <2>2, <2>3, <2>4 DEF ThreadsKnown
<1>10. OneThread'
  <2>1. L_thread[l] = 0
    BY <1>1, <1>2 DEF ThreadsKnown, l
  <2>2. l \notin L_late => L_queue[l] = <<>>
                           /\ \A v \in L!Worker : L_worker[l][v] # "up"
    BY <1>1, <1>2, <1>4, <2>1 DEF OneThread
  <2> QED BY <1>1, <1>2, <1>4, <1>6, <2>2 DEF OneThread
<1>11. DoesItsOwn'
  BY <1>1, <1>2, <1>3, <1>6 DEF LanesJobs, DoesItsOwn, OnLane
<1> QED BY <1>1, <1>2, <1>7, <1>8, <1>9, <1>10, <1>11, JobsStay
        DEF LanesInv, LanesJobs

LEMMA StopLaneKeeps ==
  ASSUME LanesInv, NEW c \in L_Controller, L!StopLane(c) PROVE LanesInv'
<1>1. /\ LaneTypes /\ OneServes /\ ThreadsKnown /\ OneThread /\ LanesJobs
      /\ L_Nobody \notin L_Controller /\ Lanes \in Nat /\ L_Lane = 1 .. Lanes
  BY LanesConst DEF LanesInv, LanesJobs
<1> DEFINE l == L_ctl[c].lane
<1>2. /\ L_ctl[c].op = "tell" /\ l \in L_Lane
      /\ L_stopping' = [L_stopping EXCEPT ![l] = TRUE]
      /\ L_ctl' = [L_ctl EXCEPT ![c].op = "join"]
      /\ UNCHANGED <<L_laneOf, L_queue, L_worker, L_doing, L_thread, L_running,
                     L_lock, L_obs, L_path, L_begun, L_aside, L_late>>
  BY DEF L!StopLane, L!runVars
<1> HIDE DEF l
<1>5. /\ L_ctl'[c].op = "join" /\ L_ctl'[c].lane = l /\ L_ctl[c].lane = l
      /\ \A d \in L_Controller : d # c => L_ctl'[d] = L_ctl[d] /\ ~Serves(d)
  <2>1. Serves(c) /\ L_lock = c
    BY <1>1, <1>2 DEF OneServes, Serves
  <2>2. \A d \in L_Controller : d # c => ~Serves(d)
    BY <1>1, <2>1 DEF OneServes
  <2>3. /\ L_ctl'[c].op = "join" /\ L_ctl'[c].lane = L_ctl[c].lane
        /\ \A d \in L_Controller : d # c => L_ctl'[d] = L_ctl[d]
    BY <1>1, <1>2 DEF LaneTypes
  <2> QED BY <2>2, <2>3 DEF l
<1>6. /\ L_stopping'[l] = TRUE
      /\ \A m \in L_Lane : m # l => L_stopping'[m] = L_stopping[m]
  BY <1>1, <1>2 DEF LaneTypes
<1>7. LaneTypes'
  <2>1. [L_ctl[c] EXCEPT !.op = "join"] \in
          [op : {"idle", "start", "drain", "tell", "join"}, lane : Nat]
    <3>1. L_ctl[c] \in [op : {"idle", "start", "drain", "tell", "join"}, lane : Nat]
      BY <1>1 DEF LaneTypes
    <3> QED BY <3>1
  <2>2. L_ctl' \in [L_Controller -> [op : {"idle", "start", "drain", "tell", "join"},
                                     lane : Nat]]
    BY <1>1, <1>2, <2>1 DEF LaneTypes
  <2>3. L_stopping' \in [L_Lane -> BOOLEAN]
    BY <1>1, <1>2 DEF LaneTypes
  <2> QED BY <1>1, <1>2, <2>2, <2>3 DEF LaneTypes
<1>8. OneServes'
  BY <1>1, <1>2, <1>5, <1>6 DEF OneServes, Serves
<1>9. ThreadsKnown'
  <2>1. L_lock' = c /\ \A m \in L_Lane : m < l => L_thread[m] = 0
    BY <1>1, <1>2 DEF ThreadsKnown, OneServes, Serves, l
  <2>2. \A d \in L_Controller : L_ctl'[d].op \in {"start", "tell", "join"} => d = c
    BY <1>5 DEF Serves
  <2>3. L_obs'.op = "offer" \/ L_running' =>
          \A m \in L_Lane : L_thread'[m] # 0 \/ L_stopping'[m]
    BY <1>1, <1>2, <1>6 DEF ThreadsKnown
  <2> QED BY <1>1, <1>2, <1>5, <2>1, <2>2, <2>3 DEF ThreadsKnown
<1>10. OneThread'
  BY <1>1, <1>2, <1>6 DEF OneThread
<1>11. DoesItsOwn'
  BY <1>1, <1>2 DEF LanesJobs, DoesItsOwn, OnLane
<1> QED BY <1>1, <1>2, <1>7, <1>8, <1>9, <1>10, <1>11, JobsStay
        DEF LanesInv, LanesJobs

\* A join ends: the thread is gone, after its queue, or it has been left behind.
LEMMA JoinLaneKeeps ==
  ASSUME LanesInv, NEW c \in L_Controller, L!JoinLane(c) PROVE LanesInv'
<1>1. /\ LaneTypes /\ OneServes /\ ThreadsKnown /\ OneThread /\ LanesJobs
      /\ L_Nobody \notin L_Controller /\ Lanes \in Nat /\ L_Lane = 1 .. Lanes
  BY LanesConst DEF LanesInv, LanesJobs
<1> DEFINE l == L_ctl[c].lane
<1>2. /\ L_ctl[c].op = "join"
      /\ L_thread' = [L_thread EXCEPT ![l] = 0]
      /\ L_ctl' = [L_ctl EXCEPT ![c] = [op |-> "tell", lane |-> l + 1]]
      /\ L_late' = IF L_thread[l] \in L!Live(l) THEN L_late \cup {l} ELSE L_late
      /\ UNCHANGED <<L_laneOf, L_queue, L_stopping, L_worker, L_doing, L_running,
                     L_lock, L_obs, L_path, L_begun, L_aside>>
  BY DEF L!JoinLane, L!runVars
<1>3. l \in L_Lane /\ L_stopping[l]
  BY <1>1, <1>2 DEF OneServes
<1> HIDE DEF l
<1>5. /\ L_ctl'[c].op = "tell" /\ L_ctl'[c].lane = l + 1 /\ L_ctl[c].lane = l
      /\ \A d \in L_Controller : d # c => L_ctl'[d] = L_ctl[d] /\ ~Serves(d)
  <2>1. Serves(c) /\ L_lock = c
    BY <1>1, <1>2 DEF OneServes, Serves
  <2>2. \A d \in L_Controller : d # c => ~Serves(d)
    BY <1>1, <2>1 DEF OneServes
  <2>3. /\ L_ctl'[c] = [op |-> "tell", lane |-> l + 1]
        /\ \A d \in L_Controller : d # c => L_ctl'[d] = L_ctl[d]
    BY <1>1, <1>2 DEF LaneTypes
  <2> QED BY <2>2, <2>3 DEF l
<1>6. /\ L_thread'[l] = 0
      /\ \A m \in L_Lane : m # l => L_thread'[m] = L_thread[m]
  BY <1>1, <1>2, <1>3 DEF LaneTypes
<1>7. LaneTypes'
  <2>1. [op |-> "tell", lane |-> l + 1] \in
          [op : {"idle", "start", "drain", "tell", "join"}, lane : Nat]
    BY <1>1, <1>3
  <2>2. L_ctl' \in [L_Controller -> [op : {"idle", "start", "drain", "tell", "join"},
                                     lane : Nat]]
    BY <1>1, <1>2, <2>1 DEF LaneTypes
  <2>3. L_thread' \in [L_Lane -> L!Worker \cup {0}]
    BY <1>1, <1>2, <1>3 DEF LaneTypes
  <2> QED BY <1>1, <1>2, <2>2, <2>3 DEF LaneTypes
<1>8. OneServes'
  BY <1>1, <1>2, <1>3, <1>5 DEF OneServes, Serves
<1>9. ThreadsKnown'
  <2>1. L_lock' = c /\ \A m \in L_Lane : m < l => L_thread[m] = 0
    BY <1>1, <1>2 DEF ThreadsKnown, OneServes, Serves, l
  <2>2. \A m \in L_Lane : m < l + 1 => L_thread'[m] = 0
    BY <1>1, <1>3, <1>6, <2>1
  <2>3. \A d \in L_Controller : L_ctl'[d].op \in {"start", "tell", "join"} => d = c
    BY <1>5 DEF Serves
  <2>4. L_obs'.op = "offer" \/ L_running' =>
          \A m \in L_Lane : L_thread'[m] # 0 \/ L_stopping'[m]
    BY <1>1, <1>2, <1>3, <1>6 DEF ThreadsKnown
  <2> QED BY <1>1, <1>2, <1>5, <2>1, <2>2, <2>3, <2>4 DEF ThreadsKnown
<1>10. OneThread'
  <2>1. ASSUME l \notin L_late'
        PROVE  /\ \A w \in L!Worker : L_worker[l][w] # "up"
               /\ L_queue[l] = <<>>
    <3>1. l \notin L_late /\ L_thread[l] \notin L!Live(l)
      BY <1>2, <2>1
    <3>2. CASE L_thread[l] = 0
      <4>1. \A w \in L!Worker : w # 0
        BY DEF L!Worker
      <4> QED BY <1>1, <1>3, <3>1, <3>2, <4>1 DEF OneThread
    <3>3. CASE L_thread[l] # 0
      <4>1. L_thread[l] \in L!Worker
        BY <1>1, <1>3, <3>3 DEF LaneTypes
      <4>2. L_worker[l][L_thread[l]] # "up"
        BY <3>1, <4>1 DEF L!Live
      <4> QED BY <1>1, <1>3, <3>1, <3>3, <4>2 DEF OneThread
    <3> QED BY <3>2, <3>3
  <2>2. \A m \in L_Lane : m # l => (m \notin L_late' => m \notin L_late)
    BY <1>2
  <2> QED BY <1>1, <1>2, <1>3, <1>6, <2>1, <2>2 DEF OneThread
<1>11. DoesItsOwn'
  BY <1>1, <1>2 DEF LanesJobs, DoesItsOwn, OnLane
<1> QED BY <1>1, <1>2, <1>7, <1>8, <1>9, <1>10, <1>11, JobsStay
        DEF LanesInv, LanesJobs

-------------------------------------------------------------------------------
(* The observer, and the lanes' own threads.                               *)

\* A job that begins: those of its lane before it have, or ran aside.
LEMMA BegunInTurn ==
  ASSUME LaneTypes, HasBegun, BegunInOrder,
         NEW j \in 1 .. Len(L_path), ~Has(L_begun, j),
         \A i \in 1 .. Len(L_path) :
           i < j /\ L_laneOf[L_path[i]] = L_laneOf[L_path[j]]
           /\ i \notin L_aside' /\ j \notin L_aside' => Has(L_begun, i),
         L_begun' = Append(L_begun, j),
         L_aside \subseteq L_aside',
         L_aside' \subseteq L_aside \cup {j},
         UNCHANGED <<L_laneOf, L_path>>
  PROVE  HasBegun' /\ BegunInOrder'
<1> DEFINE b == L_begun
           f == Append(L_begun, j)
<1>1. /\ b \in Seq(Nat) /\ j \in Nat /\ Len(L_path) \in Nat
  BY DEF LaneTypes
<1>2. /\ f \in Seq(Nat) /\ Len(b) \in Nat /\ DOMAIN b = 1 .. Len(b)
      /\ DOMAIN f = 1 .. Len(b) + 1
      /\ \A i \in DOMAIN b : i \in DOMAIN f /\ i < Len(b) + 1 /\ f[i] = b[i]
      /\ \A i \in DOMAIN f : i = Len(b) + 1 \/ i \in DOMAIN b
      /\ f[Len(b) + 1] = j /\ Len(b) + 1 \in DOMAIN f
  BY <1>1, AppendIs
<1>3. L_begun' = f
  OBVIOUS
<1> HIDE DEF b, f
<1>4. /\ \A x : Has(b, x) => Has(f, x)
      /\ \A x : Has(f, x) => Has(b, x) \/ x = j
      /\ Has(f, j)
  BY <1>2 DEF Has
<1>5. \A x, y : L!Before(f, x, y) => L!Before(b, x, y) \/ (y = j /\ Has(b, x))
  <2> SUFFICES ASSUME NEW x, NEW y, NEW m \in DOMAIN f, NEW n \in DOMAIN f,
                      m < n, f[m] = x, f[n] = y
               PROVE  L!Before(b, x, y) \/ (y = j /\ Has(b, x))
    BY DEF L!Before
  <2>1. m \in DOMAIN b
    BY <1>2
  <2>2. CASE n \in DOMAIN b
    BY <1>2, <2>1, <2>2 DEF L!Before
  <2>3. CASE n = Len(b) + 1
    BY <1>2, <2>1, <2>3 DEF Has
  <2> QED BY <1>2, <2>2, <2>3
<1>6. HasBegun'
  <2>1. \A i \in DOMAIN f : f[i] \in 1 .. Len(L_path)
    BY <1>2 DEF HasBegun, b
  <2> QED BY <1>3, <2>1 DEF HasBegun
<1>7. BegunInOrder'
  <2> SUFFICES ASSUME NEW i \in 1 .. Len(L_path), NEW k \in 1 .. Len(L_path),
                      i < k, L_laneOf[L_path[i]] = L_laneOf[L_path[k]],
                      i \notin L_aside', k \notin L_aside', Has(f, k)
               PROVE  Has(f, i) /\ ~L!Before(f, k, i)
    BY <1>3 DEF BegunInOrder, Has, L!Before
  <2>1. CASE Has(b, k)
    <3>1. Has(b, i) /\ ~L!Before(b, k, i)
      BY <2>1 DEF BegunInOrder, b
    <3>2. i # j
      BY <3>1 DEF b
    <3> QED BY <1>4, <1>5, <3>1, <3>2
  <2>2. CASE ~Has(b, k)
    <3>1. k = j
      BY <1>4, <2>2
    <3>2. Has(b, i)
      BY <3>1 DEF b
    <3>3. i # j
      BY <1>1, <3>1
    <3>4. ~L!Before(b, k, i)
      BY <2>2 DEF L!Before, Has
    <3> QED BY <1>4, <1>5, <3>2, <3>3, <3>4
  <2> QED BY <2>1, <2>2
<1> QED BY <1>6, <1>7

LEMMA SubmitKeeps ==
  ASSUME LanesInv, NEW p \in L_Path, L!Submit(p) PROVE LanesInv'
<1>1. /\ LaneTypes /\ OneServes /\ ThreadsKnown /\ OneThread /\ DoesItsOwn
      /\ OnOffer /\ InQueue /\ HasBegun /\ NoneMissing /\ BegunInOrder
  BY DEF LanesInv
<1>2. /\ L_obs = [op |-> "idle", job |-> 0]
      /\ L_path' = Append(L_path, p)
      /\ L_obs' = [op |-> IF L_running THEN "offer" ELSE "note", job |-> Len(L_path')]
      /\ UNCHANGED <<L_laneOf, L_queue, L_stopping, L_worker, L_doing, L_thread,
                     L_running, L_lock, L_ctl, L_begun, L_aside, L_late>>
  BY DEF L!Submit, L!Resting, L!laneVars, L!runVars
<1> DEFINE n == Len(L_path)
<1>3. /\ L_path' \in Seq(L_Path) /\ n \in Nat /\ Len(L_path') = n + 1
      /\ L_path' # <<>>
      /\ \A j \in 1 .. n : L_path'[j] = L_path[j]
  BY <1>1, <1>2 DEF LaneTypes
<1>4. /\ L_obs.op = "idle" /\ L_obs'.job = n + 1 /\ L_obs'.op \in {"offer", "note"}
      /\ L_obs'.op = "offer" => L_running
  BY <1>2, <1>3
<1> HIDE DEF n
<1>5. LaneTypes'
  <2>1. L_obs' \in [op : {"idle", "offer", "note", "run", "inline"}, job : Nat]
    BY <1>2, <1>3
  <2> QED BY <1>1, <1>2, <1>3, <2>1 DEF LaneTypes
<1>6. OneServes' /\ ThreadsKnown' /\ OneThread'
  <2>1. OneServes'
    BY <1>1, <1>2 DEF OneServes, Serves
  <2>2. ThreadsKnown'
    BY <1>1, <1>2, <1>4 DEF ThreadsKnown
  <2>3. OneThread'
    BY <1>1, <1>2 DEF OneThread
  <2> QED BY <2>1, <2>2, <2>3
<1>7. \A j, l : OnLane(j, l) =>
        j # n + 1 /\ j \in 1 .. Len(L_path') /\ L_laneOf'[L_path'[j]] = l
  BY <1>2, <1>3 DEF OnLane, n
<1>8. DoesItsOwn'
  <2>1. \A l \in L_Lane, w \in L!Worker : L_doing[l][w] # 0 =>
          /\ L_worker[l][w] = "up" /\ L_doing[l][w] \in 1 .. Len(L_path')
          /\ L_laneOf'[L_path'[L_doing[l][w]]] = l
    BY <1>1, <1>7 DEF DoesItsOwn
  <2> QED BY <1>2, <2>1 DEF DoesItsOwn, OnLane
<1>9. ~Has(L_begun, n + 1) /\ n + 1 \notin L_aside
  BY <1>1, <1>3 DEF HasBegun, Has, n
<1>10. OnOffer'
  BY <1>2, <1>3, <1>4, <1>9 DEF OnOffer, Has
<1>11. InQueue'
  <2>1. \A l \in L_Lane : \A i \in DOMAIN L_queue[l] :
          /\ L_queue[l][i] \in 1 .. Len(L_path')
          /\ L_laneOf'[L_path'[L_queue[l][i]]] = l
          /\ ~Has(L_begun, L_queue[l][i]) /\ L_queue[l][i] \notin L_aside
          /\ L_queue[l][i] # n + 1
          /\ \A m \in DOMAIN L_queue[l] : i < m => L_queue[l][i] < L_queue[l][m]
    BY <1>1, <1>7 DEF InQueue
  <2>2. UNCHANGED <<L_queue, L_begun, L_aside>>
    BY <1>2
  <2> QED BY <1>4, <2>1, <2>2 DEF InQueue, OnLane, Has
<1>12. HasBegun'
  BY <1>1, <1>2, <1>3 DEF HasBegun, n
<1>13. NoneMissing'
  <2> SUFFICES ASSUME NEW j \in 1 .. n + 1
               PROVE  \/ Has(L_begun, j) \/ Has(L_queue[L_laneOf[L_path'[j]]], j)
                      \/ Offering' /\ L_obs'.job = j
    BY <1>2, <1>3 DEF NoneMissing, Has
  <2>1. CASE j = n + 1
    BY <1>4, <2>1 DEF Offering
  <2>2. CASE j \in 1 .. n
    <3>1. ~Offering
      BY <1>4 DEF Offering
    <3> QED BY <1>1, <1>3, <2>2, <3>1 DEF NoneMissing, n
  <2> QED BY <1>3, <2>1, <2>2
<1>14. BegunInOrder'
  <2> SUFFICES ASSUME NEW j \in 1 .. n + 1, NEW k \in 1 .. n + 1,
                      j < k, L_laneOf[L_path'[j]] = L_laneOf[L_path'[k]],
                      j \notin L_aside, k \notin L_aside, Has(L_begun, k)
               PROVE  Has(L_begun, j) /\ ~L!Before(L_begun, k, j)
    <3>1. UNCHANGED <<L_laneOf, L_begun, L_aside>> /\ Len(L_path') = n + 1
      BY <1>2, <1>3
    <3> QED BY <3>1 DEF BegunInOrder, Has, L!Before
  <2>1. k \in 1 .. n /\ j \in 1 .. n
    BY <1>3, <1>9
  <2>2. L_path'[j] = L_path[j] /\ L_path'[k] = L_path[k]
    BY <1>3, <2>1
  <2> QED BY <1>1, <2>1, <2>2 DEF BegunInOrder, n
<1> QED BY <1>5, <1>6, <1>8, <1>10, <1>11, <1>12, <1>13, <1>14 DEF LanesInv

\* A job goes to the end of its lane's queue, or the lane refuses it.
LEMMA OfferKeeps ==
  ASSUME LanesInv, L!Offer PROVE LanesInv'
<1>1. /\ LaneTypes /\ OneServes /\ ThreadsKnown /\ OneThread /\ DoesItsOwn
      /\ OnOffer /\ InQueue /\ HasBegun /\ NoneMissing /\ BegunInOrder
  BY DEF LanesInv
<1> DEFINE n == Len(L_path)
           l == L_laneOf[L_path[n]]
<1>2. /\ L_obs.op = "offer" /\ L_obs.job = n /\ n \in Nat /\ n \in 1 .. n
      /\ l \in L_Lane /\ L_obs \in [op : {"idle", "offer", "note", "run", "inline"},
                                    job : Nat]
  BY <1>1 DEF L!Offer, OnOffer, LaneTypes
<1>3. UNCHANGED <<L_laneOf, L_stopping, L_worker, L_doing, L_thread, L_running,
                  L_lock, L_ctl, L_path, L_begun, L_aside, L_late>>
  BY DEF L!Offer, L!runVars
<1>4. OneServes' /\ DoesItsOwn' /\ HasBegun' /\ BegunInOrder'
  <2>1. OneServes' /\ DoesItsOwn'
    BY <1>1, <1>3 DEF OneServes, Serves, DoesItsOwn, OnLane
  <2>2. HasBegun' /\ BegunInOrder'
    BY <1>1, <1>3 DEF HasBegun, BegunInOrder, Has, L!Before
  <2> QED BY <2>1, <2>2
<1>5. \/ /\ ~L_stopping[l]
         /\ L_queue' = [L_queue EXCEPT ![l] = Append(@, n)]
         /\ L_obs' = [op |-> "idle", job |-> 0]
      \/ L_obs' = [L_obs EXCEPT !.op = "note"] /\ L_queue' = L_queue
  BY <1>2 DEF L!Offer, L!Refuses, L!Resting
<1>6. CASE L_obs' = [L_obs EXCEPT !.op = "note"] /\ L_queue' = L_queue
  <2>1. L_obs'.op = "note" /\ L_obs'.job = n
        /\ L_obs' \in [op : {"idle", "offer", "note", "run", "inline"}, job : Nat]
    BY <1>2, <1>6
  <2>2. LaneTypes' /\ ThreadsKnown' /\ OneThread'
    BY <1>1, <1>3, <1>6, <2>1 DEF LaneTypes, ThreadsKnown, OneThread
  <2>3. OnOffer' /\ NoneMissing'
    BY <1>1, <1>2, <1>3, <1>6, <2>1 DEF OnOffer, NoneMissing, Offering, Has
  <2>4. InQueue'
    BY <1>1, <1>2, <1>3, <1>6, <2>1 DEF InQueue, Offering, Has, OnLane
  <2> QED BY <1>4, <2>2, <2>3, <2>4 DEF LanesInv
<1>7. CASE /\ ~L_stopping[l]
           /\ L_queue' = [L_queue EXCEPT ![l] = Append(@, n)]
           /\ L_obs' = [op |-> "idle", job |-> 0]
  <2> DEFINE q == L_queue[l]
             f == Append(q, n)
  <2>1. /\ f \in Seq(Nat) /\ Len(q) \in Nat /\ DOMAIN q = 1 .. Len(q)
        /\ DOMAIN f = 1 .. Len(q) + 1
        /\ \A i \in DOMAIN q : i \in DOMAIN f /\ i < Len(q) + 1 /\ f[i] = q[i]
        /\ \A i \in DOMAIN f : i = Len(q) + 1 \/ i \in DOMAIN q
        /\ f[Len(q) + 1] = n /\ Len(q) + 1 \in DOMAIN f
    <3>1. q \in Seq(Nat) /\ n \in Nat
      BY <1>1, <1>2 DEF LaneTypes
    <3> HIDE DEF q, n
    <3> QED BY <3>1, AppendIs
  <2>2. /\ L_queue' \in [L_Lane -> Seq(Nat)]
        /\ L_queue'[l] = f
        /\ \A m \in L_Lane : m # l => L_queue'[m] = L_queue[m]
    BY <1>1, <1>2, <1>7, <2>1 DEF LaneTypes
  <2>3. ~Offering' /\ L_obs'.op = "idle" /\ Offering
        /\ L_obs' \in [op : {"idle", "offer", "note", "run", "inline"}, job : Nat]
    BY <1>2, <1>7 DEF Offering
  <2>4. LaneTypes' /\ ThreadsKnown' /\ OnOffer'
    BY <1>1, <1>3, <2>2, <2>3 DEF LaneTypes, ThreadsKnown, OnOffer
  <2>5. OneThread'
    <3>1. L_thread[l] # 0
      BY <1>1, <1>2, <1>7 DEF ThreadsKnown
    <3>2. l \notin L_late => L_worker[l][L_thread[l]] = "up"
      BY <1>1, <1>2, <1>7, <3>1 DEF OneThread
    <3> QED BY <1>1, <1>3, <2>2, <3>1, <3>2 DEF OneThread
  <2> HIDE DEF f, q
  <2>6. InQueue'
    <3>1. OnLane(n, l) /\ ~Has(L_begun, n) /\ n \notin L_aside
      BY <1>1, <1>2, <2>3 DEF OnOffer, OnLane
    <3>2. \A i \in DOMAIN q : q[i] \in Nat /\ q[i] < n
      <4>1. \A i \in DOMAIN q : OnLane(q[i], l) /\ q[i] # n
        BY <1>1, <1>2, <2>3 DEF InQueue, q
      <4> QED BY <1>2, <4>1 DEF OnLane
    <3>3. \A i \in DOMAIN f :
            /\ OnLane(f[i], l) /\ ~Has(L_begun, f[i]) /\ f[i] \notin L_aside
            /\ \A m \in DOMAIN f : i < m => f[i] < f[m]
      <4> SUFFICES ASSUME NEW i \in DOMAIN f
                   PROVE  /\ OnLane(f[i], l) /\ ~Has(L_begun, f[i])
                          /\ f[i] \notin L_aside
                          /\ \A m \in DOMAIN f : i < m => f[i] < f[m]
        OBVIOUS
      <4>1. CASE i = Len(q) + 1
        BY <2>1, <3>1, <4>1
      <4>2. CASE i \in DOMAIN q
        <5>1. f[i] = q[i]
          BY <2>1, <4>2
        <5>2. OnLane(q[i], l) /\ ~Has(L_begun, q[i]) /\ q[i] \notin L_aside
          BY <1>1, <1>2, <4>2 DEF InQueue, q
        <5>3. \A m \in DOMAIN f : i < m => f[i] < f[m]
          <6> SUFFICES ASSUME NEW m \in DOMAIN f, i < m PROVE f[i] < f[m]
            OBVIOUS
          <6>1. CASE m = Len(q) + 1
            BY <2>1, <3>2, <4>2, <5>1, <6>1
          <6>2. CASE m \in DOMAIN q
            <7>1. f[m] = q[m]
              BY <2>1, <6>2
            <7> QED BY <1>1, <1>2, <4>2, <5>1, <6>2, <7>1 DEF InQueue, q
          <6> QED BY <2>1, <6>1, <6>2
        <5> QED BY <5>1, <5>2, <5>3
      <4> QED BY <2>1, <4>1, <4>2
    <3>4. \A m \in L_Lane : \A i \in DOMAIN L_queue'[m] :
            /\ OnLane(L_queue'[m][i], m) /\ ~Has(L_begun, L_queue'[m][i])
            /\ L_queue'[m][i] \notin L_aside
            /\ \A k \in DOMAIN L_queue'[m] :
                 i < k => L_queue'[m][i] < L_queue'[m][k]
      BY <1>1, <2>2, <3>3 DEF InQueue
    <3> QED BY <1>3, <2>3, <3>4 DEF InQueue, Has, OnLane
  <2>7. NoneMissing'
    <3> SUFFICES ASSUME NEW j \in 1 .. n
                 PROVE  Has(L_begun, j) \/ Has(L_queue'[L_laneOf[L_path[j]]], j)
      BY <1>3 DEF NoneMissing, Has
    <3>1. Has(f, n) /\ \A x : Has(q, x) => Has(f, x)
      BY <2>1 DEF Has
    <3>2. CASE j = n
      BY <2>2, <3>1, <3>2 DEF l
    <3>3. CASE j # n
      <4>1. Has(L_begun, j) \/ Has(L_queue[L_laneOf[L_path[j]]], j)
        BY <1>1, <1>2, <3>3 DEF NoneMissing
      <4>2. L_laneOf[L_path[j]] \in L_Lane
        BY <1>1 DEF LaneTypes
      <4> QED BY <2>2, <3>1, <4>1, <4>2 DEF q
    <3> QED BY <3>2, <3>3
  <2> QED BY <1>4, <2>4, <2>5, <2>6, <2>7 DEF LanesInv
<1> QED BY <1>5, <1>6, <1>7

LEMMA RunInlineKeeps ==
  ASSUME LanesInv, L!RunInline PROVE LanesInv'
<1>1. /\ LaneTypes /\ OneServes /\ ThreadsKnown /\ OneThread /\ DoesItsOwn
      /\ OnOffer /\ InQueue /\ HasBegun /\ NoneMissing /\ BegunInOrder
  BY DEF LanesInv
<1> DEFINE n == L_obs.job
<1>2. /\ L_obs.op = "note" /\ L_obs' = [L_obs EXCEPT !.op = "inline"]
      /\ L_begun' = Append(L_begun, n) /\ L_aside' = L_aside \cup {n}
      /\ UNCHANGED <<L_laneOf, L_queue, L_stopping, L_worker, L_doing, L_thread,
                     L_running, L_lock, L_ctl, L_path, L_late>>
  BY DEF L!RunInline, L!laneVars
<1>3. /\ Offering /\ n = Len(L_path) /\ n \in Nat /\ n \in 1 .. Len(L_path)
      /\ ~Has(L_begun, n) /\ L_path # <<>>
  BY <1>1, <1>2 DEF OnOffer, Offering, LaneTypes
<1>4. /\ L_obs'.op = "inline" /\ L_obs'.job = n
      /\ L_obs' \in [op : {"idle", "offer", "note", "run", "inline"}, job : Nat]
  <2>1. L_obs \in [op : {"idle", "offer", "note", "run", "inline"}, job : Nat]
    BY <1>1 DEF LaneTypes
  <2> QED BY <1>2, <2>1
<1> HIDE DEF n
<1>5. /\ L_begun' \in Seq(Nat) /\ Has(L_begun', n)
      /\ \A x : Has(L_begun, x) => Has(L_begun', x)
      /\ \A x : Has(L_begun', x) => Has(L_begun, x) \/ x = n
  <2>1. L_begun \in Seq(Nat)
    BY <1>1 DEF LaneTypes
  <2> QED BY <1>2, <1>3, <2>1, AppendIs, AppendHas
<1>6. LaneTypes' /\ OneServes' /\ ThreadsKnown' /\ OneThread' /\ DoesItsOwn'
  <2>1. LaneTypes'
    BY <1>1, <1>2, <1>4, <1>5 DEF LaneTypes
  <2>2. OneServes' /\ ThreadsKnown'
    BY <1>1, <1>2, <1>4 DEF OneServes, Serves, ThreadsKnown
  <2>3. OneThread' /\ DoesItsOwn'
    BY <1>1, <1>2 DEF OneThread, DoesItsOwn, OnLane
  <2> QED BY <2>1, <2>2, <2>3
<1>7. ~Offering'
  BY <1>4 DEF Offering
<1>8. OnOffer'
  BY <1>2, <1>3, <1>4, <1>7 DEF OnOffer
<1>9. InQueue'
  <2>1. \A l \in L_Lane : \A i \in DOMAIN L_queue[l] :
          /\ OnLane(L_queue[l][i], l) /\ ~Has(L_begun', L_queue[l][i])
          /\ L_queue[l][i] \notin L_aside'
          /\ \A m \in DOMAIN L_queue[l] : i < m => L_queue[l][i] < L_queue[l][m]
    BY <1>1, <1>2, <1>3, <1>5 DEF InQueue, n
  <2>2. UNCHANGED <<L_queue, L_path, L_laneOf>>
    BY <1>2
  <2> QED BY <1>7, <2>1, <2>2 DEF InQueue, OnLane, Has
<1>10. HasBegun' /\ BegunInOrder'
  <2>1. /\ \A i \in 1 .. Len(L_path) :
             i < n /\ L_laneOf[L_path[i]] = L_laneOf[L_path[n]]
             /\ i \notin L_aside' /\ n \notin L_aside' => Has(L_begun, i)
        /\ L_aside \subseteq L_aside' /\ L_aside' \subseteq L_aside \cup {n}
    BY <1>2
  <2> QED BY <1>1, <1>2, <1>3, <2>1, BegunInTurn
<1>11. NoneMissing'
  <2>1. \A j \in 1 .. Len(L_path) :
          Has(L_begun', j) \/ Has(L_queue[L_laneOf[L_path[j]]], j)
    BY <1>1, <1>5 DEF NoneMissing, n
  <2> QED BY <1>2, <2>1 DEF NoneMissing, Has
<1> QED BY <1>6, <1>8, <1>9, <1>10, <1>11 DEF LanesInv

LEMMA InlineEndsKeeps ==
  ASSUME LanesInv, L!InlineEnds PROVE LanesInv'
<1>1. /\ LaneTypes /\ OneServes /\ ThreadsKnown /\ OneThread /\ DoesItsOwn
      /\ OnOffer /\ InQueue /\ HasBegun /\ NoneMissing /\ BegunInOrder
  BY DEF LanesInv
<1>2. /\ L_obs.op = "inline" /\ L_obs' = [op |-> "idle", job |-> 0]
      /\ UNCHANGED <<L_laneOf, L_queue, L_stopping, L_worker, L_doing, L_thread,
                     L_running, L_lock, L_ctl, L_path, L_begun, L_aside, L_late>>
  BY DEF L!InlineEnds, L!Resting, L!laneVars
<1>3. /\ ~Offering /\ ~Offering' /\ L_obs'.op = "idle"
      /\ L_obs' \in [op : {"idle", "offer", "note", "run", "inline"}, job : Nat]
  BY <1>2 DEF Offering
<1>4. LaneTypes' /\ OneServes' /\ ThreadsKnown'
  BY <1>1, <1>2, <1>3 DEF LaneTypes, OneServes, Serves, ThreadsKnown
<1>5. OneThread' /\ DoesItsOwn' /\ OnOffer'
  BY <1>1, <1>2, <1>3 DEF OneThread, DoesItsOwn, OnLane, OnOffer
<1>6. InQueue' /\ HasBegun'
  BY <1>1, <1>2, <1>3 DEF InQueue, HasBegun, Has, OnLane
<1>7. NoneMissing' /\ BegunInOrder'
  BY <1>1, <1>2, <1>3 DEF NoneMissing, BegunInOrder, Has, L!Before
<1> QED BY <1>4, <1>5, <1>6, <1>7 DEF LanesInv

\* A lane's thread takes the first of its queue: what came before has begun.
LEMMA TakeJobKeeps ==
  ASSUME LanesInv, NEW l \in L_Lane, NEW w \in L!Worker, L!Take(l, w)
  PROVE  LanesInv'
<1>1. /\ LaneTypes /\ OneServes /\ ThreadsKnown /\ OneThread /\ DoesItsOwn
      /\ OnOffer /\ InQueue /\ HasBegun /\ NoneMissing /\ BegunInOrder
  BY DEF LanesInv
<1> DEFINE q == L_queue[l]
           j == Head(q)
<1>2. /\ q # <<>> /\ L_worker[l][w] = "up"
      /\ L_doing' = [L_doing EXCEPT ![l][w] = j]
      /\ L_begun' = Append(L_begun, j)
      /\ L_queue' = [L_queue EXCEPT ![l] = Tail(q)]
      /\ UNCHANGED <<L_laneOf, L_stopping, L_worker, L_thread, L_running, L_lock,
                     L_ctl, L_obs, L_path, L_aside, L_late>>
  BY DEF L!Take, L!Popped, L!Free
<1>3. /\ Tail(q) \in Seq(Nat) /\ j \in Nat /\ 1 \in DOMAIN q /\ j = q[1]
      /\ \A i \in DOMAIN Tail(q) : /\ i \in Nat /\ i + 1 \in DOMAIN q /\ 1 < i + 1
                                   /\ Tail(q)[i] = q[i + 1]
      /\ \A i \in DOMAIN q :
           i = 1 \/ (i - 1 \in DOMAIN Tail(q) /\ q[i] = Tail(q)[i - 1])
      /\ DOMAIN q = 1 .. Len(q)
  <2>1. q \in Seq(Nat)
    BY <1>1 DEF LaneTypes
  <2> HIDE DEF q
  <2> QED BY <1>2, <2>1, TailIs
<1>4. /\ L_queue'[l] = Tail(q) /\ L_queue' \in [L_Lane -> Seq(Nat)]
      /\ \A m \in L_Lane : m # l => L_queue'[m] = L_queue[m]
  BY <1>1, <1>2, <1>3 DEF LaneTypes
<1>5. /\ OnLane(j, l) /\ ~Has(L_begun, j) /\ j \notin L_aside
      /\ Offering => j # L_obs.job
      /\ \A m \in DOMAIN q : 1 < m => j < q[m]
  BY <1>1, <1>3 DEF InQueue
<1>6. /\ L_doing' \in [L_Lane -> [L!Worker -> Nat]]
      /\ L_doing'[l][w] = j
      /\ \A v \in L!Worker : v # w => L_doing'[l][v] = L_doing[l][v]
      /\ \A m \in L_Lane : m # l => L_doing'[m] = L_doing[m]
  BY <1>1, <1>2, <1>3 DEF LaneTypes
<1> HIDE DEF j
<1>7. /\ L_begun' \in Seq(Nat) /\ Has(L_begun', j)
      /\ \A x : Has(L_begun, x) => Has(L_begun', x)
      /\ \A x : Has(L_begun', x) => Has(L_begun, x) \/ x = j
  <2>1. L_begun \in Seq(Nat)
    BY <1>1 DEF LaneTypes
  <2> QED BY <1>2, <1>3, <2>1, AppendIs, AppendHas
<1>8. LaneTypes'
  BY <1>1, <1>2, <1>4, <1>6, <1>7 DEF LaneTypes
<1>9. OneServes' /\ ThreadsKnown'
  BY <1>1, <1>2 DEF OneServes, Serves, ThreadsKnown
<1>10. OneThread'
  <2>1. l \notin L_late => w = L_thread[l]
    BY <1>1, <1>2 DEF OneThread
  <2>2. w # 0
    BY DEF L!Worker
  <2> QED BY <1>1, <1>2, <1>4, <2>1, <2>2 DEF OneThread
<1>11. DoesItsOwn'
  <2>1. \A m \in L_Lane, v \in L!Worker : L_doing'[m][v] # 0 =>
          L_worker[m][v] = "up" /\ OnLane(L_doing'[m][v], m)
    <3> SUFFICES ASSUME NEW m \in L_Lane, NEW v \in L!Worker, L_doing'[m][v] # 0
                 PROVE  L_worker[m][v] = "up" /\ OnLane(L_doing'[m][v], m)
      OBVIOUS
    <3>1. CASE m = l /\ v = w
      BY <1>2, <1>5, <1>6, <3>1
    <3>2. CASE ~(m = l /\ v = w)
      <4>1. L_doing'[m][v] = L_doing[m][v]
        BY <1>6, <3>2
      <4> QED BY <1>1, <4>1 DEF DoesItsOwn
    <3> QED BY <3>1, <3>2
  <2> QED BY <1>2, <2>1 DEF DoesItsOwn, OnLane
<1>12. Offering' = Offering
  BY <1>2 DEF Offering
<1>13. OnOffer'
  <2>1. Offering => ~Has(L_begun', L_obs.job)
    BY <1>1, <1>5, <1>7 DEF OnOffer
  <2> QED BY <1>1, <1>2, <1>12, <2>1 DEF OnOffer, Has
<1>14. InQueue'
  <2>1. \A m \in L_Lane : \A i \in DOMAIN L_queue'[m] :
          \E k \in DOMAIN L_queue[m] : L_queue[m][k] = L_queue'[m][i]
                                       /\ L_queue'[m][i] # j
    <3> SUFFICES ASSUME NEW m \in L_Lane, NEW i \in DOMAIN L_queue'[m]
                 PROVE  \E k \in DOMAIN L_queue[m] :
                          L_queue[m][k] = L_queue'[m][i] /\ L_queue'[m][i] # j
      OBVIOUS
    <3>1. CASE m = l
      <4>1. i + 1 \in DOMAIN q /\ 1 < i + 1 /\ L_queue'[m][i] = q[i + 1]
        BY <1>3, <1>4, <3>1
      <4>2. j < q[i + 1]
        BY <1>5, <4>1
      <4>3. q[i + 1] # j
        BY <1>3, <4>2
      <4> QED BY <3>1, <4>1, <4>3
    <3>2. CASE m # l
      <4>1. L_queue'[m] = L_queue[m]
        BY <1>4, <3>2
      <4>2. OnLane(L_queue[m][i], m)
        BY <1>1, <4>1 DEF InQueue
      <4>3. L_queue[m][i] # j
        BY <1>5, <3>2, <4>2 DEF OnLane
      <4> QED BY <4>1, <4>3
    <3> QED BY <3>1, <3>2
  <2>2. \A m \in L_Lane : \A i \in DOMAIN L_queue'[m] :
          /\ OnLane(L_queue'[m][i], m) /\ ~Has(L_begun', L_queue'[m][i])
          /\ L_queue'[m][i] \notin L_aside
          /\ Offering => L_queue'[m][i] # L_obs.job
    <3> SUFFICES ASSUME NEW m \in L_Lane, NEW i \in DOMAIN L_queue'[m]
                 PROVE  /\ OnLane(L_queue'[m][i], m)
                        /\ ~Has(L_begun', L_queue'[m][i])
                        /\ L_queue'[m][i] \notin L_aside
                        /\ Offering => L_queue'[m][i] # L_obs.job
      OBVIOUS
    <3>1. PICK k \in DOMAIN L_queue[m] :
            L_queue[m][k] = L_queue'[m][i] /\ L_queue'[m][i] # j
      BY <2>1
    <3>2. /\ OnLane(L_queue[m][k], m) /\ ~Has(L_begun, L_queue[m][k])
          /\ L_queue[m][k] \notin L_aside
          /\ Offering => L_queue[m][k] # L_obs.job
      BY <1>1 DEF InQueue
    <3> QED BY <1>7, <3>1, <3>2
  <2>3. \A m \in L_Lane : \A i, k \in DOMAIN L_queue'[m] :
          i < k => L_queue'[m][i] < L_queue'[m][k]
    <3> SUFFICES ASSUME NEW m \in L_Lane, NEW i \in DOMAIN L_queue'[m],
                        NEW k \in DOMAIN L_queue'[m], i < k
                 PROVE  L_queue'[m][i] < L_queue'[m][k]
      OBVIOUS
    <3>1. CASE m = l
      <4>1. /\ i + 1 \in DOMAIN q /\ L_queue'[m][i] = q[i + 1] /\ i \in Nat
            /\ k + 1 \in DOMAIN q /\ L_queue'[m][k] = q[k + 1] /\ k \in Nat
        BY <1>3, <1>4, <3>1
      <4>2. i + 1 < k + 1
        BY <4>1
      <4>3. q[i + 1] < q[k + 1]
        BY <1>1, <4>1, <4>2 DEF InQueue
      <4> QED BY <4>1, <4>3
    <3>2. CASE m # l
      BY <1>1, <1>4, <3>2 DEF InQueue
    <3> QED BY <3>1, <3>2
  <2>4. UNCHANGED <<L_path, L_laneOf, L_obs, L_aside>>
    BY <1>2
  <2>5. \A m \in L_Lane : \A i \in DOMAIN L_queue'[m] :
          OnLane(L_queue'[m][i], m) =>
            /\ L_queue'[m][i] \in 1 .. Len(L_path')
            /\ L_laneOf'[L_path'[L_queue'[m][i]]] = m
    BY <2>4 DEF OnLane
  <2> QED BY <1>12, <2>2, <2>3, <2>4, <2>5 DEF InQueue, OnLane, Has
<1>15. HasBegun' /\ BegunInOrder'
  <2>1. j \in 1 .. Len(L_path) /\ L_laneOf[L_path[j]] = l
    BY <1>5 DEF OnLane
  <2>2. ASSUME NEW i \in 1 .. Len(L_path), i < j, L_laneOf[L_path[i]] = l
        PROVE  Has(L_begun, i)
    <3>1. ~Has(q, i)
      <4> SUFFICES ASSUME NEW m \in DOMAIN q, q[m] = i PROVE FALSE
        BY DEF Has
      <4>1. i \in Nat /\ (m = 1 \/ 1 < m)
        BY <1>3
      <4>2. q[m] = j \/ j < q[m]
        BY <1>3, <1>5, <4>1
      <4> QED BY <1>3, <2>2, <4>1, <4>2
    <3>2. ~(Offering /\ L_obs.job = i)
      <4>1. Len(L_path) \in Nat
        BY <1>1 DEF LaneTypes
      <4> QED BY <1>1, <2>1, <2>2, <4>1 DEF OnOffer, Offering
    <3> QED BY <1>1, <2>2, <3>1, <3>2 DEF NoneMissing
  <2>3. L_aside \subseteq L_aside' /\ L_aside' \subseteq L_aside \cup {j}
    BY <1>2
  <2>4. \A i \in 1 .. Len(L_path) :
          i < j /\ L_laneOf[L_path[i]] = L_laneOf[L_path[j]]
          /\ i \notin L_aside' /\ j \notin L_aside' => Has(L_begun, i)
    BY <2>1, <2>2
  <2> QED BY <1>1, <1>2, <1>5, <2>1, <2>3, <2>4, BegunInTurn
<1>16. NoneMissing'
  <2>1. \A x : Has(q, x) => x = j \/ Has(Tail(q), x)
    BY <1>3 DEF Has
  <2>2. \A x \in 1 .. Len(L_path) :
          \/ Has(L_begun', x) \/ Has(L_queue'[L_laneOf[L_path[x]]], x)
          \/ Offering /\ L_obs.job = x
    <3> SUFFICES ASSUME NEW x \in 1 .. Len(L_path),
                        ~Has(L_begun', x), ~(Offering /\ L_obs.job = x)
                 PROVE  Has(L_queue'[L_laneOf[L_path[x]]], x)
      OBVIOUS
    <3>1. Has(L_queue[L_laneOf[L_path[x]]], x)
      BY <1>1, <1>7 DEF NoneMissing
    <3>2. L_laneOf[L_path[x]] \in L_Lane
      BY <1>1 DEF LaneTypes
    <3>3. CASE L_laneOf[L_path[x]] = l
      BY <1>4, <1>7, <2>1, <3>1, <3>3
    <3>4. CASE L_laneOf[L_path[x]] # l
      BY <1>4, <3>1, <3>2, <3>4
    <3> QED BY <3>3, <3>4
  <2>3. UNCHANGED <<L_path, L_laneOf, L_obs>>
    BY <1>2
  <2> QED BY <1>12, <2>2, <2>3 DEF NoneMissing, Has
<1> QED BY <1>8, <1>9, <1>10, <1>11, <1>13, <1>14, <1>15, <1>16 DEF LanesInv

LEMMA FinishKeeps ==
  ASSUME LanesInv, NEW l \in L_Lane, NEW w \in L!Worker, L!Finish(l, w)
  PROVE  LanesInv'
<1>1. /\ LaneTypes /\ OneServes /\ ThreadsKnown /\ OneThread /\ LanesJobs
  BY DEF LanesInv, LanesJobs
<1>2. /\ L_doing' = [L_doing EXCEPT ![l][w] = 0]
      /\ UNCHANGED <<L_laneOf, L_queue, L_stopping, L_worker, L_thread, L_running,
                     L_lock, L_ctl, L_obs, L_path, L_begun, L_aside, L_late>>
  BY DEF L!Finish
<1>3. L_doing' \in [L_Lane -> [L!Worker -> Nat]]
  BY <1>1, <1>2 DEF LaneTypes
<1>4. LaneTypes' /\ OneServes'
  BY <1>1, <1>2, <1>3 DEF LaneTypes, OneServes, Serves
<1>5. ThreadsKnown' /\ OneThread'
  BY <1>1, <1>2 DEF ThreadsKnown, OneThread
<1>6. \A m \in L_Lane, v \in L!Worker :
        L_doing'[m][v] = 0 \/ L_doing'[m][v] = L_doing[m][v]
  BY <1>1, <1>2 DEF LaneTypes
<1>7. DoesItsOwn /\ OnOffer /\ InQueue /\ HasBegun /\ NoneMissing /\ BegunInOrder
  BY <1>1 DEF LanesJobs
<1>8. DoesItsOwn'
  <2>1. \A m \in L_Lane, v \in L!Worker : L_doing'[m][v] # 0 =>
          L_worker[m][v] = "up" /\ OnLane(L_doing'[m][v], m)
    BY <1>6, <1>7 DEF DoesItsOwn
  <2> QED BY <1>2, <2>1 DEF DoesItsOwn, OnLane
<1>9. OnOffer' /\ InQueue' /\ HasBegun'
  BY <1>2, <1>7 DEF OnOffer, InQueue, HasBegun, Offering, OnLane, Has
<1>10. NoneMissing' /\ BegunInOrder'
  BY <1>2, <1>7 DEF NoneMissing, BegunInOrder, Offering, Has, L!Before
<1> QED BY <1>4, <1>5, <1>8, <1>9, <1>10 DEF LanesInv

LEMMA ExitLaneKeeps ==
  ASSUME LanesInv, NEW l \in L_Lane, NEW w \in L!Worker, L!Exit(l, w)
  PROVE  LanesInv'
<1>1. /\ LaneTypes /\ OneServes /\ ThreadsKnown /\ OneThread /\ LanesJobs
  BY DEF LanesInv, LanesJobs
<1>2. /\ L_doing[l][w] = 0 /\ L_stopping[l] /\ L_queue[l] = <<>>
      /\ L_worker' = [L_worker EXCEPT ![l][w] = "gone"]
      /\ UNCHANGED <<L_laneOf, L_queue, L_stopping, L_doing, L_thread, L_running,
                     L_lock, L_ctl, L_obs, L_path, L_begun, L_aside, L_late>>
  BY DEF L!Exit, L!Free, L!MayExit, L!runVars
<1>3. L_worker' \in [L_Lane -> [L!Worker -> {"none", "up", "gone"}]]
  BY <1>1, <1>2 DEF LaneTypes
<1>4. /\ L_worker'[l][w] = "gone"
      /\ \A v \in L!Worker : v # w => L_worker'[l][v] = L_worker[l][v]
      /\ \A m \in L_Lane : m # l => L_worker'[m] = L_worker[m]
  BY <1>1, <1>2 DEF LaneTypes
<1>5. LaneTypes' /\ OneServes'
  BY <1>1, <1>2, <1>3 DEF LaneTypes, OneServes, Serves
<1>6. ThreadsKnown'
  BY <1>1, <1>2 DEF ThreadsKnown
<1>7. OneThread'
  BY <1>1, <1>2, <1>4 DEF OneThread
<1>8. DoesItsOwn'
  <2>1. \A m \in L_Lane, v \in L!Worker : L_doing[m][v] # 0 =>
          L_worker'[m][v] = "up" /\ OnLane(L_doing[m][v], m)
    BY <1>1, <1>2, <1>4 DEF LanesJobs, DoesItsOwn
  <2> QED BY <1>2, <2>1 DEF DoesItsOwn, OnLane
<1> QED BY <1>1, <1>2, <1>5, <1>6, <1>7, <1>8, JobsStay DEF LanesInv, LanesJobs

LEMMA LanesStep == LanesInv /\ [L!Next]_L_vars => LanesInv'
<1>1. ASSUME LanesInv, L!ObserverNext PROVE LanesInv'
  BY <1>1, SubmitKeeps, OfferKeeps, RunInlineKeeps, InlineEndsKeeps
  DEF L!ObserverNext
<1>2. ASSUME LanesInv, L!WorkerNext PROVE LanesInv'
  BY <1>2, TakeJobKeeps, FinishKeeps, ExitLaneKeeps DEF L!WorkerNext
<1>3. ASSUME LanesInv, L!StartNext PROVE LanesInv'
  BY <1>3, StartKeeps, StartLaneKeeps, StartedKeeps DEF L!StartNext
<1>4. ASSUME LanesInv, L!StopNext PROVE LanesInv'
  BY <1>4, StopKeeps, StopLocksKeeps, StopLaneKeeps, JoinLaneKeeps, StoppedKeeps
  DEF L!StopNext
<1> QED BY <1>1, <1>2, <1>3, <1>4, LanesRest DEF L!Next

LEMMA LanesTell == LanesInv => L!QueuedInOrder /\ L!StoppedIsEmpty
<1> SUFFICES ASSUME LanesInv PROVE L!QueuedInOrder /\ L!StoppedIsEmpty
  OBVIOUS
<1>1. /\ LaneTypes /\ OneServes /\ ThreadsKnown /\ OneThread /\ DoesItsOwn
      /\ OnOffer /\ InQueue /\ HasBegun /\ NoneMissing /\ BegunInOrder
  BY DEF LanesInv
<1>2. L!StoppedIsEmpty
  <2> SUFFICES ASSUME ~L_running, L_lock = L_Nobody, NEW l \in L_Lane, l \notin L_late
               PROVE  L_queue[l] = <<>> /\ L!Live(l) = {}
    BY DEF L!StoppedIsEmpty
  <2>1. L_thread[l] = 0
    BY <1>1 DEF ThreadsKnown
  <2>2. \A w \in L!Worker : w # 0
    BY DEF L!Worker
  <2>3. L_queue[l] = <<>> /\ \A w \in L!Worker : L_worker[l][w] # "up"
    BY <1>1, <2>1, <2>2 DEF OneThread
  <2> QED BY <2>3 DEF L!Live
<1>3. L!QueuedInOrder
  <2> SUFFICES ASSUME NEW j \in L!Job, NEW k \in L!Job, j < k, k <= Len(L_path),
                      L_path[j] = L_path[k], j \notin L_aside, k \notin L_aside,
                      L_laneOf[L_path[k]] \notin L_late
               PROVE  ~(L!Running(j) /\ L!Running(k)) /\ ~L!Before(L_begun, k, j)
    BY DEF L!QueuedInOrder
  <2>1. j \in 1 .. Len(L_path) /\ k \in 1 .. Len(L_path) /\ j # 0 /\ k # 0 /\ j # k
    BY <1>1 DEF L!Job, LaneTypes
  <2>2. ~L!Before(L_begun, k, j)
    <3>1. L!Before(L_begun, k, j) => Has(L_begun, k)
      BY DEF L!Before, Has
    <3> QED BY <1>1, <2>1, <3>1 DEF BegunInOrder
  <2>3. ASSUME L!Running(j), L!Running(k) PROVE FALSE
    <3>1. PICK l \in L_Lane, v \in L!Worker : L_doing[l][v] = j
      BY <2>3 DEF L!Running
    <3>2. PICK m \in L_Lane, w \in L!Worker : L_doing[m][w] = k
      BY <2>3 DEF L!Running
    <3>3. /\ L_worker[l][v] = "up" /\ l = L_laneOf[L_path[j]]
          /\ L_worker[m][w] = "up" /\ m = L_laneOf[L_path[k]]
      BY <1>1, <2>1, <3>1, <3>2 DEF DoesItsOwn, OnLane
    <3>4. l = m /\ l \notin L_late
      BY <3>3
    <3>5. v = L_thread[l] /\ w = L_thread[l]
      BY <1>1, <3>3, <3>4 DEF OneThread
    <3> QED BY <2>1, <3>1, <3>2, <3>4, <3>5
  <2> QED BY <2>2, <2>3
<1> QED BY <1>2, <1>3

\* A file's queued events are correlated in their order, one at a time, on a
\* lane whose thread no stop has left behind, and a stop finishes what is queued
\* (dispatch.py _Lane and CorrelationLanes).
THEOREM EventsKeepTheirOrder == MonitorSpec => []LanesKeepOrder
<1> DEFINE Inv == part = "lanes" => LanesInv
<1>1. MonitorInit => Inv
  BY LanesStart DEF MonitorInit
<1>2. Inv /\ [MonitorNext]_monitorVars => Inv'
  BY LanesStep
  DEF MonitorNext, monitorVars, L_others, I_others, E_others, W_others, K_others
<1>3. Inv => LanesKeepOrder
  BY LanesTell DEF LanesKeepOrder
<1> QED BY <1>1, <1>2, <1>3, PTL DEF MonitorSpec
===============================================================================
