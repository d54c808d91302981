--------------------------- MODULE EscalationProofs ---------------------------
(***************************************************************************)
(* The blocks of an incident, for any number of questions, workers and     *)
(* bounds: where a question that closed is, from the inbox to the tail,    *)
(* and where its block is behind the incident's own.  An answer goes       *)
(* through five hands, and each of them may be the one that stops.         *)
(***************************************************************************)
EXTENDS MCMonitor, MonitorProofs, SequenceTheorems

-------------------------------------------------------------------------------
(* The blocks.  A detection goes down one pipe, _work, _drain, _tail and    *)
(* _run_tail, and so does an escalation that is queued behind it.           *)

Kind(k, q) == E!Thing(k, q)
InWork(k, q) == Has(E_work, Kind(k, q))
InDrain(k, q) == E_drain.st # "idle" /\ E_drain.item = Kind(k, q)
InTail(k, q) == Has(E_tail, Kind(k, q))
InTailer(k, q) == E_tailer.st = "write" /\ E_tailer.item = Kind(k, q)

\* The incident's own blocks that are still to be written.
OwnDue(q) ==
  \/ InWork("detection", q) \/ InDrain("detection", q) \/ InDrain("blocks", q)
  \/ InTail("blocks", q) \/ InTailer("blocks", q)
\* An escalation block that is queued behind them.
Behind(q) ==
  \/ InWork("escalation", q) \/ InDrain("escalation", q)
  \/ InTail("escalation", q) \/ InTailer("escalation", q)

Things(ks) == {Kind(k, q) : k \in ks, q \in E!Q}
Busy(x) == x.st # "idle"
One(b) == IF b THEN 1 ELSE 0

PipeTypes ==
  /\ E_deferring \in BOOLEAN
  /\ E_work \in Seq(Things({"detection", "escalation"}))
  /\ E_tail \in Seq(Things({"blocks", "escalation"}))
  /\ \/ E_drain = E!Idle
     \/ E_drain \in [st : {"run"}, item : Things({"detection"})]
     \/ E_drain \in [st : {"hand"}, item : Things({"blocks", "escalation"})] /\ E_deferring
     \/ E_drain \in [st : {"record"}, item : Things({"escalation"})] /\ ~E_deferring
  /\ \/ E_tailer = E!Idle
     \/ E_tailer \in [st : {"write", "settle"}, item : Things({"blocks", "escalation"})]
  /\ ~E_deferring => E_tail = <<>> /\ E_tailer = E!Idle
  /\ E_workLeft = Len(E_work) + Len(E_tail) + One(Busy(E_drain)) + One(Busy(E_tailer))

\* s has nothing twice; it has y before z.
Once(s) == \A i, j \in DOMAIN s : s[i] = s[j] => i = j
InTurn(s, y, z) == \A i, j \in DOMAIN s : s[i] = y /\ s[j] = z => i < j

\* What is in the pipe is there once, an incident's own before its escalation.
PipeOf(q) ==
  /\ E_stage[q] = "none" => ~OwnDue(q) /\ E_tailer.item # Kind("blocks", q)
  /\ E_tailer.st = "settle" /\ E_tailer.item = Kind("blocks", q) => ~OwnDue(q)
  /\ InWork("detection", q) =>
       ~(InDrain("detection", q) \/ InDrain("blocks", q) \/ InDrain("escalation", q)
         \/ InTail("blocks", q) \/ InTail("escalation", q)
         \/ InTailer("blocks", q) \/ InTailer("escalation", q))
  /\ InDrain("detection", q) \/ InDrain("blocks", q) =>
       ~(InTail("blocks", q) \/ InTail("escalation", q)
         \/ InTailer("blocks", q) \/ InTailer("escalation", q))
  /\ InTail("blocks", q) =>
       ~(InTailer("blocks", q) \/ InTailer("escalation", q))
  /\ InWork("escalation", q) =>
       ~(InDrain("escalation", q) \/ InTail("escalation", q)
         \/ InTailer("escalation", q))
  /\ InDrain("escalation", q) =>
       ~(InTail("escalation", q) \/ InTailer("escalation", q))
  /\ InTail("escalation", q) => ~InTailer("escalation", q)
  /\ InTurn(E_work, Kind("detection", q), Kind("escalation", q))
  /\ InTurn(E_tail, Kind("blocks", q), Kind("escalation", q))
PipeInOrder == Once(E_work) /\ Once(E_tail) /\ \A q \in E!Q : PipeOf(q)

\* A question that closed is at one place of the escalator, or settled.
AtWorker(w, q) == E_worker[w].st \in {"act", "hand"} /\ E_worker[w].item.q = q
InOwed(q) == \E i \in DOMAIN E_owed : E_owed[i].q = q
AtWriter(q) == E_writer.st \in {"write", "queue"} /\ E_writer.item.q = q
WritesNow(q) == E_writer.st = "write" /\ E_writer.item.q = q
Held(q) == (\E w \in E_Worker : AtWorker(w, q)) \/ InOwed(q) \/ AtWriter(q)
InLane(q) == E_pid[q] \in E_Pid /\ Has(E_lanes[E_pid[q]], q)

OwedTypes ==
  /\ E_owed \in Seq(Things({"record", "escalate"}) \cup {E!Nothing})
  /\ \/ E_writer = E!Up \/ E_writer = E!Gone
     \/ E_writer \in [st : {"write", "queue"}, item : Things({"record", "escalate"})]
  /\ \A w \in E_Worker :
       \/ E_worker[w] = E!Up \/ E_worker[w] = E!Gone
       \/ E_worker[w] \in [st : {"act", "hand"}, item : Things({"record"})]
  /\ E_settled \in [E!Q -> {0, 1}]
OwedOnce == \A i, j \in DOMAIN E_owed : E_owed[i].q = E_owed[j].q => i = j

\* q has left the inbox and the lanes.
Passed(q) ==
  /\ Has(E_closings, q) /\ ~Has(E_inbox, q)
  /\ E_pid[q] \in E_Pid => Has(E_acted, q)
PlaceOf(q) ==
  /\ \A v, w \in E_Worker : AtWorker(v, q) /\ AtWorker(w, q) => v = w
  /\ \A w \in E_Worker : AtWorker(w, q) => ~InOwed(q) /\ ~AtWriter(q)
  /\ ~(InOwed(q) /\ AtWriter(q))
  /\ Held(q) => Passed(q) /\ E_settled[q] = 0
  /\ E_settled[q] = 1 => Passed(q)
  /\ Has(E_closings, q) =>
       E_settled[q] = 1 \/ Has(E_inbox, q) \/ InLane(q) \/ Held(q)

\* The sentinel is the last thing owed, and the last thing the writer takes.
SentinelIsLast ==
  /\ \A i \in DOMAIN E_owed : E_owed[i] = E!Nothing =>
       i = Len(E_owed) /\ E_intake = "last"
  /\ E_writer = E!Gone => E_owed = <<>> /\ E_intake \in {"last", "gone"}
  /\ E_intake = "gone" => E_writer = E!Gone

OwedInv == OwedTypes /\ OwedOnce /\ SentinelIsLast /\ \A q \in E!Q : PlaceOf(q)

Anchored(q) == Has(E_anchors, q)
Written(q) == E!WrittenAs("escalation", q)
LastFor(q) ==
  \A m, n \in DOMAIN E_chain :
    E_chain[m] = Kind("escalation", q) /\ E_chain[n].q = q => n <= m

\* Once settled, a question's block is written, on its way or failed.  An open
\* question has an anchor until its block is written; the anchor is marked once
\* the incident's own blocks are, and nothing of it follows the block.
BlockOf(q) ==
  /\ Behind(q) \/ Written(q) => E_settled[q] = 1
  /\ E_settled[q] = 1 => q \in E_failed \/ Written(q) \/ Behind(q)
  /\ Anchored(q) => E_stage[q] \in {"open", "closed"}
  /\ q \in E_marked => Anchored(q) /\ ~OwnDue(q)
  /\ q \notin E_evicted =>
       /\ E_stage[q] = "open" => Anchored(q)
       /\ E_stage[q] = "closed" /\ E_settled[q] = 0 => Anchored(q)
       /\ WritesNow(q) => ~OwnDue(q)
       /\ Written(q) => ~OwnDue(q) /\ ~Behind(q)
       /\ LastFor(q)
BlockTypes ==
  /\ E_anchors \in Seq(E!Q) /\ E_marked \subseteq E!Q
  /\ E_chain \in Seq(Things({"own", "escalation"}))
WrittenInv == BlockTypes /\ \A q \in E!Q : BlockOf(q)

BlocksInv == PipeTypes /\ PipeInOrder /\ OwedInv /\ WrittenInv

-------------------------------------------------------------------------------
(* Things, and sequences of them.                                          *)

LEMMA KindIs ==
  /\ \A k, q : Kind(k, q).kind = k /\ Kind(k, q).q = q
  /\ \A k, q, l, r : Kind(k, q) = Kind(l, r) => k = l /\ q = r
  /\ E!Nothing = Kind("stop", 0) /\ E!Nothing.q = 0
BY DEF Kind, E!Thing, E!Nothing, E!Sentinel

LEMMA ThingIs ==
  ASSUME NEW ks, NEW x \in Things(ks)
  PROVE  /\ x.kind \in ks /\ x.q \in E!Q /\ x.q # 0
         /\ x = Kind(x.kind, x.q) /\ x # E!Nothing
<1>1. PICK k \in ks, q \in E!Q : x = Kind(k, q)
  BY DEF Things
<1> QED BY <1>1, KindIs, EscalationHolds

LEMMA HeadLeaves ==
  ASSUME NEW S, NEW s \in Seq(S), s # <<>>, Once(s)
  PROVE  /\ Once(Tail(s)) /\ Tail(s) \in Seq(S) /\ Head(s) \in S
         /\ Len(Tail(s)) = Len(s) - 1 /\ Has(s, Head(s))
         /\ \A y : Has(Tail(s), y) <=> Has(s, y) /\ y # Head(s)
         /\ \A y, z : InTurn(s, y, z) => InTurn(Tail(s), y, z)
         /\ \A y : InTurn(s, y, Head(s)) => ~Has(s, y)
<1> DEFINE t == Tail(s)
<1>1. /\ t \in Seq(S) /\ Head(s) \in S /\ 1 \in DOMAIN s /\ Head(s) = s[1]
      /\ \A i \in DOMAIN t : /\ i \in Nat /\ i + 1 \in DOMAIN s /\ 1 < i + 1
                             /\ t[i] = s[i + 1]
      /\ \A i \in DOMAIN s :
           i = 1 \/ (i - 1 \in DOMAIN t /\ s[i] = t[i - 1])
      /\ DOMAIN s = 1 .. Len(s) /\ Len(t) = Len(s) - 1
  BY TailIs
<1> HIDE DEF t
<1>2. Once(t)
  <2> SUFFICES ASSUME NEW i \in DOMAIN t, NEW j \in DOMAIN t, t[i] = t[j]
               PROVE  i = j
    BY DEF Once
  <2>1. /\ i \in Nat /\ i + 1 \in DOMAIN s /\ t[i] = s[i + 1]
        /\ j \in Nat /\ j + 1 \in DOMAIN s /\ t[j] = s[j + 1]
    BY <1>1
  <2>2. i + 1 = j + 1
    BY <2>1 DEF Once
  <2> QED BY <2>1, <2>2
<1>3. \A y : Has(t, y) <=> Has(s, y) /\ y # Head(s)
  <2>1. \A i \in DOMAIN s : s[i] = Head(s) => i = 1
    BY <1>1 DEF Once
  <2>2. \A i \in DOMAIN t : Has(s, t[i]) /\ t[i] # Head(s)
    BY <1>1, <2>1 DEF Has
  <2>3. ASSUME NEW i \in DOMAIN s, s[i] # Head(s) PROVE Has(t, s[i])
    BY <1>1, <2>3 DEF Has
  <2> QED BY <2>2, <2>3 DEF Has
<1>4. ASSUME NEW y, NEW z, InTurn(s, y, z) PROVE InTurn(t, y, z)
  <2> SUFFICES ASSUME NEW i \in DOMAIN t, NEW j \in DOMAIN t, t[i] = y, t[j] = z
               PROVE  i < j
    BY DEF InTurn
  <2>1. i + 1 < j + 1 /\ i \in Nat /\ j \in Nat
    BY <1>1, <1>4 DEF InTurn
  <2> QED BY <2>1
<1>5. ASSUME NEW y, InTurn(s, y, Head(s)) PROVE ~Has(s, y)
  <2> SUFFICES ASSUME NEW i \in DOMAIN s, s[i] = y PROVE FALSE
    BY DEF Has
  <2>1. i < 1
    BY <1>1, <1>5 DEF InTurn
  <2> QED BY <1>1, <2>1
<1> QED BY <1>1, <1>2, <1>3, <1>4, <1>5 DEF t, Has

LEMMA LastJoins ==
  ASSUME NEW S, NEW s \in Seq(S), NEW x \in S, Once(s), ~Has(s, x)
  PROVE  /\ Once(Append(s, x)) /\ Append(s, x) \in Seq(S)
         /\ Len(Append(s, x)) = Len(s) + 1
         /\ \A y : Has(Append(s, x), y) <=> Has(s, y) \/ y = x
         /\ \A y, z : InTurn(s, y, z) /\ y # x => InTurn(Append(s, x), y, z)
         /\ \A z : ~Has(s, z) /\ z # x => InTurn(Append(s, x), x, z)
<1> DEFINE t == Append(s, x)
<1>1. /\ t \in Seq(S) /\ Len(s) \in Nat /\ DOMAIN s = 1 .. Len(s)
      /\ DOMAIN t = 1 .. Len(s) + 1 /\ Len(s) + 1 \in DOMAIN t
      /\ \A i \in DOMAIN s : i \in DOMAIN t /\ i < Len(s) + 1 /\ t[i] = s[i]
      /\ \A i \in DOMAIN t : i = Len(s) + 1 \/ i \in DOMAIN s
      /\ t[Len(s) + 1] = x
  BY AppendIs
<1>2. Len(t) = Len(s) + 1
  OBVIOUS
<1>3. \A i \in DOMAIN s : s[i] # x
  BY DEF Has
<1> HIDE DEF t
<1>4. Once(t)
  BY <1>1, <1>3 DEF Once
<1>5. \A y : Has(t, y) <=> Has(s, y) \/ y = x
  BY <1>1 DEF Has
<1>6. ASSUME NEW y, NEW z, InTurn(s, y, z), y # x PROVE InTurn(t, y, z)
  BY <1>1, <1>6 DEF InTurn
<1>7. ASSUME NEW z, ~Has(s, z), z # x PROVE InTurn(t, x, z)
  BY <1>1, <1>7 DEF InTurn, Has
<1> QED BY <1>1, <1>2, <1>4, <1>5, <1>6, <1>7 DEF t

-------------------------------------------------------------------------------
(* The pipe.                                                               *)

PipeIsAsItWas ==
  UNCHANGED <<E_deferring, E_work, E_workLeft, E_drain, E_tail, E_tailer>>

\* Who does not touch the pipe keeps its shape, and what is in it.
LEMMA PipeStays ==
  ASSUME PipeTypes, PipeInOrder, PipeIsAsItWas,
         \A q \in E!Q : E_stage'[q] = "none" => E_stage[q] = "none"
  PROVE  /\ PipeTypes' /\ PipeInOrder'
         /\ \A q : (OwnDue(q)' <=> OwnDue(q)) /\ (Behind(q)' <=> Behind(q))
<1>1. \A k, q : /\ InWork(k, q)' <=> InWork(k, q)
                /\ InDrain(k, q)' <=> InDrain(k, q)
                /\ InTail(k, q)' <=> InTail(k, q)
                /\ InTailer(k, q)' <=> InTailer(k, q)
  BY DEF PipeIsAsItWas, InWork, InDrain, InTail, InTailer, Has, Kind, E!Thing
<1>2. \A q : (OwnDue(q)' <=> OwnDue(q)) /\ (Behind(q)' <=> Behind(q))
  BY <1>1 DEF OwnDue, Behind
<1>3. PipeTypes'
  BY DEF PipeIsAsItWas, PipeTypes, Busy, One, Things, Kind, E!Thing, E!Idle, E!Nothing
<1>4. \A q \in E!Q : PipeOf(q)'
  <2> SUFFICES ASSUME NEW q \in E!Q PROVE PipeOf(q)'
    OBVIOUS
  <2>1. PipeOf(q)
    BY DEF PipeInOrder
  <2>2. /\ InTurn(E_work', Kind("detection", q), Kind("escalation", q))
        /\ InTurn(E_tail', Kind("blocks", q), Kind("escalation", q))
        /\ E_tailer' = E_tailer
    BY <2>1 DEF PipeOf, PipeIsAsItWas
  <2>3. /\ E_stage'[q] = "none" =>
             ~OwnDue(q)' /\ E_tailer'.item # Kind("blocks", q)
        /\ E_tailer'.st = "settle" /\ E_tailer'.item = Kind("blocks", q)
             => ~OwnDue(q)'
    BY <1>2, <2>1, <2>2 DEF PipeOf
  <2> QED BY <1>1, <2>1, <2>2, <2>3 DEF PipeOf, Kind, E!Thing
<1>5. Once(E_work') /\ Once(E_tail')
  BY DEF PipeIsAsItWas, PipeInOrder
<1> QED BY <1>2, <1>3, <1>4, <1>5 DEF PipeInOrder, Once

\* A thing that is in the pipe is nowhere else; what PipeOf says for one question,
\* told with the places of its things.
LEMMA PipePlaces ==
  ASSUME PipeTypes, PipeInOrder
  PROVE  /\ E_drain.st = "idle" => E_drain = E!Idle
         /\ E_drain.st \in {"idle", "run", "hand", "record"}
         /\ E_drain.st # "idle" => E_drain.item \in
              Things({"detection", "blocks", "escalation"})
         /\ E_drain.st = "run" => E_drain.item \in Things({"detection"})
         /\ E_drain.st = "hand" =>
              E_deferring /\ E_drain.item \in Things({"blocks", "escalation"})
         /\ E_drain.st = "record" =>
              ~E_deferring /\ E_drain.item \in Things({"escalation"})
         /\ E_tailer.st = "idle" => E_tailer = E!Idle
         /\ E_tailer.st \in {"idle", "write", "settle"}
         /\ E_tailer.st # "idle" =>
              E_deferring /\ E_tailer.item \in Things({"blocks", "escalation"})
<1> USE DEF PipeTypes
<1>1. E!Idle.st = "idle"
  BY DEF E!Idle
<1>2. \A ks, js : ks \subseteq js => Things(ks) \subseteq Things(js)
  BY DEF Things
<1>3. CASE E_drain = E!Idle
  BY <1>1, <1>3
<1>4. CASE E_drain \in [st : {"run"}, item : Things({"detection"})]
  BY <1>1, <1>2, <1>4
<1>5. CASE E_drain \in [st : {"hand"}, item : Things({"blocks", "escalation"})]
           /\ E_deferring
  BY <1>1, <1>2, <1>5
<1>6. CASE E_drain \in [st : {"record"}, item : Things({"escalation"})]
           /\ ~E_deferring
  BY <1>1, <1>2, <1>6
<1> QED BY <1>1, <1>3, <1>4, <1>5, <1>6

LEMMA DetectPipes ==
  ASSUME PipeTypes, PipeInOrder, NEW q \in E!Q,
         E_stage[q] = "none", E_stage' = [E_stage EXCEPT ![q] = "queued"],
         E_stage \in [E!Q -> {"none", "queued", "open", "closed"}],
         ~Behind(q),
         E_work' = Append(E_work, Kind("detection", q)),
         E_workLeft' = E_workLeft + 1,
         UNCHANGED <<E_deferring, E_drain, E_tail, E_tailer>>
  PROVE  /\ PipeTypes' /\ PipeInOrder'
         /\ \A r : (OwnDue(r)' <=> OwnDue(r) \/ r = q) /\ (Behind(r)' <=> Behind(r))
<1> DEFINE x == Kind("detection", q)
<1>1. x \in Things({"detection", "escalation"})
      /\ E_work \in Seq(Things({"detection", "escalation"}))
  BY DEF Things, PipeTypes
<1>2. ~OwnDue(q) /\ E_tailer.item # Kind("blocks", q)
  BY DEF PipeInOrder, PipeOf
<1>3. ~Has(E_work, x) /\ Once(E_work)
  BY <1>2 DEF OwnDue, InWork, PipeInOrder
<1>4. /\ Once(E_work') /\ E_work' \in Seq(Things({"detection", "escalation"}))
      /\ Len(E_work') = Len(E_work) + 1
      /\ \A y : Has(E_work', y) <=> Has(E_work, y) \/ y = x
      /\ \A y, z : InTurn(E_work, y, z) /\ y # x => InTurn(E_work', y, z)
      /\ \A z : ~Has(E_work, z) /\ z # x => InTurn(E_work', x, z)
  BY <1>1, <1>3, LastJoins
<1>5. \A k, r : /\ InWork(k, r)' <=> InWork(k, r) \/ (k = "detection" /\ r = q)
                /\ InDrain(k, r)' <=> InDrain(k, r)
                /\ InTail(k, r)' <=> InTail(k, r)
                /\ InTailer(k, r)' <=> InTailer(k, r)
  <2>1. \A k, r : Kind(k, r) = x <=> k = "detection" /\ r = q
    BY KindIs
  <2> HIDE DEF x
  <2>2. \A k, r : Has(E_work', Kind(k, r)) <=> InWork(k, r) \/ Kind(k, r) = x
    BY <1>4 DEF InWork
  <2>3. UNCHANGED <<E_drain, E_tail, E_tailer>>
    OBVIOUS
  <2> QED BY <2>1, <2>2, <2>3
          DEF InWork, InDrain, InTail, InTailer, Has, Kind, E!Thing
<1>6. \A r : (OwnDue(r)' <=> OwnDue(r) \/ r = q) /\ (Behind(r)' <=> Behind(r))
  BY <1>5 DEF OwnDue, Behind
<1>7. PipeTypes'
  <2>1. E_work' \in Seq(Things({"detection", "escalation"}))'
        /\ E_workLeft' = (Len(E_work) + Len(E_tail) + One(Busy(E_drain))
                          + One(Busy(E_tailer)))'
    <3>1. Len(E_work) \in Nat /\ Len(E_tail) \in Nat
      BY <1>1 DEF PipeTypes
    <3>2. One(Busy(E_drain)) \in Nat /\ One(Busy(E_tailer)) \in Nat
      BY DEF One
    <3>3. Things({"detection", "escalation"})' = Things({"detection", "escalation"})
      BY DEF Things, Kind, E!Thing
    <3> QED BY <1>4, <3>1, <3>2, <3>3 DEF PipeTypes, One, Busy
  <2> QED BY <2>1 DEF PipeTypes, Things, Kind, E!Thing, E!Idle, E!Nothing
<1>8. ASSUME NEW r \in E!Q PROVE PipeOf(r)'
  <2>1. PipeOf(r)
    BY DEF PipeInOrder
  <2>2. /\ InTurn(E_work', Kind("detection", r), Kind("escalation", r))
        /\ InTurn(E_tail', Kind("blocks", r), Kind("escalation", r))
    <3>1. CASE r = q
      <4>1. ~Has(E_work, Kind("escalation", q)) /\ Kind("escalation", q) # x
        BY KindIs DEF Behind, InWork
      <4> QED BY <1>4, <2>1, <3>1, <4>1 DEF PipeOf
    <3>2. CASE r # q
      <4>1. Kind("detection", r) # x
        BY <3>2, KindIs
      <4> QED BY <1>4, <2>1, <4>1 DEF PipeOf
    <3> QED BY <3>1, <3>2
  <2>3. E_stage'[r] = "none" => E_stage[r] = "none" /\ r # q
    OBVIOUS
  <2>4. /\ E_stage'[r] = "none" =>
             ~OwnDue(r)' /\ E_tailer'.item # Kind("blocks", r)
        /\ E_tailer'.st = "settle" /\ E_tailer'.item = Kind("blocks", r)
             => ~OwnDue(r)'
    BY <1>2, <1>6, <2>1, <2>3 DEF PipeOf
  <2>5. /\ InWork("detection", r)' =>
             ~(\/ InDrain("detection", r)' \/ InDrain("blocks", r)'
               \/ InDrain("escalation", r)'
               \/ InTail("blocks", r)' \/ InTail("escalation", r)'
               \/ InTailer("blocks", r)' \/ InTailer("escalation", r)')
    BY <1>2, <1>5, <2>1 DEF PipeOf, OwnDue, Behind
  <2> QED BY <1>5, <2>1, <2>2, <2>4, <2>5 DEF PipeOf, Kind, E!Thing
<1> QED BY <1>4, <1>6, <1>7, <1>8 DEF PipeInOrder, Once

LEMMA QueuePipes ==
  ASSUME PipeTypes, PipeInOrder, NEW q \in E!Q, ~Behind(q),
         E_work' = Append(E_work, Kind("escalation", q)),
         E_workLeft' = E_workLeft + 1,
         UNCHANGED <<E_stage, E_deferring, E_drain, E_tail, E_tailer>>
  PROVE  /\ PipeTypes' /\ PipeInOrder'
         /\ \A r : (OwnDue(r)' <=> OwnDue(r)) /\ (Behind(r)' <=> Behind(r) \/ r = q)
<1> DEFINE x == Kind("escalation", q)
<1>1. x \in Things({"detection", "escalation"})
      /\ E_work \in Seq(Things({"detection", "escalation"}))
  BY DEF Things, PipeTypes
<1>2. ~Has(E_work, x) /\ Once(E_work)
  BY DEF Behind, InWork, PipeInOrder
<1>3. /\ Once(E_work') /\ E_work' \in Seq(Things({"detection", "escalation"}))
      /\ Len(E_work') = Len(E_work) + 1
      /\ \A y : Has(E_work', y) <=> Has(E_work, y) \/ y = x
      /\ \A y, z : InTurn(E_work, y, z) /\ y # x => InTurn(E_work', y, z)
  BY <1>1, <1>2, LastJoins
<1>4. \A k, r : /\ InWork(k, r)' <=> InWork(k, r) \/ (k = "escalation" /\ r = q)
                /\ InDrain(k, r)' <=> InDrain(k, r)
                /\ InTail(k, r)' <=> InTail(k, r)
                /\ InTailer(k, r)' <=> InTailer(k, r)
  <2>1. \A k, r : Kind(k, r) = x <=> k = "escalation" /\ r = q
    BY KindIs
  <2> HIDE DEF x
  <2>2. \A k, r : Has(E_work', Kind(k, r)) <=> InWork(k, r) \/ Kind(k, r) = x
    BY <1>3 DEF InWork
  <2>3. UNCHANGED <<E_drain, E_tail, E_tailer>>
    OBVIOUS
  <2> QED BY <2>1, <2>2, <2>3
          DEF InWork, InDrain, InTail, InTailer, Has, Kind, E!Thing
<1>5. \A r : (OwnDue(r)' <=> OwnDue(r)) /\ (Behind(r)' <=> Behind(r) \/ r = q)
  BY <1>4 DEF OwnDue, Behind
<1>6. PipeTypes'
  <2>1. E_work' \in Seq(Things({"detection", "escalation"}))'
        /\ E_workLeft' = (Len(E_work) + Len(E_tail) + One(Busy(E_drain))
                          + One(Busy(E_tailer)))'
    <3>1. Len(E_work) \in Nat /\ Len(E_tail) \in Nat
      BY <1>1 DEF PipeTypes
    <3>2. One(Busy(E_drain)) \in Nat /\ One(Busy(E_tailer)) \in Nat
      BY DEF One
    <3>3. Things({"detection", "escalation"})' = Things({"detection", "escalation"})
      BY DEF Things, Kind, E!Thing
    <3> QED BY <1>3, <3>1, <3>2, <3>3 DEF PipeTypes, One, Busy
  <2> QED BY <2>1 DEF PipeTypes, Things, Kind, E!Thing, E!Idle, E!Nothing
<1>7. ASSUME NEW r \in E!Q PROVE PipeOf(r)'
  <2>1. PipeOf(r)
    BY DEF PipeInOrder
  <2>2. /\ InTurn(E_work', Kind("detection", r), Kind("escalation", r))
        /\ InTurn(E_tail', Kind("blocks", r), Kind("escalation", r))
    <3>1. Kind("detection", r) # x
      BY KindIs
    <3> QED BY <1>3, <2>1, <3>1 DEF PipeOf
  <2>3. /\ E_stage'[r] = "none" =>
             ~OwnDue(r)' /\ E_tailer'.item # Kind("blocks", r)
        /\ E_tailer'.st = "settle" /\ E_tailer'.item = Kind("blocks", r)
             => ~OwnDue(r)'
    BY <1>5, <2>1 DEF PipeOf
  <2>4. InWork("escalation", r)' =>
          ~(\/ InDrain("escalation", r)' \/ InTail("escalation", r)'
            \/ InTailer("escalation", r)')
    BY <1>4, <2>1 DEF PipeOf, Behind
  <2> QED BY <1>4, <2>1, <2>2, <2>3, <2>4 DEF PipeOf, Kind, E!Thing
<1> QED BY <1>3, <1>5, <1>6, <1>7 DEF PipeInOrder, Once

\* What the drain takes off _work, and what it does with it.
LEMMA TakePipes ==
  ASSUME PipeTypes, PipeInOrder, E!DrainTakes
  PROVE  /\ PipeTypes' /\ PipeInOrder'
         /\ \A r : (OwnDue(r)' <=> OwnDue(r)) /\ (Behind(r)' <=> Behind(r))
<1> DEFINE x == Head(E_work)
           ks == {"detection", "escalation"}
<1>1. /\ E_drain = E!Idle /\ E_work # <<>> /\ E_work' = Tail(E_work)
      /\ E_drain' = [item |-> x,
                     st |-> IF x.kind = "detection" THEN "run"
                            ELSE IF E_deferring THEN "hand" ELSE "record"]
      /\ UNCHANGED <<E_stage, E_deferring, E_workLeft, E_tail, E_tailer>>
  BY DEF E!DrainTakes, E!incidentVars
<1>2. E_work \in Seq(Things(ks)) /\ Once(E_work)
  BY DEF PipeTypes, PipeInOrder
<1>3. /\ Once(E_work') /\ E_work' \in Seq(Things(ks)) /\ x \in Things(ks)
      /\ Len(E_work') = Len(E_work) - 1 /\ Has(E_work, x)
      /\ \A y : Has(E_work', y) <=> Has(E_work, y) /\ y # x
      /\ \A y, z : InTurn(E_work, y, z) => InTurn(E_work', y, z)
      /\ \A y : InTurn(E_work, y, x) => ~Has(E_work, y)
  BY <1>1, <1>2, HeadLeaves
<1> HIDE DEF x
<1>4. /\ x.kind \in ks /\ x.q \in E!Q /\ x = Kind(x.kind, x.q)
      /\ InWork(x.kind, x.q)
  BY <1>3, ThingIs DEF InWork
<1>5. E_drain'.item = x /\ E_drain'.st # "idle" /\ E_drain.st = "idle"
  BY <1>1 DEF E!Idle
<1>6. \A k, r : /\ InWork(k, r)' <=> InWork(k, r) /\ ~(k = x.kind /\ r = x.q)
                /\ InDrain(k, r)' <=> k = x.kind /\ r = x.q
                /\ ~InDrain(k, r)
                /\ InTail(k, r)' <=> InTail(k, r)
                /\ InTailer(k, r)' <=> InTailer(k, r)
  <2>1. \A k, r : Kind(k, r) = x <=> k = x.kind /\ r = x.q
    BY <1>4, KindIs
  <2>2. \A k, r : Has(E_work', Kind(k, r)) <=> InWork(k, r) /\ Kind(k, r) # x
    BY <1>3 DEF InWork
  <2>3. UNCHANGED <<E_tail, E_tailer>>
    BY <1>1
  <2>4. \A k, r : Kind(k, r)' = Kind(k, r)
    BY DEF Kind, E!Thing
  <2>5. \A k, r : InDrain(k, r)' <=> x = Kind(k, r)
    BY <1>5, <2>4 DEF InDrain
  <2> QED BY <1>5, <2>1, <2>2, <2>3, <2>4, <2>5
          DEF InWork, InDrain, InTail, InTailer, Has
<1>7. x.kind = "escalation" => ~InWork("detection", x.q)
  <2>1. PipeOf(x.q)
    BY <1>4 DEF PipeInOrder
  <2> QED BY <1>3, <1>4, <2>1 DEF PipeOf, InWork
<1>8. \A r : (OwnDue(r)' <=> OwnDue(r)) /\ (Behind(r)' <=> Behind(r))
  BY <1>4, <1>6 DEF OwnDue, Behind
<1>9. PipeTypes'
  <2>1. \A js : Things(js)' = Things(js)
    BY DEF Things, Kind, E!Thing
  <2>2. E_workLeft' = (Len(E_work) + Len(E_tail) + One(Busy(E_drain))
                       + One(Busy(E_tailer)))'
    <3>1. Len(E_work) \in Nat /\ Len(E_tail) \in Nat
      BY <1>2 DEF PipeTypes
    <3>2. /\ E_workLeft = Len(E_work) + Len(E_tail) + One(Busy(E_drain))
                             + One(Busy(E_tailer))
          /\ One(Busy(E_tailer)) \in Nat /\ One(Busy(E_drain)) = 0
      BY <1>2, <1>5 DEF PipeTypes, One, Busy
    <3>3. One(Busy(E_drain))' = 1 /\ One(Busy(E_tailer))' = One(Busy(E_tailer))
      BY <1>1, <1>5 DEF One, Busy
    <3>4. Len(E_tail)' = Len(E_tail) /\ Len(E_work)' = Len(E_work) - 1
      BY <1>1, <1>3
    <3>5. E_workLeft' = E_workLeft
      BY <1>1
    <3> QED BY <3>1, <3>2, <3>3, <3>4, <3>5
  <2>3. \/ E_drain' \in [st : {"run"}, item : Things({"detection"})]
        \/ /\ E_drain' \in [st : {"hand"}, item : Things({"blocks", "escalation"})]
           /\ E_deferring
        \/ E_drain' \in [st : {"record"}, item : Things({"escalation"})] /\ ~E_deferring
    <3>1. CASE x.kind = "detection"
      BY <1>1, <1>4, <3>1 DEF Things
    <3>2. CASE x.kind = "escalation"
      BY <1>1, <1>4, <3>2 DEF Things
    <3> QED BY <1>4, <3>1, <3>2
  <2>4. E!Idle' = E!Idle
    BY DEF E!Idle, E!Nothing, E!Thing, E!Sentinel
  <2> QED BY <1>1, <1>3, <2>1, <2>2, <2>3, <2>4 DEF PipeTypes
<1>10. ASSUME NEW r \in E!Q PROVE PipeOf(r)'
  <2>1. PipeOf(r)
    BY DEF PipeInOrder
  <2>2. /\ InTurn(E_work', Kind("detection", r), Kind("escalation", r))
        /\ InTurn(E_tail', Kind("blocks", r), Kind("escalation", r))
    BY <1>1, <1>3, <2>1 DEF PipeOf
  <2>3. /\ E_stage'[r] = "none" =>
             ~OwnDue(r)' /\ E_tailer'.item # Kind("blocks", r)
        /\ E_tailer'.st = "settle" /\ E_tailer'.item = Kind("blocks", r)
             => ~OwnDue(r)'
    BY <1>1, <1>8, <2>1 DEF PipeOf
  <2>4. CASE r # x.q
    BY <1>6, <2>1, <2>2, <2>3, <2>4 DEF PipeOf, Kind, E!Thing
  <2>5. CASE r = x.q /\ x.kind = "detection"
    BY <1>4, <1>6, <2>1, <2>2, <2>3, <2>5 DEF PipeOf, Kind, E!Thing
  <2>6. CASE r = x.q /\ x.kind = "escalation"
    BY <1>4, <1>6, <1>7, <2>1, <2>2, <2>3, <2>6 DEF PipeOf, Kind, E!Thing
  <2> QED BY <1>4, <2>4, <2>5, <2>6
<1> QED BY <1>1, <1>3, <1>8, <1>9, <1>10 DEF PipeInOrder, Once

\* A detection runs; its last blocks go on to the tail, or there are none.
LEMMA RunPipes ==
  ASSUME PipeTypes, PipeInOrder, E!DrainRuns
  PROVE  /\ PipeTypes' /\ PipeInOrder'
         /\ E_drain.item.q \in E!Q /\ OwnDue(E_drain.item.q)
         /\ \A r : (OwnDue(r)' => OwnDue(r)) /\ (Behind(r)' <=> Behind(r))
         /\ \A q : q = E_drain.item.q /\ E_drain' = E!Idle => ~OwnDue(q)'
<1>0. PICK q : q = E_drain.item.q
  OBVIOUS
<1>1. /\ E_drain.st = "run"
      /\ UNCHANGED <<E_stage, E_deferring, E_work, E_tail, E_tailer>>
  BY DEF E!DrainRuns, E!incidentVars
<1>2. /\ q \in E!Q /\ E_drain.item = Kind("detection", q)
  BY <1>0, <1>1, PipePlaces, ThingIs
<1>3. \/ /\ E_deferring /\ E_workLeft' = E_workLeft
         /\ E_drain' = [st |-> "hand", item |-> Kind("blocks", q)]
      \/ E_drain' = E!Idle /\ E_workLeft' = E_workLeft - 1
  BY <1>0 DEF E!DrainRuns, Kind
<1>4. \A k, r : /\ InWork(k, r)' <=> InWork(k, r)
                /\ InDrain(k, r) <=> k = "detection" /\ r = q
                /\ InTail(k, r)' <=> InTail(k, r)
                /\ InTailer(k, r)' <=> InTailer(k, r)
  <2>1. \A k, r : Kind(k, r) = Kind("detection", q) <=> k = "detection" /\ r = q
    BY KindIs
  <2>2. \A k, r : InDrain(k, r) <=> k = "detection" /\ r = q
    BY <1>1, <1>2, <2>1 DEF InDrain
  <2> QED BY <1>1, <2>2 DEF InWork, InTail, InTailer, Has, Kind, E!Thing
<1>5. PipeOf(q) /\ OwnDue(q)
  BY <1>2, <1>4 DEF PipeInOrder, OwnDue
<1>6. \A js : Things(js)' = Things(js)
  BY DEF Things, Kind, E!Thing
<1>7. E!Idle' = E!Idle /\ E!Idle.st = "idle"
  BY DEF E!Idle, E!Nothing, E!Thing, E!Sentinel
<1>8. E_tail' = E_tail /\ E_work' = E_work /\ Once(E_work') /\ Once(E_tail')
  BY <1>1 DEF PipeInOrder
<1>9. Len(E_work) \in Nat /\ Len(E_tail) \in Nat
  BY DEF PipeTypes
<1>10. CASE /\ E_deferring /\ E_workLeft' = E_workLeft
            /\ E_drain' = [st |-> "hand", item |-> Kind("blocks", q)]
  <2>1. \A k, r : InDrain(k, r)' <=> k = "blocks" /\ r = q
    <3>1. \A k, r : Kind(k, r) = Kind("blocks", q) <=> k = "blocks" /\ r = q
      BY KindIs
    <3>2. \A k, r : Kind(k, r)' = Kind(k, r)
      BY DEF Kind, E!Thing
    <3> QED BY <1>10, <3>1, <3>2 DEF InDrain
  <2>2. \A r : (OwnDue(r)' => OwnDue(r)) /\ (Behind(r)' <=> Behind(r))
    BY <1>4, <1>5, <2>1 DEF OwnDue, Behind
  <2>3. PipeTypes'
    <3>1. E_drain' \in [st : {"hand"}, item : Things({"blocks", "escalation"})]
      BY <1>2, <1>10 DEF Things
    <3>2. Busy(E_drain)' /\ Busy(E_drain)
      BY <1>1, <1>10 DEF Busy
    <3> QED BY <1>1, <1>6, <1>7, <1>10, <3>1, <3>2 DEF PipeTypes, One, Busy
  <2>4. ASSUME NEW r \in E!Q PROVE PipeOf(r)'
    <3>1. PipeOf(r)
      BY DEF PipeInOrder
    <3>2. /\ InTurn(E_work', Kind("detection", r), Kind("escalation", r))
          /\ InTurn(E_tail', Kind("blocks", r), Kind("escalation", r))
      BY <1>1, <3>1 DEF PipeOf
    <3>3. /\ E_stage'[r] = "none" =>
               ~OwnDue(r)' /\ E_tailer'.item # Kind("blocks", r)
          /\ E_tailer'.st = "settle" /\ E_tailer'.item = Kind("blocks", r)
               => ~OwnDue(r)'
      BY <1>1, <2>2, <3>1 DEF PipeOf
    <3>4. CASE r # q
      BY <1>4, <2>1, <3>1, <3>2, <3>3, <3>4 DEF PipeOf, Kind, E!Thing
    <3>5. CASE r = q
      BY <1>4, <2>1, <3>1, <3>2, <3>3, <3>5 DEF PipeOf, Kind, E!Thing
    <3> QED BY <3>4, <3>5
  <2>5. E_drain' # E!Idle
    BY <1>7, <1>10
  <2> QED BY <1>0, <1>2, <1>5, <1>8, <2>2, <2>3, <2>4, <2>5 DEF PipeInOrder, Once
<1>11. CASE E_drain' = E!Idle /\ E_workLeft' = E_workLeft - 1
  <2>1. \A k, r : ~InDrain(k, r)'
    BY <1>7, <1>11 DEF InDrain
  <2>2. \A r : (OwnDue(r)' => OwnDue(r)) /\ (Behind(r)' <=> Behind(r))
    BY <1>4, <2>1 DEF OwnDue, Behind
  <2>3. ~OwnDue(q)'
    BY <1>4, <1>5, <2>1 DEF OwnDue, PipeOf
  <2>4. PipeTypes'
    <3>1. ~Busy(E_drain)' /\ Busy(E_drain)
      BY <1>1, <1>7, <1>11 DEF Busy
    <3>2. /\ E_workLeft = Len(E_work) + Len(E_tail) + One(Busy(E_drain))
                             + One(Busy(E_tailer))
          /\ One(Busy(E_tailer)) \in Nat /\ One(Busy(E_drain)) = 1
      BY <3>1 DEF PipeTypes, One
    <3>3. One(Busy(E_drain))' = 0 /\ One(Busy(E_tailer))' = One(Busy(E_tailer))
      BY <1>1, <3>1 DEF One, Busy
    <3>4. E_workLeft' = (Len(E_work) + Len(E_tail) + One(Busy(E_drain))
                         + One(Busy(E_tailer)))'
      BY <1>1, <1>9, <1>11, <3>2, <3>3
    <3> QED BY <1>1, <1>6, <1>7, <1>11, <3>4 DEF PipeTypes
  <2>5. ASSUME NEW r \in E!Q PROVE PipeOf(r)'
    <3>1. PipeOf(r)
      BY DEF PipeInOrder
    <3>2. /\ InTurn(E_work', Kind("detection", r), Kind("escalation", r))
          /\ InTurn(E_tail', Kind("blocks", r), Kind("escalation", r))
      BY <1>1, <3>1 DEF PipeOf
    <3>3. /\ E_stage'[r] = "none" =>
               ~OwnDue(r)' /\ E_tailer'.item # Kind("blocks", r)
          /\ E_tailer'.st = "settle" /\ E_tailer'.item = Kind("blocks", r)
               => ~OwnDue(r)'
      BY <1>1, <2>2, <3>1 DEF PipeOf
    <3> QED BY <1>4, <2>1, <3>1, <3>2, <3>3 DEF PipeOf, Kind, E!Thing
  <2> QED BY <1>0, <1>2, <1>5, <1>8, <2>2, <2>3, <2>4, <2>5 DEF PipeInOrder, Once
<1> QED BY <1>3, <1>10, <1>11

LEMMA HandPipes ==
  ASSUME PipeTypes, PipeInOrder, E!DrainHands
  PROVE  /\ PipeTypes' /\ PipeInOrder'
         /\ \A r : (OwnDue(r)' <=> OwnDue(r)) /\ (Behind(r)' <=> Behind(r))
<1> DEFINE x == E_drain.item
           ks == {"blocks", "escalation"}
<1>1. /\ E_drain.st = "hand" /\ E_tail' = Append(E_tail, x) /\ E_drain' = E!Idle
      /\ UNCHANGED <<E_stage, E_deferring, E_workLeft, E_work, E_tailer>>
  BY DEF E!DrainHands, E!incidentVars, E!LeftToTheTail
<1>2. x \in Things(ks) /\ E_deferring
  BY <1>1, PipePlaces
<1> HIDE DEF x
<1>3. x.kind \in ks /\ x.q \in E!Q /\ x = Kind(x.kind, x.q)
  BY <1>2, ThingIs
<1>4. \A k, r : Kind(k, r) = x <=> k = x.kind /\ r = x.q
  BY <1>3, KindIs
<1>5. \A k, r : InDrain(k, r) <=> k = x.kind /\ r = x.q
  BY <1>1, <1>4 DEF InDrain, x
<1>6. PipeOf(x.q)
  BY <1>3 DEF PipeInOrder
<1>7. ~Has(E_tail, x)
  <2>1. x.kind = "blocks" \/ x.kind = "escalation"
    BY <1>3
  <2>2. ~InTail(x.kind, x.q)
    BY <1>5, <1>6, <2>1 DEF PipeOf
  <2> QED BY <1>3, <2>2 DEF InTail
<1>8. E_tail \in Seq(Things(ks)) /\ Once(E_tail)
  BY DEF PipeTypes, PipeInOrder
<1>9. /\ Once(E_tail') /\ E_tail' \in Seq(Things(ks))
      /\ Len(E_tail') = Len(E_tail) + 1
      /\ \A y : Has(E_tail', y) <=> Has(E_tail, y) \/ y = x
      /\ \A y, z : InTurn(E_tail, y, z) /\ y # x => InTurn(E_tail', y, z)
      /\ \A z : ~Has(E_tail, z) /\ z # x => InTurn(E_tail', x, z)
  BY <1>1, <1>2, <1>7, <1>8, LastJoins
<1>10. E!Idle' = E!Idle /\ E!Idle.st = "idle"
  BY DEF E!Idle, E!Nothing, E!Thing, E!Sentinel
<1>11. \A k, r : /\ InWork(k, r)' <=> InWork(k, r)
                 /\ ~InDrain(k, r)'
                 /\ InTail(k, r)' <=> InTail(k, r) \/ (k = x.kind /\ r = x.q)
                 /\ InTailer(k, r)' <=> InTailer(k, r)
  <2>1. \A k, r : Has(E_tail', Kind(k, r)) <=> InTail(k, r) \/ Kind(k, r) = x
    BY <1>9 DEF InTail
  <2>2. \A k, r : Kind(k, r)' = Kind(k, r)
    BY DEF Kind, E!Thing
  <2>3. \A k, r : ~InDrain(k, r)'
    BY <1>1, <1>10 DEF InDrain
  <2> QED BY <1>1, <1>4, <2>1, <2>2, <2>3 DEF InWork, InTail, InTailer, Has
<1>12. \A r : (OwnDue(r)' <=> OwnDue(r)) /\ (Behind(r)' <=> Behind(r))
  BY <1>3, <1>5, <1>11 DEF OwnDue, Behind
<1>13. PipeTypes'
  <2>1. \A js : Things(js)' = Things(js)
    BY DEF Things, Kind, E!Thing
  <2>2. ~Busy(E_drain)' /\ Busy(E_drain)
    BY <1>1, <1>10 DEF Busy
  <2>3. Len(E_work) \in Nat /\ Len(E_tail) \in Nat
    BY DEF PipeTypes
  <2>4. E_workLeft' = (Len(E_work) + Len(E_tail) + One(Busy(E_drain))
                       + One(Busy(E_tailer)))'
    <3>1. /\ One(Busy(E_drain)) = 1 /\ One(Busy(E_drain))' = 0
          /\ One(Busy(E_tailer))' = One(Busy(E_tailer))
          /\ One(Busy(E_tailer)) \in Nat
      BY <1>1, <2>2 DEF One, Busy
    <3>2. /\ Len(E_tail') = Len(E_tail) + 1 /\ Len(E_work') = Len(E_work)
          /\ E_workLeft' = E_workLeft
      BY <1>1, <1>9
    <3>3. E_workLeft = Len(E_work) + Len(E_tail) + One(Busy(E_drain))
                       + One(Busy(E_tailer))
      BY DEF PipeTypes
    <3> QED BY <2>3, <3>1, <3>2, <3>3
  <2>5. /\ E_deferring' \in BOOLEAN /\ E_work' \in Seq(Things({"detection", "escalation"}))
        /\ E_tail' \in Seq(Things(ks)) /\ E_drain' = E!Idle' /\ E_deferring'
        /\ \/ E_tailer' = E!Idle'
           \/ E_tailer' \in [st : {"write", "settle"}, item : Things(ks)]
    BY <1>1, <1>2, <1>9, <1>10 DEF PipeTypes
  <2> QED BY <2>1, <2>4, <2>5 DEF PipeTypes
<1>14. ASSUME NEW r \in E!Q PROVE PipeOf(r)'
  <2>1. PipeOf(r)
    BY DEF PipeInOrder
  <2>2. /\ InTurn(E_work', Kind("detection", r), Kind("escalation", r))
        /\ InTurn(E_tail', Kind("blocks", r), Kind("escalation", r))
    <3>1. CASE Kind("blocks", r) # x
      BY <1>1, <1>9, <2>1, <3>1 DEF PipeOf
    <3>2. CASE Kind("blocks", r) = x
      <4>1. ~InTail("escalation", r) /\ Kind("escalation", r) # x
        BY <1>4, <1>5, <2>1, <3>2 DEF PipeOf
      <4> QED BY <1>1, <1>9, <2>1, <3>2, <4>1 DEF PipeOf, InTail
    <3> QED BY <3>1, <3>2
  <2>3. /\ E_stage'[r] = "none" =>
             ~OwnDue(r)' /\ E_tailer'.item # Kind("blocks", r)
        /\ E_tailer'.st = "settle" /\ E_tailer'.item = Kind("blocks", r)
             => ~OwnDue(r)'
    BY <1>1, <1>12, <2>1 DEF PipeOf
  <2>4. CASE r # x.q
    BY <1>11, <2>1, <2>2, <2>3, <2>4 DEF PipeOf, Kind, E!Thing
  <2>5. CASE r = x.q /\ x.kind = "blocks"
    BY <1>5, <1>11, <2>1, <2>2, <2>3, <2>5 DEF PipeOf, Kind, E!Thing
  <2>6. CASE r = x.q /\ x.kind = "escalation"
    BY <1>5, <1>11, <2>1, <2>2, <2>3, <2>6 DEF PipeOf, Kind, E!Thing
  <2> QED BY <1>3, <2>4, <2>5, <2>6
<1> QED BY <1>1, <1>9, <1>12, <1>13, <1>14 DEF PipeInOrder, Once

LEMMA RecordPipes ==
  ASSUME PipeTypes, PipeInOrder, E!DrainRecords
  PROVE  /\ PipeTypes' /\ PipeInOrder'
         /\ E_drain.item.q \in E!Q /\ Behind(E_drain.item.q)
         /\ ~OwnDue(E_drain.item.q)
         /\ \A r : OwnDue(r)' <=> OwnDue(r)
         /\ \A r : Behind(r)' <=> Behind(r) /\ r # E_drain.item.q
<1>0. PICK q : q = E_drain.item.q
  OBVIOUS
<1>1. /\ E_drain.st = "record" /\ E_drain' = E!Idle /\ E_workLeft' = E_workLeft - 1
      /\ UNCHANGED <<E_stage, E_deferring, E_work, E_tail, E_tailer>>
  BY DEF E!DrainRecords, E!incidentVars
<1>2. q \in E!Q /\ E_drain.item = Kind("escalation", q) /\ ~E_deferring
  BY <1>0, <1>1, PipePlaces, ThingIs
<1>3. E!Idle' = E!Idle /\ E!Idle.st = "idle"
  BY DEF E!Idle, E!Nothing, E!Thing, E!Sentinel
<1>4. \A k, r : /\ InWork(k, r)' <=> InWork(k, r)
                /\ InDrain(k, r) <=> k = "escalation" /\ r = q
                /\ ~InDrain(k, r)'
                /\ InTail(k, r)' <=> InTail(k, r)
                /\ InTailer(k, r)' <=> InTailer(k, r)
  <2>1. \A k, r : ~InDrain(k, r)'
    BY <1>1, <1>3 DEF InDrain
  <2>2. \A k, r : Kind(k, r) = Kind("escalation", q) <=> k = "escalation" /\ r = q
    BY KindIs
  <2>3. \A k, r : InDrain(k, r) <=> k = "escalation" /\ r = q
    BY <1>1, <1>2, <2>2 DEF InDrain
  <2> QED BY <1>1, <2>1, <2>3 DEF InWork, InTail, InTailer, Has, Kind, E!Thing
<1>5. \A k, r : ~InTail(k, r) /\ ~InTailer(k, r)
  BY <1>2, <1>3 DEF PipeTypes, InTail, InTailer, Has
<1>6. PipeOf(q) /\ Behind(q)
  BY <1>2, <1>4 DEF PipeInOrder, Behind
<1>7. ~OwnDue(q)
  BY <1>4, <1>5, <1>6 DEF OwnDue, PipeOf
<1>8. \A r : OwnDue(r)' <=> OwnDue(r)
  BY <1>4 DEF OwnDue
<1>9. \A r : Behind(r)' <=> Behind(r) /\ r # q
  <2>1. ~InWork("escalation", q)
    BY <1>4, <1>6 DEF PipeOf
  <2> QED BY <1>4, <1>5, <2>1 DEF Behind
<1>10. PipeTypes'
  <2>1. \A js : Things(js)' = Things(js)
    BY DEF Things, Kind, E!Thing
  <2>2. ~Busy(E_drain)' /\ Busy(E_drain)
    BY <1>1, <1>3 DEF Busy
  <2>3. Len(E_work) \in Nat /\ Len(E_tail) \in Nat
    BY DEF PipeTypes
  <2> QED BY <1>1, <1>3, <2>1, <2>2, <2>3 DEF PipeTypes, One, Busy
<1>11. ASSUME NEW r \in E!Q PROVE PipeOf(r)'
  <2>1. PipeOf(r)
    BY DEF PipeInOrder
  <2>2. /\ InTurn(E_work', Kind("detection", r), Kind("escalation", r))
        /\ InTurn(E_tail', Kind("blocks", r), Kind("escalation", r))
    BY <1>1, <2>1 DEF PipeOf
  <2>3. /\ E_stage'[r] = "none" =>
             ~OwnDue(r)' /\ E_tailer'.item # Kind("blocks", r)
        /\ E_tailer'.st = "settle" /\ E_tailer'.item = Kind("blocks", r)
             => ~OwnDue(r)'
    BY <1>1, <1>8, <2>1 DEF PipeOf
  <2> QED BY <1>4, <2>1, <2>2, <2>3 DEF PipeOf, Kind, E!Thing
<1>12. Once(E_work') /\ Once(E_tail')
  BY <1>1 DEF PipeInOrder
<1> QED BY <1>0, <1>2, <1>6, <1>7, <1>8, <1>9, <1>10, <1>11, <1>12
        DEF PipeInOrder, Once

LEMMA TailTakePipes ==
  ASSUME PipeTypes, PipeInOrder, E!TailTakes
  PROVE  /\ PipeTypes' /\ PipeInOrder'
         /\ \A r : (OwnDue(r)' <=> OwnDue(r)) /\ (Behind(r)' <=> Behind(r))
<1> DEFINE x == Head(E_tail)
           ks == {"blocks", "escalation"}
<1>1. /\ E_tailer = E!Idle /\ E_tail # <<>> /\ E_tail' = Tail(E_tail)
      /\ E_tailer' = [st |-> "write", item |-> x]
      /\ UNCHANGED <<E_stage, E_deferring, E_workLeft, E_work, E_drain>>
  BY DEF E!TailTakes, E!incidentVars
<1>2. E_tail \in Seq(Things(ks)) /\ Once(E_tail)
  BY DEF PipeTypes, PipeInOrder
<1>3. /\ Once(E_tail') /\ E_tail' \in Seq(Things(ks)) /\ x \in Things(ks)
      /\ Len(E_tail') = Len(E_tail) - 1 /\ Has(E_tail, x)
      /\ \A y : Has(E_tail', y) <=> Has(E_tail, y) /\ y # x
      /\ \A y, z : InTurn(E_tail, y, z) => InTurn(E_tail', y, z)
      /\ \A y : InTurn(E_tail, y, x) => ~Has(E_tail, y)
  BY <1>1, <1>2, HeadLeaves
<1> HIDE DEF x
<1>4. /\ x.kind \in ks /\ x.q \in E!Q /\ x = Kind(x.kind, x.q)
      /\ InTail(x.kind, x.q)
  BY <1>3, ThingIs DEF InTail
<1>5. /\ E_tailer'.item = x /\ E_tailer'.st = "write" /\ E_tailer.st = "idle"
      /\ E_deferring
  BY <1>1 DEF E!Idle, PipeTypes
<1>6. \A k, r : /\ InWork(k, r)' <=> InWork(k, r)
                /\ InDrain(k, r)' <=> InDrain(k, r)
                /\ InTail(k, r)' <=> InTail(k, r) /\ ~(k = x.kind /\ r = x.q)
                /\ InTailer(k, r)' <=> k = x.kind /\ r = x.q
                /\ ~InTailer(k, r)
  <2>1. \A k, r : Kind(k, r) = x <=> k = x.kind /\ r = x.q
    BY <1>4, KindIs
  <2>2. \A k, r : Has(E_tail', Kind(k, r)) <=> InTail(k, r) /\ Kind(k, r) # x
    BY <1>3 DEF InTail
  <2>3. UNCHANGED <<E_work, E_drain>>
    BY <1>1
  <2>4. \A k, r : Kind(k, r)' = Kind(k, r)
    BY DEF Kind, E!Thing
  <2>5. \A k, r : InTailer(k, r)' <=> x = Kind(k, r)
    BY <1>5, <2>4 DEF InTailer
  <2> QED BY <1>5, <2>1, <2>2, <2>3, <2>4, <2>5
          DEF InWork, InDrain, InTail, InTailer, Has
<1>7. x.kind = "escalation" => ~InTail("blocks", x.q)
  <2>1. PipeOf(x.q)
    BY <1>4 DEF PipeInOrder
  <2> QED BY <1>3, <1>4, <2>1 DEF PipeOf, InTail
<1>8. \A r : (OwnDue(r)' <=> OwnDue(r)) /\ (Behind(r)' <=> Behind(r))
  BY <1>4, <1>6 DEF OwnDue, Behind
<1>9. PipeTypes'
  <2>1. \A js : Things(js)' = Things(js)
    BY DEF Things, Kind, E!Thing
  <2>2. E_workLeft' = (Len(E_work) + Len(E_tail) + One(Busy(E_drain))
                       + One(Busy(E_tailer)))'
    <3>1. Len(E_work) \in Nat /\ Len(E_tail) \in Nat
      BY <1>2 DEF PipeTypes
    <3>2. /\ One(Busy(E_tailer)) = 0 /\ One(Busy(E_tailer))' = 1
          /\ One(Busy(E_drain))' = One(Busy(E_drain))
          /\ One(Busy(E_drain)) \in Nat
      BY <1>1, <1>5 DEF One, Busy
    <3>3. E_workLeft = Len(E_work) + Len(E_tail) + One(Busy(E_drain))
                       + One(Busy(E_tailer))
      BY DEF PipeTypes
    <3> QED BY <1>1, <1>3, <3>1, <3>2, <3>3
  <2>3. E_tailer' \in [st : {"write", "settle"}, item : Things(ks)]
    BY <1>1, <1>3
  <2>4. E!Idle' = E!Idle
    BY DEF E!Idle, E!Nothing, E!Thing, E!Sentinel
  <2> QED BY <1>1, <1>3, <1>5, <2>1, <2>2, <2>3, <2>4 DEF PipeTypes
<1>10. ASSUME NEW r \in E!Q PROVE PipeOf(r)'
  <2>1. PipeOf(r)
    BY DEF PipeInOrder
  <2>2. /\ InTurn(E_work', Kind("detection", r), Kind("escalation", r))
        /\ InTurn(E_tail', Kind("blocks", r), Kind("escalation", r))
    BY <1>1, <1>3, <2>1 DEF PipeOf
  <2>3. /\ E_stage'[r] = "none" =>
             ~OwnDue(r)' /\ E_tailer'.item # Kind("blocks", r)
        /\ E_tailer'.st # "settle"
    <3>1. E_stage[r] = "none" => ~OwnDue(r) /\ x # Kind("blocks", r)
      BY <1>4, <2>1 DEF PipeOf, OwnDue, InTail
    <3> QED BY <1>1, <1>5, <1>8, <3>1
  <2>4. CASE r # x.q
    BY <1>6, <2>1, <2>2, <2>3, <2>4 DEF PipeOf, Kind, E!Thing
  <2>5. CASE r = x.q /\ x.kind = "blocks"
    BY <1>4, <1>6, <2>1, <2>2, <2>3, <2>5 DEF PipeOf, Kind, E!Thing
  <2>6. CASE r = x.q /\ x.kind = "escalation"
    BY <1>4, <1>6, <1>7, <2>1, <2>2, <2>3, <2>6 DEF PipeOf, Kind, E!Thing
  <2> QED BY <1>4, <2>4, <2>5, <2>6
<1> QED BY <1>1, <1>3, <1>8, <1>9, <1>10 DEF PipeInOrder, Once

\* What the tail thread writes is no longer due.
LEMMA TailWritePipes ==
  ASSUME PipeTypes, PipeInOrder, E!TailWrites
  PROVE  /\ PipeTypes' /\ PipeInOrder'
         /\ E_tailer.item.q \in E!Q
         /\ E_tailer.item.kind \in {"blocks", "escalation"}
         /\ E_tailer.item.kind = "blocks" =>
              /\ OwnDue(E_tailer.item.q)
              /\ \A r : OwnDue(r)' <=> OwnDue(r) /\ r # E_tailer.item.q
              /\ \A r : Behind(r)' <=> Behind(r)
         /\ E_tailer.item.kind = "escalation" =>
              /\ Behind(E_tailer.item.q) /\ ~OwnDue(E_tailer.item.q)
              /\ \A r : OwnDue(r)' <=> OwnDue(r)
              /\ \A r : Behind(r)' <=> Behind(r) /\ r # E_tailer.item.q
<1> DEFINE ks == {"blocks", "escalation"}
<1>1. /\ E_tailer.st = "write" /\ E_tailer' = [E_tailer EXCEPT !.st = "settle"]
      /\ UNCHANGED <<E_stage, E_deferring, E_workLeft, E_work, E_drain, E_tail>>
  BY DEF E!TailWrites, E!incidentVars
<1>2. PICK x : x = E_tailer.item
  OBVIOUS
<1>3. x \in Things(ks) /\ E_deferring
  BY <1>1, <1>2, PipePlaces
<1>4. x.kind \in ks /\ x.q \in E!Q /\ x = Kind(x.kind, x.q)
  BY <1>3, ThingIs
<1>5. E_tailer' = [st |-> "settle", item |-> x]
  <2>1. E_tailer \in [st : {"write", "settle"}, item : Things(ks)]
    BY <1>1 DEF PipeTypes, E!Idle
  <2> QED BY <1>1, <1>2, <2>1
<1>6. \A k, r : /\ InWork(k, r)' <=> InWork(k, r)
                /\ InDrain(k, r)' <=> InDrain(k, r)
                /\ InTail(k, r)' <=> InTail(k, r)
                /\ InTailer(k, r) <=> k = x.kind /\ r = x.q
                /\ ~InTailer(k, r)'
  <2>1. \A k, r : Kind(k, r) = x <=> k = x.kind /\ r = x.q
    BY <1>4, KindIs
  <2>2. \A k, r : InTailer(k, r) <=> k = x.kind /\ r = x.q
    BY <1>1, <1>2, <2>1 DEF InTailer
  <2>3. \A k, r : ~InTailer(k, r)'
    BY <1>5 DEF InTailer
  <2> QED BY <1>1, <2>2, <2>3 DEF InWork, InDrain, InTail, Has, Kind, E!Thing
<1>7. PipeOf(x.q)
  BY <1>4 DEF PipeInOrder
<1>8. ASSUME x.kind = "blocks"
      PROVE  /\ OwnDue(x.q) /\ \A r : OwnDue(r)' <=> OwnDue(r) /\ r # x.q
             /\ \A r : Behind(r)' <=> Behind(r)
  BY <1>6, <1>7, <1>8 DEF OwnDue, Behind, PipeOf
<1>9. ASSUME x.kind = "escalation"
      PROVE  /\ Behind(x.q) /\ ~OwnDue(x.q) /\ \A r : OwnDue(r)' <=> OwnDue(r)
             /\ \A r : Behind(r)' <=> Behind(r) /\ r # x.q
  BY <1>6, <1>7, <1>9 DEF OwnDue, Behind, PipeOf
<1>10. PipeTypes'
  <2>1. \A js : Things(js)' = Things(js)
    BY DEF Things, Kind, E!Thing
  <2>2. E_workLeft' = (Len(E_work) + Len(E_tail) + One(Busy(E_drain))
                       + One(Busy(E_tailer)))'
    <3>1. /\ One(Busy(E_tailer))' = One(Busy(E_tailer))
          /\ One(Busy(E_drain))' = One(Busy(E_drain))
      BY <1>1, <1>5 DEF One, Busy
    <3>2. E_workLeft = Len(E_work) + Len(E_tail) + One(Busy(E_drain))
                       + One(Busy(E_tailer))
      BY DEF PipeTypes
    <3> QED BY <1>1, <3>1, <3>2
  <2>3. E_tailer' \in [st : {"write", "settle"}, item : Things(ks)]
    BY <1>3, <1>5
  <2>4. E!Idle' = E!Idle
    BY DEF E!Idle, E!Nothing, E!Thing, E!Sentinel
  <2> QED BY <1>1, <1>3, <2>1, <2>2, <2>3, <2>4 DEF PipeTypes
<1>11. ASSUME NEW r \in E!Q PROVE PipeOf(r)'
  <2>1. PipeOf(r)
    BY DEF PipeInOrder
  <2>2. /\ InTurn(E_work', Kind("detection", r), Kind("escalation", r))
        /\ InTurn(E_tail', Kind("blocks", r), Kind("escalation", r))
    BY <1>1, <2>1 DEF PipeOf
  <2>3. E_stage'[r] = "none" => ~OwnDue(r)' /\ E_tailer'.item # Kind("blocks", r)
    BY <1>1, <1>2, <1>4, <1>5, <1>8, <1>9, <2>1 DEF PipeOf
  <2>4. E_tailer'.item = Kind("blocks", r) => ~OwnDue(r)'
    BY <1>4, <1>5, <1>8, KindIs
  <2> QED BY <1>6, <2>1, <2>2, <2>3, <2>4 DEF PipeOf, Kind, E!Thing
<1>12. Once(E_work') /\ Once(E_tail')
  BY <1>1 DEF PipeInOrder
<1> QED BY <1>2, <1>4, <1>8, <1>9, <1>10, <1>11, <1>12 DEF PipeInOrder, Once

LEMMA TailSettlePipes ==
  ASSUME PipeTypes, PipeInOrder, E!TailSettles
  PROVE  /\ PipeTypes' /\ PipeInOrder' /\ E_tailer.item.q \in E!Q
         /\ E_tailer.item.kind = "blocks" => ~OwnDue(E_tailer.item.q)
         /\ \A r : (OwnDue(r)' <=> OwnDue(r)) /\ (Behind(r)' <=> Behind(r))
<1>1. /\ E_tailer.st = "settle" /\ E_tailer' = E!Idle /\ E_workLeft' = E_workLeft - 1
      /\ UNCHANGED <<E_stage, E_deferring, E_work, E_drain, E_tail>>
  BY DEF E!TailSettles, E!incidentVars
<1>2. PICK x : x = E_tailer.item
  OBVIOUS
<1>3. x \in Things({"blocks", "escalation"}) /\ E_deferring
  BY <1>1, <1>2, PipePlaces
<1>4. x.q \in E!Q /\ x = Kind(x.kind, x.q)
  BY <1>3, ThingIs
<1>5. E!Idle' = E!Idle /\ E!Idle.st = "idle" /\ E!Idle.item = Kind("stop", 0)
  BY DEF E!Idle, E!Nothing, E!Thing, E!Sentinel, Kind
<1>6. \A k, r : /\ InWork(k, r)' <=> InWork(k, r)
                /\ InDrain(k, r)' <=> InDrain(k, r)
                /\ InTail(k, r)' <=> InTail(k, r)
                /\ ~InTailer(k, r) /\ ~InTailer(k, r)'
  <2>1. \A k, r : ~InTailer(k, r) /\ ~InTailer(k, r)'
    BY <1>1, <1>5 DEF InTailer
  <2> QED BY <1>1, <2>1 DEF InWork, InDrain, InTail, Has, Kind, E!Thing
<1>7. \A r : (OwnDue(r)' <=> OwnDue(r)) /\ (Behind(r)' <=> Behind(r))
  BY <1>6 DEF OwnDue, Behind
<1>8. x.kind = "blocks" => ~OwnDue(x.q)
  BY <1>1, <1>2, <1>4 DEF PipeInOrder, PipeOf
<1>9. PipeTypes'
  <2>1. \A js : Things(js)' = Things(js)
    BY DEF Things, Kind, E!Thing
  <2>2. E_workLeft' = (Len(E_work) + Len(E_tail) + One(Busy(E_drain))
                       + One(Busy(E_tailer)))'
    <3>1. Len(E_work) \in Nat /\ Len(E_tail) \in Nat
      BY DEF PipeTypes
    <3>2. /\ One(Busy(E_tailer)) = 1 /\ One(Busy(E_tailer))' = 0
          /\ One(Busy(E_drain))' = One(Busy(E_drain))
          /\ One(Busy(E_drain)) \in Nat
      BY <1>1, <1>5 DEF One, Busy
    <3>3. E_workLeft = Len(E_work) + Len(E_tail) + One(Busy(E_drain))
                       + One(Busy(E_tailer))
      BY DEF PipeTypes
    <3> QED BY <1>1, <3>1, <3>2, <3>3
  <2> QED BY <1>1, <1>3, <1>5, <2>1, <2>2 DEF PipeTypes
<1>10. ASSUME NEW r \in E!Q PROVE PipeOf(r)'
  <2>1. PipeOf(r)
    BY DEF PipeInOrder
  <2>2. /\ InTurn(E_work', Kind("detection", r), Kind("escalation", r))
        /\ InTurn(E_tail', Kind("blocks", r), Kind("escalation", r))
    BY <1>1, <2>1 DEF PipeOf
  <2>3. E_tailer'.item # Kind("blocks", r)
    BY <1>1, <1>5, KindIs
  <2>4. E_stage'[r] = "none" => ~OwnDue(r)'
    BY <1>1, <1>7, <2>1 DEF PipeOf
  <2> QED BY <1>6, <2>1, <2>2, <2>3, <2>4 DEF PipeOf, Kind, E!Thing
<1>11. Once(E_work') /\ Once(E_tail')
  BY <1>1 DEF PipeInOrder
<1> QED BY <1>2, <1>4, <1>7, <1>8, <1>9, <1>10, <1>11 DEF PipeInOrder, Once

-------------------------------------------------------------------------------
(* The escalator's places.                                                 *)

\* No question that closed goes back to the inbox, or changes its process.
MovesOn ==
  \A r \in E!Q :
    /\ Has(E_closings, r) => Has(E_closings', r) /\ E_pid'[r] = E_pid[r]
    /\ Has(E_closings', r) => Has(E_closings, r) \/ Has(E_inbox', r)
    /\ Has(E_closings, r) /\ Has(E_inbox', r) => Has(E_inbox, r)
    /\ Has(E_acted, r) => Has(E_acted', r)

LEMMA PassedStays ==
  ASSUME MovesOn, NEW q \in E!Q, Passed(q)
  PROVE  Passed(q)'
<1>1. /\ Has(E_closings', q) /\ ~Has(E_inbox', q) /\ E_pid'[q] = E_pid[q]
      /\ E_pid[q] \in E_Pid => Has(E_acted', q)
  BY DEF MovesOn, Passed
<1> QED BY <1>1 DEF Passed

\* What an action leaves where it was.
SamePlace(q) ==
  /\ \A w \in E_Worker : AtWorker(w, q)' <=> AtWorker(w, q)
  /\ InOwed(q)' <=> InOwed(q)
  /\ AtWriter(q)' <=> AtWriter(q)
  /\ E_settled'[q] = E_settled[q]

LEMMA PlaceStays ==
  ASSUME NEW q \in E!Q, PlaceOf(q), MovesOn, SamePlace(q),
         Has(E_inbox, q) => Has(E_inbox', q) \/ InLane(q)',
         InLane(q) => InLane(q)' \/ Held(q)
  PROVE  PlaceOf(q)'
<1>1. /\ \A v, w \in E_Worker : AtWorker(v, q)' /\ AtWorker(w, q)' => v = w
      /\ \A w \in E_Worker : AtWorker(w, q)' => ~InOwed(q)' /\ ~AtWriter(q)'
      /\ ~(InOwed(q)' /\ AtWriter(q)')
  BY DEF PlaceOf, SamePlace
<1>2. Held(q)' <=> Held(q)
  BY DEF SamePlace, Held
<1>3. /\ Held(q)' => Passed(q)' /\ E_settled'[q] = 0
      /\ E_settled'[q] = 1 => Passed(q)'
  BY <1>2, PassedStays DEF PlaceOf, SamePlace
<1>4. Has(E_closings', q) =>
        E_settled'[q] = 1 \/ Has(E_inbox', q) \/ InLane(q)' \/ Held(q)'
  BY <1>2 DEF PlaceOf, SamePlace, MovesOn
<1> QED BY <1>1, <1>3, <1>4 DEF PlaceOf

OwedIsAsItWas ==
  UNCHANGED <<E_closings, E_pid, E_acted, E_inbox, E_lanes, E_worker, E_owed,
              E_writer, E_settled, E_intake>>

LEMMA OwedStays ==
  ASSUME OwedInv, OwedIsAsItWas
  PROVE  OwedInv'
<1>1. OwedTypes' /\ OwedOnce' /\ SentinelIsLast'
  BY DEF OwedInv, OwedIsAsItWas, OwedTypes, OwedOnce, SentinelIsLast, Things, Kind,
         E!Thing, E!Up, E!Gone, E!Nothing
<1>2. ASSUME NEW q \in E!Q PROVE PlaceOf(q)'
  <2>1. MovesOn /\ SamePlace(q) /\ (InLane(q)' <=> InLane(q))
    BY DEF OwedIsAsItWas, MovesOn, SamePlace, AtWorker, InOwed, AtWriter, InLane, Has
  <2> QED BY <2>1, PlaceStays DEF OwedInv, OwedIsAsItWas
<1> QED BY <1>1, <1>2 DEF OwedInv

\* The line never has a question twice.
LEMMA NeverLaterThanItself ==
  ASSUME EscalatorInv, NEW x PROVE ~Later(E_closings, x, x)
<1>1. /\ \A m, n \in DOMAIN E_closings : E_closings[m] = E_closings[n] => m = n
      /\ E_closings \in Seq(E!Q)
  BY DEF EscalatorInv, Line, LineTypes, Members
<1> SUFFICES ASSUME NEW a \in DOMAIN E_closings, NEW b \in DOMAIN E_closings,
                    a < b, E_closings[a] = x, E_closings[b] = x
             PROVE  FALSE
  BY DEF Later
<1>2. a = b
  BY <1>1
<1> QED BY <1>1, <1>2

LEMMA StopAskedOwes ==
  ASSUME EscalatorInv, OwedInv, E!StopAsked
  PROVE  OwedInv'
<1>1. /\ E_inbox' = Append(E_inbox, 0)
      /\ UNCHANGED <<E_closings, E_pid, E_acted, E_lanes, E_worker, E_owed, E_writer,
                     E_settled, E_intake>>
  BY DEF E!StopAsked, E!Sentinel, E!incidentVars, E!laneVars, E!askVars, E!doneVars
<1>2. \A q \in E!Q : Has(E_inbox', q) <=> Has(E_inbox, q)
  <2>1. E_inbox \in Seq(E!Q \cup {0})
    BY DEF EscalatorInv, Line, LineTypes
  <2>2. \A x : Has(E_inbox', x) <=> Has(E_inbox, x) \/ x = 0
    BY <1>1, <2>1, AppendHas
  <2> QED BY <2>2, EscalationHolds
<1>3. OwedTypes' /\ OwedOnce' /\ SentinelIsLast'
  BY <1>1 DEF OwedInv, OwedTypes, OwedOnce, SentinelIsLast, Things, Kind,
              E!Thing, E!Up, E!Gone, E!Nothing
<1>4. ASSUME NEW q \in E!Q PROVE PlaceOf(q)'
  <2>1. MovesOn /\ SamePlace(q) /\ (InLane(q)' <=> InLane(q))
    BY <1>1, <1>2
    DEF MovesOn, SamePlace, AtWorker, InOwed, AtWriter, InLane, Has
  <2> QED BY <1>2, <2>1, PlaceStays DEF OwedInv
<1> QED BY <1>3, <1>4 DEF OwedInv

LEMMA CloseOwes ==
  ASSUME EscalatorInv, OwedInv, NEW q \in E!Q, NEW p \in E_Pid \cup {E_NoPid},
         E!Close(q, p)
  PROVE  OwedInv'
<1>1. /\ E_stage[q] = "open" /\ E_pid' = [E_pid EXCEPT ![q] = p]
      /\ E_closings' = Append(E_closings, q) /\ E_inbox' = Append(E_inbox, q)
      /\ E_acted' = E_acted /\ E_settled' = E_settled
  BY DEF E!Close, E!doneVars
<1>2. /\ E_closings \in Seq(E!Q) /\ E_inbox \in Seq(E!Q \cup {0})
      /\ E_pid \in [E!Q -> E_Pid \cup {E_NoPid}] /\ ~Has(E_closings, q)
      /\ E_lanes \in [E_Pid -> Seq(E!Q)]
  BY <1>1 DEF EscalatorInv, Line, LineTypes, ClosedAre
<1>3. E_lanes' = E_lanes
  BY GoneLeavesNothing DEF E!Close, E!laneVars
<1>4. \A r : /\ Has(E_closings', r) <=> Has(E_closings, r) \/ r = q
             /\ Has(E_inbox', r) <=> Has(E_inbox, r) \/ r = q
  <2>1. \A r : Has(E_closings', r) <=> Has(E_closings, r) \/ r = q
    BY <1>1, <1>2, AppendHas
  <2>2. q \in E!Q \cup {0}
    OBVIOUS
  <2>3. \A r : Has(E_inbox', r) <=> Has(E_inbox, r) \/ r = q
    BY <1>1, <1>2, <2>2, AppendHas
  <2> QED BY <2>1, <2>3
<1>5. \A r \in E!Q : InLane(r) => Has(E_closings, r)
  BY DEF InLane, EscalatorInv, Line, Members, Has
<1>6. \A r \in E!Q : r # q => E_pid'[r] = E_pid[r]
  BY <1>1, <1>2
<1>7. MovesOn
  BY <1>1, <1>2, <1>4, <1>6 DEF MovesOn
<1>8. \A r \in E!Q : InLane(r) => InLane(r)'
  BY <1>2, <1>3, <1>5, <1>6 DEF InLane
<1>9. /\ OwedTypes' /\ OwedOnce' /\ SentinelIsLast'
      /\ \A r \in E!Q : SamePlace(r)
  <2>1. CASE E_intake # "gone"
    <3>1. UNCHANGED <<E_intake, E_worker, E_writer, E_owed>>
      BY <2>1 DEF E!Close
    <3>2. OwedTypes' /\ OwedOnce' /\ SentinelIsLast'
      BY <1>1, <3>1
      DEF OwedInv, OwedTypes, OwedOnce, SentinelIsLast, Things, Kind,
          E!Thing, E!Up, E!Gone, E!Nothing
    <3>3. \A r \in E!Q : SamePlace(r)
      BY <1>1, <3>1 DEF SamePlace, AtWorker, InOwed, AtWriter
    <3> QED BY <3>2, <3>3
  <2>2. CASE E_intake = "gone"
    <3>1. /\ E_writer = E!Gone /\ E_owed = <<>>
          /\ \A w \in E_Worker : E_worker[w] = E!Gone
      BY <2>2, GoneLeavesNothing DEF OwedInv, SentinelIsLast
    <3>2. /\ E_intake' = "up" /\ E_writer' = E!Up /\ E_owed' = <<>>
          /\ E_worker' = [w \in E_Worker |-> E!Up]
      BY <2>2 DEF E!Close
    <3>3. /\ E!Up.st = "up" /\ E!Gone.st = "gone" /\ E!Up # E!Gone
          /\ E_owed' \in Seq(Things({"record", "escalate"}) \cup {E!Nothing})
          /\ DOMAIN E_owed' = {}
      BY <3>2 DEF E!Up, E!Gone
    <3>4. OwedTypes'
      BY <1>1, <3>2, <3>3 DEF OwedInv, OwedTypes, Things, Kind,
          E!Thing, E!Up, E!Gone, E!Nothing
    <3>5. OwedOnce' /\ SentinelIsLast'
      BY <3>2, <3>3 DEF OwedOnce, SentinelIsLast, E!Up, E!Gone
    <3>6. \A r \in E!Q : SamePlace(r)
      BY <1>1, <3>1, <3>2, <3>3 DEF SamePlace, AtWorker, InOwed, AtWriter
    <3> QED BY <3>4, <3>5, <3>6
  <2> QED BY <2>1, <2>2
<1>10. \A r \in E!Q : PlaceOf(r)'
  BY <1>4, <1>7, <1>8, <1>9, PlaceStays DEF OwedInv
<1> QED BY <1>9, <1>10 DEF OwedInv

\* Something joins what is owed.
LEMMA OwedGrows ==
  ASSUME OwedTypes, OwedOnce, E_settled' = E_settled,
         NEW x \in Things({"record", "escalate"}) \cup {E!Nothing},
         ~InOwed(x.q), E_owed' = Append(E_owed, x)
  PROVE  /\ E_owed' \in Seq(Things({"record", "escalate"}) \cup {E!Nothing})
         /\ OwedOnce'
         /\ \A r : InOwed(r)' <=> InOwed(r) \/ r = x.q
         /\ \A i \in DOMAIN E_owed' :
              \/ i \in DOMAIN E_owed /\ E_owed'[i] = E_owed[i]
              \/ i = Len(E_owed') /\ E_owed'[i] = x
<1> DEFINE S == Things({"record", "escalate"}) \cup {E!Nothing}
<1>1. E_owed \in Seq(S)
  BY DEF OwedTypes
<1> HIDE DEF S
<1>2. /\ E_owed' \in Seq(S) /\ Len(E_owed) \in Nat
      /\ Len(E_owed') = Len(E_owed) + 1
      /\ DOMAIN E_owed' = 1 .. Len(E_owed) + 1
      /\ Len(E_owed) + 1 \in DOMAIN E_owed'
      /\ \A i \in DOMAIN E_owed : /\ i \in DOMAIN E_owed' /\ i < Len(E_owed) + 1
                                  /\ E_owed'[i] = E_owed[i]
      /\ \A i \in DOMAIN E_owed' : i = Len(E_owed) + 1 \/ i \in DOMAIN E_owed
      /\ E_owed'[Len(E_owed) + 1] = x
  BY <1>1, AppendIs DEF S
<1>3. OwedOnce'
  BY <1>2 DEF OwedOnce, InOwed
<1>4. \A r : InOwed(r)' <=> InOwed(r) \/ r = x.q
  BY <1>2 DEF InOwed
<1> QED BY <1>2, <1>3, <1>4 DEF S

LEMMA IntakeOwes ==
  ASSUME EscalatorInv, OwedInv,
         E!SeesSentinel \/ E!ClosesLanes \/ E!StopsWriter \/ E!IntakeEnds
  PROVE  OwedInv'
<1>1. UNCHANGED <<E_closings, E_pid, E_acted, E_lanes, E_worker, E_writer, E_settled>>
  BY DEF E!SeesSentinel, E!ClosesLanes, E!StopsWriter, E!IntakeEnds,
         E!incidentVars, E!laneVars, E!askVars, E!doneVars
<1>2. \A r \in E!Q : Has(E_inbox', r) <=> Has(E_inbox, r)
  <2>1. E_inbox \in Seq(E!Q \cup {0})
    BY DEF EscalatorInv, Line, LineTypes
  <2>2. CASE E_inbox # <<>> /\ Head(E_inbox) = 0 /\ E_inbox' = Tail(E_inbox)
    BY <2>1, <2>2, TailHas, EscalationHolds
  <2> QED BY <2>2 DEF E!SeesSentinel, E!ClosesLanes, E!StopsWriter, E!IntakeEnds,
                      E!Sentinel
<1>3. /\ OwedTypes' /\ OwedOnce' /\ SentinelIsLast'
      /\ \A r \in E!Q : InOwed(r)' <=> InOwed(r)
  <2>1. CASE E_owed' = E_owed /\ ~E!StopsWriter
    <3>1. \/ E_intake = "up" /\ E_intake' = "draining"
          \/ E_intake = "draining" /\ E_intake' = "joining"
          \/ E_intake = "last" /\ E_intake' = "gone" /\ E_writer = E!Gone
      BY <2>1 DEF E!SeesSentinel, E!ClosesLanes, E!IntakeEnds
    <3>2. SentinelIsLast'
      BY <1>1, <2>1, <3>1 DEF OwedInv, SentinelIsLast, E!Gone, E!Nothing
    <3>3. OwedTypes' /\ OwedOnce' /\ \A r \in E!Q : InOwed(r)' <=> InOwed(r)
      BY <1>1, <2>1
      DEF OwedInv, OwedTypes, OwedOnce, InOwed, Things, Kind, E!Thing, E!Up, E!Gone,
          E!Nothing
    <3> QED BY <3>2, <3>3
  <2>2. CASE E!StopsWriter
    <3>1. /\ E_intake = "joining" /\ E_intake' = "last"
          /\ E_owed' = Append(E_owed, E!Nothing)
      BY <2>2 DEF E!StopsWriter
    <3>2. /\ \A i \in DOMAIN E_owed : E_owed[i] # E!Nothing
          /\ E_writer # E!Gone
      BY <3>1 DEF OwedInv, SentinelIsLast
    <3>3. \A i \in DOMAIN E_owed : E_owed[i].q # 0
      <4>1. \A i \in DOMAIN E_owed : E_owed[i] \in Things({"record", "escalate"})
        BY <3>2 DEF OwedInv, OwedTypes
      <4> QED BY <4>1, ThingIs
    <3>4. ~InOwed(E!Nothing.q) /\ E!Nothing.q = 0
      BY <3>3, KindIs DEF InOwed
    <3>5. /\ E_owed' \in Seq(Things({"record", "escalate"}) \cup {E!Nothing})
          /\ OwedOnce'
          /\ \A r : InOwed(r)' <=> InOwed(r) \/ r = E!Nothing.q
          /\ \A i \in DOMAIN E_owed' :
               \/ i \in DOMAIN E_owed /\ E_owed'[i] = E_owed[i]
               \/ i = Len(E_owed') /\ E_owed'[i] = E!Nothing
      BY <1>1, <3>1, <3>4, OwedGrows DEF OwedInv
    <3>6. OwedTypes'
      BY <1>1, <3>5 DEF OwedInv, OwedTypes, Things, Kind, E!Thing, E!Up, E!Gone,
                        E!Nothing
    <3>7. SentinelIsLast'
      BY <1>1, <3>1, <3>2, <3>5 DEF SentinelIsLast, E!Nothing, E!Gone
    <3>8. \A r \in E!Q : InOwed(r)' <=> InOwed(r)
      BY <3>4, <3>5, EscalationHolds
    <3> QED BY <3>5, <3>6, <3>7, <3>8
  <2>3. E!SeesSentinel \/ E!ClosesLanes \/ E!IntakeEnds => E_owed' = E_owed
                                                       /\ ~E!StopsWriter
    BY DEF E!SeesSentinel, E!ClosesLanes, E!IntakeEnds, E!StopsWriter
  <2> QED BY <2>1, <2>2, <2>3
<1>4. MovesOn /\ \A r \in E!Q : SamePlace(r) /\ (InLane(r)' <=> InLane(r))
  <2>1. MovesOn
    BY <1>1, <1>2 DEF MovesOn
  <2>2. \A r \in E!Q : SamePlace(r)
    BY <1>1, <1>3 DEF SamePlace, AtWorker, AtWriter
  <2>3. \A r \in E!Q : InLane(r)' <=> InLane(r)
    BY <1>1 DEF InLane
  <2> QED BY <2>1, <2>2, <2>3
<1>5. \A r \in E!Q : PlaceOf(r)'
  BY <1>2, <1>4, PlaceStays DEF OwedInv
<1> QED BY <1>3, <1>5 DEF OwedInv

LEMMA RouteOwes ==
  ASSUME EscalatorInv, OwedInv, E!Route
  PROVE  OwedInv'
<1>0. PICK q : q = Head(E_inbox)
  OBVIOUS
<1>1. /\ E_intake \in {"up", "draining"} /\ E_inbox # <<>> /\ q # 0
      /\ E_inbox' = Tail(E_inbox)
      /\ UNCHANGED <<E_closings, E_pid, E_acted, E_worker, E_writer, E_settled,
                     E_intake>>
  BY <1>0 DEF E!Route, E!Sentinel, E!incidentVars, E!askVars, E!doneVars
<1>2. /\ E_inbox \in Seq(E!Q \cup {0}) /\ E_lanes \in [E_Pid -> Seq(E!Q)]
      /\ E_pid \in [E!Q -> E_Pid \cup {E_NoPid}]
  BY DEF EscalatorInv, Line, LineTypes
<1>3. /\ q \in E!Q /\ Has(E_inbox, q) /\ Has(E_closings, q)
      /\ 1 \in DOMAIN E_inbox /\ q = E_inbox[1]
      /\ \A i \in DOMAIN E_inbox' : /\ i + 1 \in DOMAIN E_inbox /\ 1 < i + 1
                                    /\ E_inbox'[i] = E_inbox[i + 1]
  <2>1. /\ 1 \in DOMAIN E_inbox /\ q = E_inbox[1] /\ q \in E!Q \cup {0}
        /\ \A i \in DOMAIN E_inbox' : /\ i + 1 \in DOMAIN E_inbox /\ 1 < i + 1
                                      /\ E_inbox'[i] = E_inbox[i + 1]
    BY <1>0, <1>1, <1>2, TailIs
  <2>2. Has(E_closings, q)
    BY <1>1, <2>1 DEF EscalatorInv, Line, Members
  <2> QED BY <1>1, <2>1, <2>2 DEF Has
<1>4. ~Has(E_inbox', q)
  <2> SUFFICES ASSUME NEW i \in DOMAIN E_inbox', E_inbox'[i] = q PROVE FALSE
    BY DEF Has
  <2>1. Later(E_closings, q, q)
    BY <1>1, <1>3 DEF EscalatorInv, Line, BoxInOrder
  <2> QED BY <2>1, NeverLaterThanItself
<1>5. \A r : Has(E_inbox', r) <=> Has(E_inbox, r) /\ r # q
  BY <1>0, <1>1, <1>2, <1>4, TailHas
<1>6. MovesOn
  BY <1>1, <1>5 DEF MovesOn
<1>7. ~Held(q) /\ E_settled[q] # 1
  BY <1>3 DEF OwedInv, PlaceOf, Passed
<1>8. CASE E_pid[q] # E_NoPid
  <2>1. PICK p : p = E_pid[q]
    OBVIOUS
  <2>2. p \in E_Pid /\ E_lanes' = [E_lanes EXCEPT ![p] = Append(@, q)]
        /\ E_owed' = E_owed
    BY <1>0, <1>2, <1>3, <1>8, <2>1 DEF E!Route, E!PutLane
  <2>3. /\ E_lanes'[p] = Append(E_lanes[p], q) /\ E_lanes[p] \in Seq(E!Q)
        /\ \A x \in E_Pid : x # p => E_lanes'[x] = E_lanes[x]
    BY <1>2, <2>2
  <2>4. /\ Has(E_lanes'[p], q)
        /\ \A r : Has(E_lanes[p], r) => Has(E_lanes'[p], r)
    BY <1>3, <2>3, AppendHas
  <2>5. \A x \in E_Pid : \A r : Has(E_lanes[x], r) => Has(E_lanes'[x], r)
    BY <2>3, <2>4
  <2>6. InLane(q)' /\ \A r \in E!Q : InLane(r) => InLane(r)'
    BY <1>1, <2>1, <2>2, <2>4, <2>5 DEF InLane
  <2>7. OwedTypes' /\ OwedOnce' /\ SentinelIsLast'
    BY <1>1, <2>2
    DEF OwedInv, OwedTypes, OwedOnce, SentinelIsLast, Things, Kind,
        E!Thing, E!Up, E!Gone, E!Nothing
  <2>8. \A r \in E!Q : SamePlace(r)
    BY <1>1, <2>2 DEF SamePlace, AtWorker, InOwed, AtWriter
  <2>9. \A r \in E!Q : PlaceOf(r)'
    BY <1>5, <1>6, <2>6, <2>8, PlaceStays DEF OwedInv
  <2> QED BY <2>7, <2>9 DEF OwedInv
<1>9. CASE E_pid[q] = E_NoPid
  <2>1. PICK x : x = Kind("escalate", q)
    OBVIOUS
  <2>2. E_owed' = Append(E_owed, x) /\ E_lanes' = E_lanes
    BY <1>0, <1>9, <2>1 DEF E!Route, E!laneVars, Kind
  <2>3. x \in Things({"record", "escalate"}) /\ x.q = q /\ x # E!Nothing
    <3>1. x \in Things({"record", "escalate"})
      BY <1>3, <2>1 DEF Things
    <3> QED BY <2>1, <3>1, KindIs, ThingIs
  <2>4. ~InOwed(x.q)
    BY <1>7, <2>3 DEF Held
  <2>5. /\ E_owed' \in Seq(Things({"record", "escalate"}) \cup {E!Nothing})
        /\ OwedOnce'
        /\ \A r : InOwed(r)' <=> InOwed(r) \/ r = x.q
        /\ \A i \in DOMAIN E_owed' :
             \/ i \in DOMAIN E_owed /\ E_owed'[i] = E_owed[i]
             \/ i = Len(E_owed') /\ E_owed'[i] = x
    BY <1>1, <2>2, <2>3, <2>4, OwedGrows DEF OwedInv
  <2>6. OwedTypes'
    BY <1>1, <2>5 DEF OwedInv, OwedTypes, Things, Kind, E!Thing, E!Up, E!Gone,
                      E!Nothing
  <2>7. SentinelIsLast'
    <3>1. /\ E_intake \notin {"last", "gone"} /\ E_writer # E!Gone
          /\ \A i \in DOMAIN E_owed : E_owed[i] # E!Nothing
      BY <1>1 DEF OwedInv, SentinelIsLast
    <3> QED BY <1>1, <2>3, <2>5, <3>1 DEF SentinelIsLast, E!Nothing, E!Gone
  <2>8. \A r \in E!Q : InLane(r)' <=> InLane(r)
    BY <1>1, <2>2 DEF InLane
  <2>9. \A r \in E!Q : r # q => SamePlace(r)
    BY <1>1, <2>3, <2>5 DEF SamePlace, AtWorker, AtWriter
  <2>10. \A r \in E!Q : r # q => PlaceOf(r)'
    BY <1>5, <1>6, <2>8, <2>9, PlaceStays DEF OwedInv
  <2>11. PlaceOf(q)'
    <3>1. /\ \A w \in E_Worker : ~AtWorker(w, q)'
          /\ ~AtWriter(q)' /\ E_settled'[q] = E_settled[q]
      BY <1>1, <1>7 DEF Held, AtWorker, AtWriter
    <3>2. E_settled'[q] = 0
      BY <1>1, <1>3, <1>7 DEF OwedInv, OwedTypes
    <3>3. Passed(q)'
      <4>1. Has(E_closings', q) /\ ~Has(E_inbox', q) /\ E_pid'[q] \notin E_Pid
        BY <1>1, <1>3, <1>4, <1>9, EscalationHolds
      <4> QED BY <4>1 DEF Passed
    <3>4. InOwed(q)'
      BY <2>3, <2>5
    <3> QED BY <3>1, <3>2, <3>3, <3>4 DEF PlaceOf, Held
  <2> QED BY <2>5, <2>6, <2>7, <2>10, <2>11 DEF OwedInv
<1> QED BY <1>8, <1>9

\* What a kill worker has: nothing, or a question to act on or to hand over.
KillHas(x) ==
  \/ x = E!Up \/ x = E!Gone
  \/ x \in [st : {"act", "hand"}, item : Things({"record"})]

LEMMA WorkerTurns ==
  ASSUME EscalatorInv, OwedTypes, NEW w \in E_Worker, NEW new, KillHas(new),
         E_worker' = [E_worker EXCEPT ![w] = new],
         UNCHANGED <<E_writer, E_settled>>,
         E_owed' \in Seq(Things({"record", "escalate"}) \cup {E!Nothing})
  PROVE  /\ OwedTypes' /\ E_worker'[w] = new
         /\ \A v \in E_Worker : v # w => E_worker'[v] = E_worker[v]
         /\ \A v \in E_Worker : v # w => \A r : AtWorker(v, r)' <=> AtWorker(v, r)
<1>1. /\ E_worker'[w] = new
      /\ \A v \in E_Worker : v # w => E_worker'[v] = E_worker[v]
  BY DEF EscalatorInv, BusyAre
<1>2. \A v \in E_Worker : KillHas(E_worker'[v])
  BY <1>1 DEF OwedTypes, KillHas
<1>3. OwedTypes'
  BY <1>2 DEF OwedTypes, KillHas, Things, Kind, E!Thing, E!Up, E!Gone, E!Nothing
<1> QED BY <1>1, <1>3 DEF AtWorker

LEMMA KillTakesOwes ==
  ASSUME EscalatorInv, OwedInv, NEW w \in E_Worker, E!KillTakes(w)
  PROVE  OwedInv'
<1>0. PICK p, q : p = Head(E_ready) /\ q = Head(E_lanes[p])
  OBVIOUS
<1>1. PICK x, new : x = Kind("record", q) /\ new = [st |-> "act", item |-> x]
  OBVIOUS
<1>2. /\ E_worker[w] = E!Up /\ E_ready # <<>>
      /\ E_lanes' = [E_lanes EXCEPT ![p] = Tail(@)]
      /\ E_worker' = [E_worker EXCEPT ![w] = new]
      /\ E_acted' = Append(E_acted, q)
      /\ UNCHANGED <<E_pid, E_closings, E_inbox, E_intake, E_owed, E_writer,
                     E_settled>>
  BY <1>0, <1>1 DEF E!KillTakes, Kind, E!incidentVars, E!doneVars
<1>3. /\ E_ready \in Seq(E_Pid) /\ E_lanes \in [E_Pid -> Seq(E!Q)]
      /\ E_acted \in Seq(E!Q)
      /\ \A y \in E_Pid : Has(E_ready, y) <=> E_lanes[y] # <<>> /\ y \notin E_busy
  BY DEF EscalatorInv, ReadyAre, Line, LineTypes
<1>4. p \in E_Pid /\ E_lanes[p] # <<>> /\ E_lanes[p] \in Seq(E!Q)
  <2>1. p \in E_Pid /\ Has(E_ready, p)
    BY <1>0, <1>2, <1>3, TailIs DEF Has
  <2> QED BY <1>3, <2>1
<1>5. /\ 1 \in DOMAIN E_lanes[p] /\ q = E_lanes[p][1] /\ q \in E!Q
      /\ Has(E_closings, q) /\ E_pid[q] = p
  <2>1. 1 \in DOMAIN E_lanes[p] /\ q = E_lanes[p][1] /\ q \in E!Q
    BY <1>0, <1>4, TailIs
  <2> QED BY <1>4, <2>1 DEF EscalatorInv, Line, Members
<1>6. ~Has(E_acted, q)
  <2> SUFFICES ASSUME NEW k \in DOMAIN E_acted, E_acted[k] = q PROVE FALSE
    BY DEF Has
  <2>1. Later(E_closings, q, q)
    BY <1>5 DEF EscalatorInv, Line, ActsInOrder
  <2> QED BY <2>1, NeverLaterThanItself
<1>7. ~Has(E_inbox, q)
  <2> SUFFICES ASSUME NEW k \in DOMAIN E_inbox, E_inbox[k] = q PROVE FALSE
    BY DEF Has
  <2>1. Later(E_closings, q, q)
    BY <1>4, <1>5, EscalationHolds DEF EscalatorInv, Line, RowsInOrder
  <2> QED BY <2>1, NeverLaterThanItself
<1>8. ~Held(q) /\ E_settled[q] # 1
  BY <1>4, <1>5, <1>6 DEF OwedInv, PlaceOf, Passed
<1>9. \A r : Has(E_acted', r) <=> Has(E_acted, r) \/ r = q
  BY <1>2, <1>3, <1>5, AppendHas
<1>10. MovesOn
  BY <1>2, <1>9 DEF MovesOn
<1>11. \A r \in E!Q : InLane(r) /\ r # q => InLane(r)'
  <2>1. E_lanes'[p] = Tail(E_lanes[p])
        /\ \A y \in E_Pid : y # p => E_lanes'[y] = E_lanes[y]
    BY <1>2, <1>3, <1>4
  <2>2. \A r : Has(E_lanes[p], r) => r = q \/ Has(E_lanes'[p], r)
    BY <1>0, <1>4, <2>1, TailHas
  <2> QED BY <1>2, <2>1, <2>2 DEF InLane
<1>12. KillHas(new) /\ new.st = "act" /\ new.item.q = q
  <2>1. x \in Things({"record"}) /\ x.q = q
    BY <1>1, <1>5, KindIs DEF Things
  <2> QED BY <1>1, <2>1 DEF KillHas
<1>13. E_owed' \in Seq(Things({"record", "escalate"}) \cup {E!Nothing})
  BY <1>2 DEF OwedInv, OwedTypes
<1>14. /\ OwedTypes' /\ E_worker'[w] = new
       /\ \A v \in E_Worker : v # w => \A r : AtWorker(v, r)' <=> AtWorker(v, r)
  BY <1>2, <1>12, <1>13, WorkerTurns DEF OwedInv
<1>15. AtWorker(w, q)' /\ \A r : r # q => ~AtWorker(w, r)'
  BY <1>12, <1>14 DEF AtWorker
<1>16. \A r : ~AtWorker(w, r)
  BY <1>2 DEF AtWorker, E!Up
<1>17. \A r \in E!Q : /\ (InOwed(r)' <=> InOwed(r)) /\ (AtWriter(r)' <=> AtWriter(r))
                      /\ E_settled'[r] = E_settled[r]
  BY <1>2 DEF InOwed, AtWriter
<1>18. \A r \in E!Q : r # q => SamePlace(r)
  BY <1>14, <1>15, <1>16, <1>17 DEF SamePlace
<1>19. \A r \in E!Q : r # q => PlaceOf(r)'
  BY <1>2, <1>10, <1>11, <1>18, PlaceStays DEF OwedInv
<1>20. PlaceOf(q)'
  <2>1. \A v \in E_Worker : AtWorker(v, q)' => v = w
    BY <1>8, <1>14 DEF Held
  <2>2. ~InOwed(q)' /\ ~AtWriter(q)'
    BY <1>5, <1>8, <1>17 DEF Held
  <2>3. E_settled'[q] = 0
    BY <1>5, <1>8, <1>17 DEF OwedInv, OwedTypes
  <2>4. Passed(q)'
    BY <1>2, <1>5, <1>7, <1>9 DEF Passed
  <2> QED BY <1>15, <2>1, <2>2, <2>3, <2>4 DEF PlaceOf, Held
<1>21. OwedOnce' /\ SentinelIsLast'
  BY <1>2 DEF OwedInv, OwedOnce, SentinelIsLast, E!Nothing, E!Gone
<1> QED BY <1>14, <1>19, <1>20, <1>21 DEF OwedInv

LEMMA KillReturnsOwes ==
  ASSUME EscalatorInv, OwedInv, NEW w \in E_Worker, E!KillReturns(w)
  PROVE  /\ OwedInv' /\ E_worker[w].item.q \in E!Q
         /\ E_settled[E_worker[w].item.q] = 0
<1>0. PICK x, q : x = E_worker[w].item /\ q = x.q
  OBVIOUS
<1>1. /\ E_worker[w].st = "act"
      /\ UNCHANGED <<E_pid, E_closings, E_acted, E_inbox, E_intake, E_lanes, E_owed,
                     E_writer>>
  BY DEF E!KillReturns, E!incidentVars
<1>2. x \in Things({"record"}) /\ q \in E!Q
  <2>1. E_worker[w] \in [st : {"act", "hand"}, item : Things({"record"})]
    BY <1>1 DEF OwedInv, OwedTypes, E!Up, E!Gone
  <2> QED BY <1>0, <2>1, ThingIs
<1>3. AtWorker(w, q) /\ \A r : r # q => ~AtWorker(w, r)
  BY <1>0, <1>1 DEF AtWorker
<1>4. Passed(q) /\ E_settled[q] = 0
  BY <1>2, <1>3 DEF OwedInv, PlaceOf, Held
<1>5. E_owed' \in Seq(Things({"record", "escalate"}) \cup {E!Nothing})
  BY <1>1 DEF OwedInv, OwedTypes
<1>6. OwedOnce' /\ SentinelIsLast' /\ MovesOn
  BY <1>1 DEF OwedInv, OwedOnce, SentinelIsLast, MovesOn, E!Nothing, E!Gone
<1>7. \A r : /\ (InOwed(r)' <=> InOwed(r)) /\ (AtWriter(r)' <=> AtWriter(r))
             /\ InLane(r)' <=> InLane(r)
  BY <1>1 DEF InOwed, AtWriter, InLane, Has
<1>8. CASE E_worker' = [E_worker EXCEPT ![w].st = "hand"] /\ UNCHANGED E!doneVars
  <2>1. PICK new : new = [st |-> "hand", item |-> x]
    OBVIOUS
  <2>2. E_worker' = [E_worker EXCEPT ![w] = new]
    <3>1. E_worker[w] \in [st : {"act", "hand"}, item : Things({"record"})]
      BY <1>1 DEF OwedInv, OwedTypes, E!Up, E!Gone
    <3>2. [E_worker[w] EXCEPT !.st = "hand"] = new
      BY <1>0, <2>1, <3>1
    <3>3. E_worker' = [E_worker EXCEPT ![w] = [E_worker[w] EXCEPT !.st = "hand"]]
      BY <1>8
    <3> QED BY <3>2, <3>3
  <2>3. KillHas(new) /\ new.st = "hand" /\ new.item.q = q /\ E_settled' = E_settled
    BY <1>0, <1>2, <1>8, <2>1 DEF KillHas, E!doneVars
  <2>4. /\ OwedTypes' /\ E_worker'[w] = new
        /\ \A v \in E_Worker : v # w => \A r : AtWorker(v, r)' <=> AtWorker(v, r)
    BY <1>1, <1>5, <2>2, <2>3, WorkerTurns DEF OwedInv
  <2>5. \A r : AtWorker(w, r)' <=> AtWorker(w, r)
    BY <1>3, <2>3, <2>4 DEF AtWorker
  <2>6. \A r \in E!Q : SamePlace(r)
    BY <1>7, <2>3, <2>4, <2>5 DEF SamePlace
  <2>7. \A r \in E!Q : PlaceOf(r)'
    BY <1>1, <1>6, <1>7, <2>6, PlaceStays DEF OwedInv
  <2> QED BY <1>0, <1>2, <1>4, <1>6, <2>4, <2>7 DEF OwedInv
<1>9. CASE /\ E_worker' = [E_worker EXCEPT ![w] = E!Up]
           /\ E_settled' = [E_settled EXCEPT ![q] = @ + 1]
  <2>1. /\ E_settled \in [E!Q -> {0, 1}]
    BY DEF OwedInv, OwedTypes
  <2>2. /\ E_settled' \in [E!Q -> {0, 1}] /\ E_settled'[q] = 1
        /\ \A r \in E!Q : r # q => E_settled'[r] = E_settled[r]
    BY <1>2, <1>4, <1>9, <2>1
  <2>3. /\ E_worker'[w] = E!Up
        /\ \A v \in E_Worker : v # w => E_worker'[v] = E_worker[v]
    BY <1>9 DEF EscalatorInv, BusyAre
  <2>4. OwedTypes'
    <3>1. \A v \in E_Worker : KillHas(E_worker'[v])
      BY <2>3 DEF OwedInv, OwedTypes, KillHas
    <3>2. \/ E_writer' = E!Up \/ E_writer' = E!Gone
          \/ E_writer' \in [st : {"write", "queue"},
                            item : Things({"record", "escalate"})]
      BY <1>1 DEF OwedInv, OwedTypes
    <3> QED
      BY <1>5, <2>2, <3>1, <3>2
      DEF OwedTypes, KillHas, Things, Kind, E!Thing, E!Up, E!Gone, E!Nothing
  <2>5. \A r : ~AtWorker(w, r)'
    BY <2>3 DEF AtWorker, E!Up
  <2>6. \A v \in E_Worker : v # w => \A r : AtWorker(v, r)' <=> AtWorker(v, r)
    BY <2>3 DEF AtWorker
  <2>7. \A r \in E!Q : r # q => SamePlace(r)
    BY <1>3, <1>7, <2>2, <2>5, <2>6 DEF SamePlace
  <2>8. \A r \in E!Q : r # q => PlaceOf(r)'
    BY <1>1, <1>6, <1>7, <2>7, PlaceStays DEF OwedInv
  <2>9. PlaceOf(q)'
    <3>1. ~Held(q)'
      BY <1>2, <1>3, <1>7, <2>5, <2>6 DEF Held, OwedInv, PlaceOf
    <3>2. Passed(q)'
      BY <1>2, <1>4, <1>6, PassedStays
    <3> QED BY <2>2, <3>1, <3>2 DEF PlaceOf, Held
  <2> QED BY <1>0, <1>2, <1>4, <1>6, <2>4, <2>8, <2>9 DEF OwedInv
<1> QED BY <1>0, <1>8, <1>9 DEF E!KillReturns

LEMMA KillExitsOwes ==
  ASSUME EscalatorInv, OwedInv, NEW w \in E_Worker, E!KillExits(w)
  PROVE  OwedInv'
<1>1. /\ E_worker[w] = E!Up /\ E_worker' = [E_worker EXCEPT ![w] = E!Gone]
      /\ UNCHANGED <<E_pid, E_closings, E_acted, E_inbox, E_intake, E_lanes, E_owed,
                     E_writer, E_settled>>
  BY DEF E!KillExits, E!incidentVars, E!laneVars, E!doneVars
<1>2. E_owed' \in Seq(Things({"record", "escalate"}) \cup {E!Nothing})
  BY <1>1 DEF OwedInv, OwedTypes
<1>3. KillHas(E!Gone)
  BY DEF KillHas
<1>4. /\ OwedTypes' /\ E_worker'[w] = E!Gone
      /\ \A v \in E_Worker : v # w => \A r : AtWorker(v, r)' <=> AtWorker(v, r)
  BY <1>1, <1>2, <1>3, WorkerTurns DEF OwedInv
<1>5. \A r : AtWorker(w, r)' <=> AtWorker(w, r)
  BY <1>1, <1>4 DEF AtWorker, E!Up, E!Gone
<1>6. OwedOnce' /\ SentinelIsLast' /\ MovesOn
  BY <1>1 DEF OwedInv, OwedOnce, SentinelIsLast, MovesOn, E!Nothing, E!Gone
<1>7. \A r \in E!Q : SamePlace(r) /\ (InLane(r)' <=> InLane(r))
  BY <1>1, <1>4, <1>5 DEF SamePlace, InOwed, AtWriter, InLane, Has
<1>8. \A r \in E!Q : PlaceOf(r)'
  BY <1>1, <1>6, <1>7, PlaceStays DEF OwedInv
<1> QED BY <1>4, <1>6, <1>8 DEF OwedInv

LEMMA KillHandsOwes ==
  ASSUME EscalatorInv, OwedInv, NEW w \in E_Worker, E!KillHands(w)
  PROVE  OwedInv'
<1>0. PICK x, q : x = E_worker[w].item /\ q = x.q
  OBVIOUS
<1>1. /\ E_worker[w].st = "hand" /\ E_worker' = [E_worker EXCEPT ![w] = E!Up]
      /\ E_owed' = Append(E_owed, x)
      /\ UNCHANGED <<E_pid, E_closings, E_acted, E_inbox, E_intake, E_lanes, E_writer,
                     E_settled>>
  BY <1>0 DEF E!KillHands, E!incidentVars, E!laneVars, E!doneVars
<1>2. x \in Things({"record", "escalate"}) /\ q \in E!Q /\ x # E!Nothing
  <2>1. E_worker[w] \in [st : {"act", "hand"}, item : Things({"record"})]
    <3>1. KillHas(E_worker[w])
      BY DEF OwedInv, OwedTypes, KillHas
    <3>2. E_worker[w] # E!Up /\ E_worker[w] # E!Gone
      BY <1>1 DEF E!Up, E!Gone
    <3> QED BY <3>1, <3>2 DEF KillHas
  <2>2. x \in Things({"record"}) /\ q \in E!Q /\ x # E!Nothing
    BY <1>0, <2>1, ThingIs
  <2> QED BY <2>2 DEF Things
<1>3. AtWorker(w, q) /\ \A r : r # q => ~AtWorker(w, r)
  BY <1>0, <1>1 DEF AtWorker
<1>4. /\ Passed(q) /\ E_settled[q] = 0 /\ ~InOwed(q) /\ ~AtWriter(q)
      /\ \A v \in E_Worker : AtWorker(v, q) => v = w
  BY <1>2, <1>3 DEF OwedInv, PlaceOf, Held
<1>5. /\ E_owed' \in Seq(Things({"record", "escalate"}) \cup {E!Nothing})
      /\ OwedOnce'
      /\ \A r : InOwed(r)' <=> InOwed(r) \/ r = q
      /\ \A i \in DOMAIN E_owed' :
           \/ i \in DOMAIN E_owed /\ E_owed'[i] = E_owed[i]
           \/ i = Len(E_owed') /\ E_owed'[i] = x
  BY <1>0, <1>1, <1>2, <1>4, OwedGrows DEF OwedInv
<1>6. KillHas(E!Up)
  BY DEF KillHas
<1>7. /\ OwedTypes' /\ E_worker'[w] = E!Up
      /\ \A v \in E_Worker : v # w => \A r : AtWorker(v, r)' <=> AtWorker(v, r)
  BY <1>1, <1>5, <1>6, WorkerTurns DEF OwedInv
<1>8. \A r : ~AtWorker(w, r)'
  BY <1>7 DEF AtWorker, E!Up
<1>9. SentinelIsLast'
  <2>1. E_intake \notin {"last", "gone"}
    <3>1. E_worker[w] # E!Gone
      BY <1>1 DEF E!Gone
    <3> QED BY <3>1 DEF EscalatorInv, StoppingIs, E!WorkersGone
  <2>2. E_writer # E!Gone /\ \A i \in DOMAIN E_owed : E_owed[i] # E!Nothing
    BY <2>1 DEF OwedInv, SentinelIsLast
  <2> QED BY <1>1, <1>2, <1>5, <2>1, <2>2 DEF SentinelIsLast, E!Nothing, E!Gone
<1>10. \A r : (AtWriter(r)' <=> AtWriter(r)) /\ (InLane(r)' <=> InLane(r))
  BY <1>1 DEF AtWriter, InLane, Has
<1>11. MovesOn
  BY <1>1 DEF MovesOn
<1>12. \A r \in E!Q : r # q => SamePlace(r)
  BY <1>1, <1>3, <1>5, <1>7, <1>8, <1>10 DEF SamePlace
<1>13. \A r \in E!Q : r # q => PlaceOf(r)'
  BY <1>1, <1>10, <1>11, <1>12, PlaceStays DEF OwedInv
<1>14. PlaceOf(q)'
  <2>1. (\A v \in E_Worker : ~AtWorker(v, q)') /\ InOwed(q)' /\ ~AtWriter(q)'
    BY <1>4, <1>5, <1>7, <1>8, <1>10
  <2>2. Passed(q)' /\ E_settled'[q] = 0
    BY <1>1, <1>2, <1>4, <1>11, PassedStays
  <2> QED BY <2>1, <2>2 DEF PlaceOf, Held
<1> QED BY <1>5, <1>7, <1>9, <1>13, <1>14 DEF OwedInv

\* The writer takes what is owed the longest.
LEMMA WriterTakesOwes ==
  ASSUME EscalatorInv, OwedInv, E!WriterTakes
  PROVE  /\ OwedInv'
         /\ \A r \in E!Q : WritesNow(r)' =>
              E_settled[r] = 0 /\ Has(E_closings, r) /\ E!InChain(r)
<1> DEFINE S == Things({"record", "escalate"}) \cup {E!Nothing}
<1>0. PICK x, q : x = Head(E_owed) /\ q = x.q
  OBVIOUS
<1>1. /\ E_writer = E!Up /\ E_owed # <<>> /\ E_owed' = Tail(E_owed)
      /\ UNCHANGED <<E_pid, E_closings, E_acted, E_inbox, E_intake, E_lanes, E_worker,
                     E_settled>>
  BY DEF E!WriterTakes, E!incidentVars, E!laneVars, E!askVars, E!doneVars
<1>2. E_owed \in Seq(S)
  BY DEF OwedInv, OwedTypes
<1> HIDE DEF S
<1>3. /\ E_owed' \in Seq(S) /\ x \in S /\ 1 \in DOMAIN E_owed /\ x = E_owed[1]
      /\ Len(E_owed') = Len(E_owed) - 1 /\ Len(E_owed) \in Nat
      /\ DOMAIN E_owed = 1 .. Len(E_owed)
      /\ \A i \in DOMAIN E_owed' : /\ i \in Nat /\ i + 1 \in DOMAIN E_owed
                                   /\ 1 < i + 1 /\ E_owed'[i] = E_owed[i + 1]
      /\ \A i \in DOMAIN E_owed :
           i = 1 \/ (i - 1 \in DOMAIN E_owed' /\ E_owed[i] = E_owed'[i - 1])
  BY <1>0, <1>1, <1>2, TailIs
<1>4. OwedOnce'
  <2> SUFFICES ASSUME NEW i \in DOMAIN E_owed', NEW j \in DOMAIN E_owed',
                      E_owed'[i].q = E_owed'[j].q
               PROVE  i = j
    BY DEF OwedOnce
  <2>1. i + 1 = j + 1 /\ i \in Nat /\ j \in Nat
    BY <1>3 DEF OwedInv, OwedOnce
  <2> QED BY <2>1
<1>5. \A r : InOwed(r)' <=> InOwed(r) /\ r # q
  <2>1. \A r : InOwed(r)' => InOwed(r)
    BY <1>3 DEF InOwed
  <2>2. ~InOwed(q)'
    <3> SUFFICES ASSUME NEW i \in DOMAIN E_owed', E_owed'[i].q = q PROVE FALSE
      BY DEF InOwed
    <3>1. i + 1 = 1 /\ 1 < i + 1
      BY <1>0, <1>3 DEF OwedInv, OwedOnce
    <3> QED BY <3>1
  <2>3. \A r : InOwed(r) /\ r # q => InOwed(r)'
    BY <1>0, <1>3 DEF InOwed
  <2> QED BY <2>1, <2>2, <2>3
<1>6. InOwed(q)
  BY <1>0, <1>3 DEF InOwed
<1>7. \A r : ~AtWriter(r)
  BY <1>1 DEF AtWriter, E!Up
<1>8. MovesOn /\ \A r : /\ InLane(r)' <=> InLane(r)
                        /\ \A w \in E_Worker : AtWorker(w, r)' <=> AtWorker(w, r)
  BY <1>1 DEF MovesOn, InLane, Has, AtWorker
<1>9. CASE x = E!Nothing
  <2>1. E_writer' = E!Gone
    BY <1>0, <1>9 DEF E!WriterTakes
  <2>2. q = 0 /\ \A r : ~AtWriter(r)'
    BY <1>0, <1>9, <2>1, KindIs DEF AtWriter, E!Gone
  <2>3. \A r \in E!Q : SamePlace(r)
    BY <1>1, <1>5, <1>7, <1>8, <2>2, EscalationHolds DEF SamePlace
  <2>4. \A r \in E!Q : PlaceOf(r)'
    BY <1>1, <1>8, <2>3, PlaceStays DEF OwedInv
  <2>5. SentinelIsLast'
    <3>1. 1 = Len(E_owed) /\ E_intake = "last"
      BY <1>3, <1>9 DEF OwedInv, SentinelIsLast
    <3>2. E_owed' = <<>> /\ DOMAIN E_owed' = {}
      <4>1. Len(E_owed') = Len(E_owed) - 1 /\ E_owed' \in Seq(S)
        BY <1>3
      <4>2. Len(E_owed) = 1
        BY <3>1
      <4>3. Len(E_owed') = 0
        BY <4>1, <4>2
      <4>4. E_owed' = <<>>
        BY <4>1, <4>3, EmptySeq
      <4> QED BY <4>4
    <3> QED BY <1>1, <2>1, <3>1, <3>2 DEF SentinelIsLast
  <2>6. OwedTypes'
    BY <1>1, <1>3, <2>1
    DEF S, OwedInv, OwedTypes, Things, Kind, E!Thing, E!Up, E!Gone, E!Nothing
  <2>7. \A r : ~WritesNow(r)'
    BY <2>1 DEF WritesNow, E!Gone
  <2> QED BY <1>4, <2>4, <2>5, <2>6, <2>7 DEF OwedInv
<1>10. CASE x # E!Nothing
  <2>1. x \in Things({"record", "escalate"}) /\ q \in E!Q
    <3>1. x \in Things({"record", "escalate"})
      BY <1>3, <1>10 DEF S
    <3> QED BY <1>0, <3>1, ThingIs
  <2>2. PICK s \in {"write", "queue"} : /\ E_writer' = [item |-> x, st |-> s]
                                        /\ s = "write" => E!InChain(q)
    <3>1. E_writer' = [item |-> x, st |-> IF E!InChain(q) THEN "write" ELSE "queue"]
      BY <1>0, <1>10 DEF E!WriterTakes
    <3>2. CASE E!InChain(q)
      BY <3>1, <3>2
    <3>3. CASE ~E!InChain(q)
      BY <3>1, <3>3
    <3> QED BY <3>2, <3>3
  <2>3. /\ E_writer'.st = s /\ E_writer'.item = x /\ E_writer' # E!Gone
        /\ E_writer' \in [st : {"write", "queue"}, item : Things({"record", "escalate"})]
    BY <2>1, <2>2 DEF E!Gone
  <2>4. AtWriter(q)' /\ \A r : AtWriter(r)' => r = q
    BY <1>0, <2>3 DEF AtWriter
  <2>5. \A r \in E!Q : r # q => SamePlace(r)
    BY <1>1, <1>5, <1>7, <1>8, <2>4 DEF SamePlace
  <2>6. \A r \in E!Q : r # q => PlaceOf(r)'
    BY <1>1, <1>8, <2>5, PlaceStays DEF OwedInv
  <2>7. Passed(q) /\ E_settled[q] = 0 /\ \A w \in E_Worker : ~AtWorker(w, q)
    BY <1>6, <2>1 DEF OwedInv, PlaceOf, Held
  <2>8. PlaceOf(q)'
    <3>1. Passed(q)' /\ E_settled'[q] = 0
      BY <1>1, <1>8, <2>1, <2>7, PassedStays
    <3>2. ~InOwed(q)' /\ \A w \in E_Worker : ~AtWorker(w, q)'
      BY <1>5, <1>8, <2>7
    <3> QED BY <2>4, <3>1, <3>2 DEF PlaceOf, Held
  <2>9. SentinelIsLast'
    <3>1. E_writer # E!Gone /\ E_intake # "gone"
      BY <1>1 DEF OwedInv, SentinelIsLast, E!Up, E!Gone
    <3>2. \A i \in DOMAIN E_owed' : E_owed'[i] = E!Nothing =>
            i = Len(E_owed') /\ E_intake = "last"
      <4> SUFFICES ASSUME NEW i \in DOMAIN E_owed', E_owed'[i] = E!Nothing
                   PROVE  i = Len(E_owed') /\ E_intake = "last"
        OBVIOUS
      <4>1. i + 1 = Len(E_owed) /\ E_intake = "last" /\ i \in Nat
        BY <1>3 DEF OwedInv, SentinelIsLast
      <4> QED BY <1>3, <4>1
    <3> QED BY <1>1, <2>3, <3>1, <3>2 DEF SentinelIsLast, E!Nothing
  <2>10. OwedTypes'
    BY <1>1, <1>3, <2>3
    DEF S, OwedInv, OwedTypes, Things, Kind, E!Thing, E!Up, E!Gone, E!Nothing
  <2>11. \A r \in E!Q : WritesNow(r)' =>
           E_settled[r] = 0 /\ Has(E_closings, r) /\ E!InChain(r)
    <3>1. \A r \in E!Q : WritesNow(r)' => r = q /\ s = "write"
      BY <1>0, <2>3 DEF WritesNow
    <3> QED BY <2>2, <2>7, <3>1 DEF Passed
  <2> QED BY <1>4, <2>6, <2>8, <2>9, <2>10, <2>11 DEF OwedInv
<1> QED BY <1>9, <1>10

\* The writer is done with its question, whatever became of the block.
LEMMA WriterSettlesOwes ==
  ASSUME EscalatorInv, OwedInv, E!WriterWrites \/ E!WriterQueues
  PROVE  /\ OwedInv' /\ E_writer.item.q \in E!Q
         /\ AtWriter(E_writer.item.q) /\ E_settled[E_writer.item.q] = 0
         /\ E_settled' = [E_settled EXCEPT ![E_writer.item.q] = 1]
         /\ \A r : ~WritesNow(r)'
<1>0. PICK q : q = E_writer.item.q
  OBVIOUS
<1>1. /\ E_writer.st \in {"write", "queue"} /\ E_writer' = E!Up
      /\ E_settled' = [E_settled EXCEPT ![q] = @ + 1]
      /\ UNCHANGED <<E_pid, E_closings, E_acted, E_inbox, E_intake, E_lanes, E_owed,
                     E_worker>>
  BY <1>0 DEF E!WriterWrites, E!WriterQueues, E!SettleOnce, E!incidentVars,
              E!laneVars, E!askVars
<1>2. q \in E!Q
  <2>1. E_writer \in [st : {"write", "queue"}, item : Things({"record", "escalate"})]
    BY <1>1 DEF OwedInv, OwedTypes, E!Up, E!Gone
  <2>2. E_writer.item \in Things({"record", "escalate"})
    BY <2>1
  <2> QED BY <1>0, <2>2, ThingIs
<1>3. AtWriter(q) /\ \A r : AtWriter(r) => r = q
  BY <1>0, <1>1 DEF AtWriter
<1>4. /\ Passed(q) /\ E_settled[q] = 0 /\ ~InOwed(q)
      /\ \A w \in E_Worker : ~AtWorker(w, q)
  BY <1>2, <1>3 DEF OwedInv, PlaceOf, Held
<1>5. E_settled \in [E!Q -> {0, 1}]
  BY DEF OwedInv, OwedTypes
<1>6. /\ E_settled' = [E_settled EXCEPT ![q] = 1] /\ E_settled' \in [E!Q -> {0, 1}]
      /\ E_settled'[q] = 1 /\ \A r \in E!Q : r # q => E_settled'[r] = E_settled[r]
  BY <1>1, <1>2, <1>4, <1>5
<1>7. \A r : ~AtWriter(r)' /\ ~WritesNow(r)'
  BY <1>1 DEF AtWriter, WritesNow, E!Up
<1>8. \A r : /\ InLane(r)' <=> InLane(r)
             /\ InOwed(r)' <=> InOwed(r)
             /\ \A w \in E_Worker : AtWorker(w, r)' <=> AtWorker(w, r)
  BY <1>1 DEF InLane, Has, AtWorker, InOwed
<1>9. MovesOn /\ OwedOnce'
  BY <1>1 DEF MovesOn, OwedInv, OwedOnce
<1>10. SentinelIsLast'
  <2>1. E_writer # E!Gone /\ E!Up # E!Gone
    BY <1>1 DEF E!Gone, E!Up
  <2>2. E_intake # "gone"
    BY <2>1 DEF OwedInv, SentinelIsLast
  <2> QED BY <1>1, <2>1, <2>2 DEF OwedInv, SentinelIsLast, E!Nothing, E!Gone
<1>11. OwedTypes'
  BY <1>1, <1>6
  DEF OwedInv, OwedTypes, Things, Kind, E!Thing, E!Up, E!Gone, E!Nothing
<1>12. \A r \in E!Q : r # q => SamePlace(r)
  BY <1>3, <1>6, <1>7, <1>8 DEF SamePlace
<1>13. \A r \in E!Q : r # q => PlaceOf(r)'
  BY <1>1, <1>8, <1>9, <1>12, PlaceStays DEF OwedInv
<1>14. PlaceOf(q)'
  <2>1. ~Held(q)'
    BY <1>4, <1>7, <1>8 DEF Held
  <2>2. Passed(q)'
    BY <1>2, <1>4, <1>9, PassedStays
  <2> QED BY <1>6, <2>1, <2>2 DEF PlaceOf, Held
<1> QED BY <1>0, <1>2, <1>3, <1>4, <1>6, <1>7, <1>9, <1>10, <1>11, <1>13, <1>14 DEF OwedInv

-------------------------------------------------------------------------------
(* The anchors and the chain.                                              *)

LEMMA RemovedIs ==
  ASSUME NEW S, NEW s \in Seq(S), NEW n \in DOMAIN s
  PROVE  /\ E!RemoveAt(s, n) \in Seq(S)
         /\ \A r : Has(E!RemoveAt(s, n), r) => Has(s, r)
         /\ \A r : Has(s, r) => Has(E!RemoveAt(s, n), r) \/ r = s[n]
<1> DEFINE t == E!RemoveAt(s, n)
           a == SubSeq(s, 1, n - 1)
           b == SubSeq(s, n + 1, Len(s))
<1>1. Len(s) \in Nat /\ n \in 1 .. Len(s) /\ DOMAIN s = 1 .. Len(s)
  OBVIOUS
<1>2. /\ a \in Seq(S) /\ Len(a) = n - 1
      /\ \A i \in 1 .. n - 1 : a[i] = s[i]
  BY <1>1, SubSeqProperties
<1>3. /\ b \in Seq(S) /\ Len(b) = Len(s) - n
      /\ \A i \in 1 .. Len(s) - n : b[i] = s[n + i]
  <2>1. CASE n = Len(s)
    BY <1>1, <2>1
  <2>2. CASE n < Len(s)
    <3>1. n + 1 \in 1 .. Len(s) /\ Len(s) \in 1 .. Len(s)
      BY <1>1, <2>2
    <3> QED BY <1>1, <2>2, <3>1, SubSeqProperties
  <2>3. n = Len(s) \/ n < Len(s)
    BY <1>1
  <2> QED BY <2>1, <2>2, <2>3
<1>4. t = a \o b
  BY <1>1 DEF E!RemoveAt
<1> HIDE DEF t, a, b
<1>5. /\ t \in Seq(S) /\ Len(t) = Len(s) - 1
      /\ \A i \in 1 .. Len(s) - 1 :
           t[i] = IF i <= n - 1 THEN a[i] ELSE b[i - (n - 1)]
  <2>1. /\ t \in Seq(S) /\ Len(t) = Len(a) + Len(b)
        /\ \A i \in 1 .. Len(a) + Len(b) :
             t[i] = IF i <= Len(a) THEN a[i] ELSE b[i - Len(a)]
    BY <1>2, <1>3, <1>4, ConcatProperties
  <2>2. Len(a) + Len(b) = Len(s) - 1
    BY <1>1, <1>2, <1>3
  <2> QED BY <1>2, <2>1, <2>2
<1>6. \A i \in DOMAIN t : \E j \in DOMAIN s : t[i] = s[j]
  <2> SUFFICES ASSUME NEW i \in DOMAIN t PROVE \E j \in DOMAIN s : t[i] = s[j]
    OBVIOUS
  <2>1. i \in 1 .. Len(s) - 1
    BY <1>5
  <2>2. CASE i <= n - 1
    <3>1. i \in 1 .. n - 1 /\ i \in DOMAIN s
      BY <1>1, <2>1, <2>2
    <3> QED BY <1>2, <1>5, <2>1, <2>2, <3>1
  <2>3. CASE ~(i <= n - 1)
    <3>1. /\ i - (n - 1) \in 1 .. Len(s) - n
          /\ n + (i - (n - 1)) = i + 1 /\ i + 1 \in DOMAIN s
      BY <1>1, <2>1, <2>3
    <3>2. t[i] = b[i - (n - 1)] /\ b[i - (n - 1)] = s[i + 1]
      BY <1>3, <1>5, <2>1, <2>3, <3>1
    <3> QED BY <3>1, <3>2
  <2> QED BY <2>2, <2>3
<1>7. ASSUME NEW j \in DOMAIN s, j # n PROVE \E i \in DOMAIN t : t[i] = s[j]
  <2>1. CASE j < n
    <3>1. j \in 1 .. n - 1 /\ j \in 1 .. Len(s) - 1
      BY <1>1, <2>1
    <3>2. t[j] = s[j]
      BY <1>1, <1>2, <1>5, <3>1
    <3>3. j \in DOMAIN t
      BY <1>5, <3>1
    <3> QED BY <3>2, <3>3
  <2>2. CASE j > n
    <3>1. j - n \in 1 .. Len(s) - n /\ j - 1 \in 1 .. Len(s) - 1 /\ ~(j - 1 <= n - 1)
      BY <1>1, <2>2
    <3>2. t[j - 1] = b[(j - 1) - (n - 1)] /\ (j - 1) - (n - 1) = j - n
      BY <1>1, <1>5, <3>1
    <3>3. b[j - n] = s[n + (j - n)] /\ n + (j - n) = j
      BY <1>1, <1>3, <3>1
    <3>4. t[j - 1] = s[j]
      BY <3>2, <3>3
    <3> QED BY <1>5, <3>1, <3>4
  <2> QED BY <1>1, <1>7, <2>1, <2>2
<1> QED BY <1>5, <1>6, <1>7 DEF t, Has

LEMMA AnchoredIs == \A q : q \in E!ToSet(E_anchors) <=> Anchored(q)
BY DEF E!ToSet, Anchored, Has

LEMMA ForgetIs ==
  ASSUME NEW q, E!Forget(q), E_anchors \in Seq(E!Q)
  PROVE  /\ E_anchors' \in Seq(E!Q) /\ E_marked' = E_marked \ {q}
         /\ \A r : r # q => (Anchored(r)' <=> Anchored(r))
         /\ Anchored(q)' => Anchored(q)
<1>1. E_marked' = E_marked \ {q}
  BY DEF E!Forget
<1>2. CASE UNCHANGED E_anchors
  BY <1>1, <1>2 DEF Anchored
<1>3. ASSUME NEW n \in DOMAIN E_anchors, E_anchors[n] = q,
             E_anchors' = E!RemoveAt(E_anchors, n)
      PROVE  /\ E_anchors' \in Seq(E!Q)
             /\ \A r : r # q => (Anchored(r)' <=> Anchored(r))
             /\ Anchored(q)' => Anchored(q)
  BY <1>3, RemovedIs DEF Anchored
<1> QED BY <1>1, <1>2, <1>3 DEF E!Forget

LEMMA ChainGrows ==
  ASSUME NEW k \in {"own", "escalation"}, NEW q \in E!Q, E!Write(k, q),
         E_chain \in Seq(Things({"own", "escalation"}))
  PROVE  /\ E_chain' \in Seq(Things({"own", "escalation"}))
         /\ \A r : Written(r)' <=> Written(r) \/ (k = "escalation" /\ r = q)
         /\ \A r : r # q /\ LastFor(r) => LastFor(r)'
         /\ ~Written(q) => LastFor(q)'
<1> DEFINE S == Things({"own", "escalation"})
<1>1. PICK x : x = Kind(k, q)
  OBVIOUS
<1>2. x \in S /\ E_chain' = Append(E_chain, x) /\ x.q = q /\ x.kind = k
  BY <1>1, KindIs DEF E!Write, Things, Kind
<1> HIDE DEF S
<1>3. /\ E_chain' \in Seq(S)
      /\ Len(E_chain) \in Nat /\ DOMAIN E_chain = 1 .. Len(E_chain)
      /\ DOMAIN E_chain' = 1 .. Len(E_chain) + 1
      /\ Len(E_chain) + 1 \in DOMAIN E_chain'
      /\ \A i \in DOMAIN E_chain : /\ i \in DOMAIN E_chain' /\ i < Len(E_chain) + 1
                                   /\ E_chain'[i] = E_chain[i]
      /\ \A i \in DOMAIN E_chain' : i = Len(E_chain) + 1 \/ i \in DOMAIN E_chain
      /\ E_chain'[Len(E_chain) + 1] = x
  BY <1>2, AppendIs DEF S
<1>4. \A r : x = Kind("escalation", r) <=> k = "escalation" /\ r = q
  BY <1>1, KindIs
<1>5. \A r : Written(r) <=> \E n \in DOMAIN E_chain : E_chain[n] = Kind("escalation", r)
  BY DEF Written, E!WrittenAs, Kind
<1>6. \A r : Written(r)' <=>
               \E n \in DOMAIN E_chain' : E_chain'[n] = Kind("escalation", r)
  BY DEF Written, E!WrittenAs, Kind, E!Thing
<1>7. \A r : Written(r)' <=> Written(r) \/ (k = "escalation" /\ r = q)
  BY <1>3, <1>4, <1>5, <1>6
<1>8. \A r : LastFor(r)' <=>
               \A m, n \in DOMAIN E_chain' :
                 E_chain'[m] = Kind("escalation", r) /\ E_chain'[n].q = r => n <= m
  BY DEF LastFor, Kind, E!Thing
<1>9. ASSUME NEW r, r # q, LastFor(r) PROVE LastFor(r)'
  <2> SUFFICES ASSUME NEW m \in DOMAIN E_chain', NEW n \in DOMAIN E_chain',
                      E_chain'[m] = Kind("escalation", r), E_chain'[n].q = r
               PROVE  n <= m
    BY <1>8
  <2>1. m \in DOMAIN E_chain /\ n \in DOMAIN E_chain
    BY <1>2, <1>3, <1>4, <1>9
  <2> QED BY <1>3, <1>9, <2>1 DEF LastFor
<1>10. ASSUME ~Written(q) PROVE LastFor(q)'
  <2> SUFFICES ASSUME NEW m \in DOMAIN E_chain', NEW n \in DOMAIN E_chain',
                      E_chain'[m] = Kind("escalation", q)
               PROVE  n <= m
    BY <1>8
  <2>1. m = Len(E_chain) + 1
    BY <1>3, <1>5, <1>10
  <2> QED BY <1>3, <2>1
<1> QED BY <1>3, <1>7, <1>9, <1>10 DEF S

\* What leaves the block of a question as it is told.
LEMMA BlockStays ==
  ASSUME NEW r \in E!Q, BlockOf(r),
         OwnDue(r)' => OwnDue(r), Behind(r)' <=> Behind(r),
         Written(r)' <=> Written(r),
         E_settled'[r] = E_settled[r], E_stage'[r] = E_stage[r],
         r \in E_failed => r \in E_failed',
         Anchored(r)' <=> Anchored(r),
         r \in E_marked' => r \in E_marked \/ (Anchored(r) /\ ~OwnDue(r)'),
         r \in E_evicted => r \in E_evicted',
         r \notin E_evicted /\ WritesNow(r)' => WritesNow(r) \/ ~OwnDue(r),
         r \notin E_evicted /\ LastFor(r) => LastFor(r)'
  PROVE  BlockOf(r)'
<1>1. /\ Behind(r)' \/ Written(r)' => E_settled'[r] = 1
      /\ E_settled'[r] = 1 => r \in E_failed' \/ Written(r)' \/ Behind(r)'
      /\ Anchored(r)' => E_stage'[r] \in {"open", "closed"}
      /\ r \in E_marked' => Anchored(r)' /\ ~OwnDue(r)'
  BY DEF BlockOf
<1>2. r \notin E_evicted' =>
        /\ E_stage'[r] = "open" => Anchored(r)'
        /\ E_stage'[r] = "closed" /\ E_settled'[r] = 0 => Anchored(r)'
        /\ WritesNow(r)' => ~OwnDue(r)'
        /\ Written(r)' => ~OwnDue(r)' /\ ~Behind(r)'
        /\ LastFor(r)'
  BY DEF BlockOf
<1> QED BY <1>1, <1>2 DEF BlockOf

-------------------------------------------------------------------------------
(* Every step.                                                             *)

BlockIsAsItWas ==
  UNCHANGED <<E_anchors, E_marked, E_evicted, E_chain, E_failed, E_settled>>

LEMMA BlockIsKept ==
  BlockIsAsItWas =>
    \A r : /\ Written(r)' <=> Written(r)
           /\ Anchored(r)' <=> Anchored(r)
           /\ LastFor(r)' <=> LastFor(r)
BY DEF BlockIsAsItWas, Written, E!WrittenAs, Anchored, Has, LastFor, Kind, E!Thing

\* The intake and the kill workers touch neither the pipe nor the blocks.
LEMMA BlocksRest ==
  ASSUME BlocksInv, OwedInv', PipeIsAsItWas, BlockIsAsItWas, E_stage' = E_stage,
         E_writer' = E_writer
  PROVE  BlocksInv'
<1>1. /\ PipeTypes' /\ PipeInOrder'
      /\ \A q : (OwnDue(q)' <=> OwnDue(q)) /\ (Behind(q)' <=> Behind(q))
  BY PipeStays DEF BlocksInv
<1>2. \A r : WritesNow(r)' <=> WritesNow(r)
  BY DEF WritesNow
<1>3. \A r \in E!Q : BlockOf(r)'
  BY <1>1, <1>2, BlockIsKept, BlockStays DEF BlocksInv, WrittenInv, BlockIsAsItWas
<1>4. BlockTypes'
  BY DEF BlocksInv, WrittenInv, BlockIsAsItWas, BlockTypes, Things, Kind, E!Thing
<1> QED BY <1>1, <1>3, <1>4 DEF BlocksInv, WrittenInv

LEMMA QuietSteps ==
  ASSUME EscalatorInv, BlocksInv,
         \/ E!StopAsked \/ E!IntakeStep
         \/ \E w \in E_Worker : E!KillTakes(w) \/ E!KillHands(w) \/ E!KillExits(w)
  PROVE  BlocksInv'
<1>1. OwedInv'
  BY StopAskedOwes, IntakeOwes, RouteOwes, KillTakesOwes, KillHandsOwes, KillExitsOwes
  DEF BlocksInv, E!IntakeStep
<1>2. ASSUME E!StopAsked \/ E!SeesSentinel \/ E!ClosesLanes
      PROVE  /\ PipeIsAsItWas /\ BlockIsAsItWas /\ E_stage' = E_stage
             /\ E_writer' = E_writer
  BY <1>2 DEF E!StopAsked, E!SeesSentinel, E!ClosesLanes, PipeIsAsItWas,
         BlockIsAsItWas, E!incidentVars, E!anchorVars, E!tailVars, E!doneVars
<1>3. ASSUME E!StopsWriter \/ E!IntakeEnds \/ E!Route
      PROVE  /\ PipeIsAsItWas /\ BlockIsAsItWas /\ E_stage' = E_stage
             /\ E_writer' = E_writer
  BY <1>3 DEF E!StopsWriter, E!IntakeEnds, E!Route, PipeIsAsItWas,
         BlockIsAsItWas, E!incidentVars, E!anchorVars, E!tailVars, E!doneVars
<1>4. ASSUME NEW w \in E_Worker, E!KillTakes(w) \/ E!KillHands(w) \/ E!KillExits(w)
      PROVE  /\ PipeIsAsItWas /\ BlockIsAsItWas /\ E_stage' = E_stage
             /\ E_writer' = E_writer
  BY <1>4 DEF E!KillTakes, E!KillHands, E!KillExits, PipeIsAsItWas,
         BlockIsAsItWas, E!incidentVars, E!anchorVars, E!tailVars, E!doneVars
<1>5. /\ PipeIsAsItWas /\ BlockIsAsItWas /\ E_stage' = E_stage
      /\ E_writer' = E_writer
  BY <1>2, <1>3, <1>4 DEF E!IntakeStep
<1> QED BY <1>1, <1>5, BlocksRest

LEMMA StutterBlocks ==
  ASSUME BlocksInv, UNCHANGED E_vars
  PROVE  BlocksInv'
<1>1. OwedIsAsItWas /\ PipeIsAsItWas /\ BlockIsAsItWas /\ E_stage' = E_stage
      /\ E_writer' = E_writer
  BY DEF E_vars, OwedIsAsItWas, PipeIsAsItWas, BlockIsAsItWas
<1>2. OwedInv'
  BY <1>1, OwedStays DEF BlocksInv
<1> QED BY <1>1, <1>2, BlocksRest

\* An action that raised is remembered as failed.
LEMMA ReturnBlocks ==
  ASSUME EscalatorInv, BlocksInv, NEW w \in E_Worker, E!KillReturns(w)
  PROVE  BlocksInv'
<1>0. PICK q : q = E_worker[w].item.q
  OBVIOUS
<1>1. /\ PipeIsAsItWas /\ E_stage' = E_stage /\ E_writer' = E_writer
      /\ UNCHANGED <<E_anchors, E_marked, E_evicted, E_chain>>
  BY DEF E!KillReturns, PipeIsAsItWas, E!incidentVars, E!anchorVars, E!tailVars
<1>2. OwedInv' /\ q \in E!Q /\ E_settled[q] = 0
  BY <1>0, KillReturnsOwes DEF BlocksInv
<1>3. CASE UNCHANGED E!doneVars
  <2>1. BlockIsAsItWas
    BY <1>1, <1>3 DEF BlockIsAsItWas, E!doneVars
  <2> QED BY <1>1, <1>2, <2>1, BlocksRest
<1>4. CASE /\ E_failed' = E_failed \cup {q}
           /\ E_settled' = [E_settled EXCEPT ![q] = @ + 1]
  <2>1. /\ E_settled'[q] = 1
        /\ \A r \in E!Q : r # q => E_settled'[r] = E_settled[r]
    BY <1>2, <1>4 DEF BlocksInv, OwedInv, OwedTypes
  <2>2. /\ PipeTypes' /\ PipeInOrder'
        /\ \A r : (OwnDue(r)' <=> OwnDue(r)) /\ (Behind(r)' <=> Behind(r))
    BY <1>1, PipeStays DEF BlocksInv
  <2>3. \A r : /\ Written(r)' <=> Written(r)
               /\ Anchored(r)' <=> Anchored(r)
               /\ LastFor(r)' <=> LastFor(r)
               /\ WritesNow(r)' <=> WritesNow(r)
    BY <1>1 DEF Written, E!WrittenAs, Anchored, Has, LastFor, Kind, E!Thing, WritesNow
  <2>4. \A r \in E!Q : r # q => BlockOf(r)'
    BY <1>1, <1>4, <2>1, <2>2, <2>3, BlockStays DEF BlocksInv, WrittenInv
  <2>5. BlockOf(q)'
    <3>1. BlockOf(q)
      BY <1>2 DEF BlocksInv, WrittenInv
    <3> QED BY <1>1, <1>4, <2>1, <2>2, <2>3, <3>1 DEF BlockOf
  <2>6. BlockTypes'
    BY <1>1 DEF BlocksInv, WrittenInv, BlockTypes, Things, Kind, E!Thing
  <2> QED BY <1>2, <2>2, <2>4, <2>5, <2>6 DEF BlocksInv, WrittenInv
<1> QED BY <1>0, <1>3, <1>4 DEF E!KillReturns

\* What has closed, is settled or is at the writer is neither new nor open.
LEMMA NotYetClosed ==
  ASSUME EscalatorInv, BlocksInv, NEW q \in E!Q
  PROVE  /\ Has(E_closings, q) => E_stage[q] = "closed"
         /\ E_settled[q] = 1 \/ WritesNow(q) \/ Behind(q) \/ Written(q)
              => E_stage[q] = "closed"
<1>1. Has(E_closings, q) => E_stage[q] = "closed"
  BY DEF EscalatorInv, ClosedAre
<1>2. E_settled[q] = 1 \/ WritesNow(q) => Has(E_closings, q)
  BY DEF BlocksInv, OwedInv, PlaceOf, Held, Passed, AtWriter, WritesNow
<1>3. Behind(q) \/ Written(q) => E_settled[q] = 1
  BY DEF BlocksInv, WrittenInv, BlockOf
<1> QED BY <1>1, <1>2, <1>3

LEMMA DetectBlocks ==
  ASSUME EscalatorInv, BlocksInv, NEW q \in E!Q, E!Detect(q)
  PROVE  BlocksInv'
<1>1. /\ E_stage[q] = "none" /\ E_stage' = [E_stage EXCEPT ![q] = "queued"]
      /\ E_work' = Append(E_work, Kind("detection", q))
      /\ E_workLeft' = E_workLeft + 1
      /\ UNCHANGED <<E_deferring, E_drain, E_tail, E_tailer>>
      /\ OwedIsAsItWas /\ BlockIsAsItWas /\ E_writer' = E_writer
  BY DEF E!Detect, E!PutWork, Kind, OwedIsAsItWas, BlockIsAsItWas, E!anchorVars,
         E!tailVars, E!askVars, E!laneVars, E!doneVars
<1>2. /\ E_settled[q] # 1 /\ ~WritesNow(q) /\ ~Behind(q) /\ ~Written(q)
  BY <1>1, NotYetClosed
<1>3. E_stage \in [E!Q -> {"none", "queued", "open", "closed"}]
  BY DEF EscalatorInv, ClosedAre
<1>4. /\ PipeTypes' /\ PipeInOrder'
      /\ \A r : (OwnDue(r)' <=> OwnDue(r) \/ r = q) /\ (Behind(r)' <=> Behind(r))
  BY <1>1, <1>2, <1>3, DetectPipes DEF BlocksInv
<1>5. OwedInv'
  BY <1>1, OwedStays DEF BlocksInv
<1>6. \A r \in E!Q : r # q => E_stage'[r] = E_stage[r]
  BY <1>1, <1>3
<1>7. \A r : WritesNow(r)' <=> WritesNow(r)
  BY <1>1 DEF WritesNow
<1>8. \A r \in E!Q : r # q => BlockOf(r)'
  BY <1>1, <1>4, <1>6, <1>7, BlockIsKept, BlockStays
  DEF BlocksInv, WrittenInv, BlockIsAsItWas
<1>9. BlockOf(q)'
  <2>1. BlockOf(q) /\ E_stage'[q] = "queued"
    BY <1>1, <1>3 DEF BlocksInv, WrittenInv
  <2>2. ~Anchored(q) /\ q \notin E_marked
    BY <1>1, <2>1 DEF BlockOf
  <2> QED
    BY <1>1, <1>2, <1>4, <1>7, <2>1, <2>2, BlockIsKept DEF BlockOf, BlockIsAsItWas
<1>10. BlockTypes'
  BY <1>1 DEF BlocksInv, WrittenInv, BlockIsAsItWas, BlockTypes, Things, Kind, E!Thing
<1> QED BY <1>4, <1>5, <1>8, <1>9, <1>10 DEF BlocksInv, WrittenInv

LEMMA OpenBlocks ==
  ASSUME EscalatorInv, BlocksInv, NEW q \in E!Q, E!Open(q)
  PROVE  BlocksInv'
<1>0. PICK all, h : all = Append(E_anchors, q) /\ h = Head(all)
  OBVIOUS
<1>1. /\ E_stage[q] = "queued" /\ E_stage' = [E_stage EXCEPT ![q] = "open"]
      /\ E_anchors' = IF Len(all) > E_MaxAnchor THEN Tail(all) ELSE all
      /\ E_marked' = IF Len(all) > E_MaxAnchor THEN E_marked \ {h} ELSE E_marked
      /\ E_evicted' = IF Len(all) > E_MaxAnchor THEN E_evicted \cup {h} ELSE E_evicted
      /\ UNCHANGED <<E_chain, E_failed, E_settled, E_writer>>
      /\ PipeIsAsItWas /\ OwedIsAsItWas
  BY <1>0 DEF E!Open, PipeIsAsItWas, OwedIsAsItWas, E!tailVars, E!askVars, E!laneVars,
              E!doneVars
<1>2. /\ E_settled[q] # 1 /\ ~WritesNow(q) /\ ~Behind(q) /\ ~Written(q)
  BY <1>1, NotYetClosed
<1>3. E_stage \in [E!Q -> {"none", "queued", "open", "closed"}]
  BY DEF EscalatorInv, ClosedAre
<1>4. /\ E_stage'[q] = "open"
      /\ \A r \in E!Q : r # q => E_stage'[r] = E_stage[r]
  BY <1>1, <1>3
<1>5. E_anchors \in Seq(E!Q) /\ all \in Seq(E!Q) /\ all # <<>>
      /\ \A r : Has(all, r) <=> Anchored(r) \/ r = q
  <2>1. E_anchors \in Seq(E!Q)
    BY DEF BlocksInv, WrittenInv, BlockTypes
  <2>2. \A r : Has(all, r) <=> Has(E_anchors, r) \/ r = q
    BY <1>0, <2>1, AppendHas
  <2> QED BY <1>0, <2>1, <2>2 DEF Anchored
<1>6. PICK D : /\ E_evicted' = E_evicted \cup D /\ E_marked' = E_marked \ D
               /\ E_anchors' \in Seq(E!Q)
               /\ \A r : Anchored(r)' => Anchored(r) \/ r = q
               /\ \A r : r \notin D /\ (Anchored(r) \/ r = q) => Anchored(r)'
  <2>1. CASE Len(all) > E_MaxAnchor
    <3>1. /\ E_anchors' = Tail(all) /\ E_marked' = E_marked \ {h}
          /\ E_evicted' = E_evicted \cup {h}
      BY <1>1, <2>1
    <3>2. /\ \A r : Has(all, r) => r = h \/ Has(E_anchors', r)
          /\ \A r : Has(E_anchors', r) => Has(all, r)
          /\ E_anchors' \in Seq(E!Q)
      BY <1>0, <1>5, <3>1, TailHas, TailIs
    <3> QED BY <1>5, <3>1, <3>2 DEF Anchored
  <2>2. CASE ~(Len(all) > E_MaxAnchor)
    <3>1. /\ E_anchors' = all /\ E_marked' = E_marked \ {}
          /\ E_evicted' = E_evicted \cup {}
      BY <1>1, <2>2
    <3> QED BY <1>5, <3>1 DEF Anchored
  <2> QED BY <2>1, <2>2
<1>7. /\ PipeTypes' /\ PipeInOrder'
      /\ \A r : (OwnDue(r)' <=> OwnDue(r)) /\ (Behind(r)' <=> Behind(r))
  BY <1>1, <1>4, PipeStays DEF BlocksInv
<1>8. OwedInv'
  BY <1>1, OwedStays DEF BlocksInv
<1>9. \A r : /\ Written(r)' <=> Written(r)
             /\ LastFor(r)' <=> LastFor(r)
             /\ WritesNow(r)' <=> WritesNow(r)
  BY <1>1 DEF Written, E!WrittenAs, LastFor, Kind, E!Thing, WritesNow
<1>10. ASSUME NEW r \in E!Q, r # q PROVE BlockOf(r)'
  <2>1. BlockOf(r)
    BY DEF BlocksInv, WrittenInv
  <2>2. CASE r \in D
    BY <1>1, <1>4, <1>6, <1>7, <1>9, <1>10, <2>1, <2>2 DEF BlockOf
  <2>3. CASE r \notin D
    <3>1. (Anchored(r)' <=> Anchored(r)) /\ (r \in E_marked' => r \in E_marked)
          /\ (r \in E_evicted => r \in E_evicted')
      BY <1>6, <1>10, <2>3
    <3> QED BY <1>1, <1>4, <1>7, <1>9, <1>10, <2>1, <3>1, BlockStays
  <2> QED BY <2>2, <2>3
<1>11. BlockOf(q)'
  <2>1. BlockOf(q)
    BY DEF BlocksInv, WrittenInv
  <2>2. q \notin E_marked'
    BY <1>1, <1>6, <2>1 DEF BlockOf
  <2>3. q \notin E_evicted' => q \notin E_evicted /\ Anchored(q)'
    BY <1>6
  <2> QED BY <1>1, <1>2, <1>4, <1>7, <1>9, <2>1, <2>2, <2>3 DEF BlockOf
<1>12. BlockTypes'
  BY <1>1, <1>6 DEF BlocksInv, WrittenInv, BlockTypes, Things, Kind, E!Thing
<1> QED BY <1>7, <1>8, <1>10, <1>11, <1>12 DEF BlocksInv, WrittenInv

LEMMA CloseBlocks ==
  ASSUME EscalatorInv, BlocksInv, NEW q \in E!Q, NEW p \in E_Pid \cup {E_NoPid},
         E!Close(q, p)
  PROVE  BlocksInv'
<1>1. /\ E_stage[q] = "open" /\ E_stage' = [E_stage EXCEPT ![q] = "closed"]
      /\ PipeIsAsItWas /\ BlockIsAsItWas
      /\ E_writer' = E_writer \/ E_writer' = E!Up
  BY DEF E!Close, PipeIsAsItWas, BlockIsAsItWas, E!anchorVars, E!tailVars, E!doneVars
<1>2. OwedInv'
  BY CloseOwes DEF BlocksInv
<1>3. /\ E_stage'[q] = "closed"
      /\ \A r \in E!Q : r # q => E_stage'[r] = E_stage[r]
  BY <1>1 DEF EscalatorInv, ClosedAre
<1>4. /\ PipeTypes' /\ PipeInOrder'
      /\ \A r : (OwnDue(r)' <=> OwnDue(r)) /\ (Behind(r)' <=> Behind(r))
  BY <1>1, <1>3, PipeStays DEF BlocksInv
<1>5. \A r : WritesNow(r)' => WritesNow(r)
  BY <1>1 DEF WritesNow, E!Up
<1>6. \A r \in E!Q : r # q => BlockOf(r)'
  BY <1>1, <1>3, <1>4, <1>5, BlockIsKept, BlockStays
  DEF BlocksInv, WrittenInv, BlockIsAsItWas
<1>7. BlockOf(q)'
  <2>1. BlockOf(q)
    BY DEF BlocksInv, WrittenInv
  <2> QED BY <1>1, <1>3, <1>4, <1>5, <2>1, BlockIsKept DEF BlockOf, BlockIsAsItWas
<1>8. BlockTypes'
  BY <1>1 DEF BlocksInv, WrittenInv, BlockIsAsItWas, BlockTypes, Things, Kind, E!Thing
<1> QED BY <1>2, <1>4, <1>6, <1>7, <1>8 DEF BlocksInv, WrittenInv

\* A detection or its last blocks move on: nothing is written.
LEMMA MoveBlocks ==
  ASSUME EscalatorInv, BlocksInv, E!DrainTakes \/ E!DrainHands \/ E!TailTakes
  PROVE  BlocksInv'
<1>1. /\ OwedIsAsItWas /\ BlockIsAsItWas /\ E_writer' = E_writer /\ E_stage' = E_stage
  BY DEF E!DrainTakes, E!DrainHands, E!TailTakes, OwedIsAsItWas, BlockIsAsItWas,
         E!incidentVars, E!anchorVars, E!askVars, E!laneVars, E!doneVars
<1>2. /\ PipeTypes' /\ PipeInOrder'
      /\ \A r : (OwnDue(r)' <=> OwnDue(r)) /\ (Behind(r)' <=> Behind(r))
  BY TakePipes, HandPipes, TailTakePipes DEF BlocksInv
<1>3. OwedInv'
  BY <1>1, OwedStays DEF BlocksInv
<1>4. \A r : WritesNow(r)' <=> WritesNow(r)
  BY <1>1 DEF WritesNow
<1>5. \A r \in E!Q : BlockOf(r)'
  BY <1>1, <1>2, <1>4, BlockIsKept, BlockStays DEF BlocksInv, WrittenInv, BlockIsAsItWas
<1>6. BlockTypes'
  BY <1>1 DEF BlocksInv, WrittenInv, BlockIsAsItWas, BlockTypes, Things, Kind, E!Thing
<1> QED BY <1>2, <1>3, <1>5, <1>6 DEF BlocksInv, WrittenInv

\* An incident's own block: its escalation has not been written.
LEMMA OwnIsWritten ==
  ASSUME BlocksInv, NEW q \in E!Q, E!Write("own", q), PipeTypes', PipeInOrder',
         OwnDue(q), \A r : OwnDue(r)' => OwnDue(r), \A r : Behind(r)' <=> Behind(r),
         OwedIsAsItWas,
         UNCHANGED <<E_stage, E_anchors, E_evicted, E_failed, E_writer>>,
         \A r : r \in E_marked' => r \in E_marked \/ (Anchored(r) /\ ~OwnDue(r)')
  PROVE  BlocksInv'
<1>1. BlockTypes /\ E_settled' = E_settled
  BY DEF BlocksInv, WrittenInv, OwedIsAsItWas
<1>2. /\ E_chain' \in Seq(Things({"own", "escalation"}))
      /\ \A r : Written(r)' <=> Written(r)
      /\ \A r : r # q /\ LastFor(r) => LastFor(r)'
      /\ ~Written(q) => LastFor(q)'
  BY <1>1, ChainGrows DEF BlockTypes
<1>3. \A r : (WritesNow(r)' <=> WritesNow(r)) /\ (Anchored(r)' <=> Anchored(r))
  BY DEF WritesNow, Anchored, Has
<1>4. q \notin E_evicted => ~Written(q)
  BY DEF BlocksInv, WrittenInv, BlockOf
<1>5. \A r : r \notin E_evicted /\ LastFor(r) => LastFor(r)'
  BY <1>2, <1>4
<1>6. \A r \in E!Q : BlockOf(r)'
  BY <1>1, <1>2, <1>3, <1>5, BlockStays DEF BlocksInv, WrittenInv
<1>7. E_marked' \subseteq E!Q
  <2>1. \A r : Anchored(r) => r \in E!Q
    BY <1>1 DEF BlockTypes, Anchored, Has
  <2> QED BY <1>1, <2>1 DEF BlockTypes
<1>8. BlockTypes'
  <2>1. E_anchors' \in Seq(E!Q)
    BY <1>1 DEF BlockTypes
  <2> QED BY <1>2, <1>7, <2>1 DEF BlockTypes, Things, Kind, E!Thing
<1>9. OwedInv'
  BY OwedStays DEF BlocksInv
<1> QED BY <1>6, <1>8, <1>9 DEF BlocksInv, WrittenInv

\* An escalation block that was queued behind its incident's own.
LEMMA EscalationIsWritten ==
  ASSUME EscalatorInv, BlocksInv, NEW q \in E!Q, E!WriteEscalation(q),
         PipeTypes', PipeInOrder', Behind(q), ~OwnDue(q),
         \A r : OwnDue(r)' <=> OwnDue(r), \A r : Behind(r)' <=> Behind(r) /\ r # q,
         OwedIsAsItWas, UNCHANGED <<E_stage, E_evicted, E_writer>>
  PROVE  BlocksInv'
<1>1. BlockTypes /\ E_settled' = E_settled /\ BlockOf(q)
  BY DEF BlocksInv, WrittenInv, OwedIsAsItWas
<1>2. /\ E_anchors' \in Seq(E!Q) /\ E_marked' = E_marked \ {q}
      /\ \A r : r # q => (Anchored(r)' <=> Anchored(r))
      /\ Anchored(q)' => Anchored(q)
  BY <1>1, ForgetIs DEF E!WriteEscalation, BlockTypes
<1>3. /\ E_chain' \in Seq(Things({"own", "escalation"}))
      /\ \A r : r # q => (Written(r)' <=> Written(r)) /\ (LastFor(r) => LastFor(r)')
      /\ \A r : r \in E_failed => r \in E_failed'
      /\ q \notin E_evicted => LastFor(q)'
      /\ Written(q)' \/ q \in E_failed'
  <2>1. q \notin E_evicted => ~Written(q) /\ LastFor(q)
    BY <1>1 DEF BlockOf
  <2>2. CASE E!Write("escalation", q) /\ UNCHANGED E_failed
    BY <1>1, <2>1, <2>2, ChainGrows DEF BlockTypes
  <2>3. CASE E_failed' = E_failed \cup {q} /\ UNCHANGED E_chain
    BY <1>1, <2>1, <2>3
    DEF BlockTypes, Written, E!WrittenAs, LastFor, Kind, E!Thing, Things
  <2> QED BY <2>2, <2>3 DEF E!WriteEscalation
<1>4. \A r : WritesNow(r)' <=> WritesNow(r)
  BY DEF WritesNow
<1>5. \A r \in E!Q : r # q => BlockOf(r)'
  BY <1>1, <1>2, <1>3, <1>4, BlockStays DEF BlocksInv, WrittenInv
<1>6. BlockOf(q)'
  <2>1. E_settled[q] = 1 /\ E_stage[q] = "closed"
    BY <1>1, NotYetClosed DEF BlockOf
  <2> QED BY <1>1, <1>2, <1>3, <1>4, <2>1 DEF BlockOf
<1>7. BlockTypes'
  BY <1>1, <1>2, <1>3 DEF BlockTypes, Things, Kind, E!Thing
<1>8. OwedInv'
  BY OwedStays DEF BlocksInv
<1> QED BY <1>5, <1>6, <1>7, <1>8 DEF BlocksInv, WrittenInv

LEMMA RunBlocks ==
  ASSUME EscalatorInv, BlocksInv, E!DrainRuns
  PROVE  BlocksInv'
<1>0. PICK q : q = E_drain.item.q
  OBVIOUS
<1>1. /\ E!Write("own", q) /\ OwedIsAsItWas
      /\ UNCHANGED <<E_stage, E_anchors, E_evicted, E_failed, E_writer>>
  BY <1>0 DEF E!DrainRuns, OwedIsAsItWas, E!incidentVars, E!laneVars, E!askVars,
              E!doneVars
<1>2. /\ PipeTypes' /\ PipeInOrder' /\ q \in E!Q /\ OwnDue(q)
      /\ \A r : (OwnDue(r)' => OwnDue(r)) /\ (Behind(r)' <=> Behind(r))
      /\ E_drain' = E!Idle => ~OwnDue(q)'
  BY <1>0, RunPipes DEF BlocksInv
<1>3. \A r : r \in E_marked' => r \in E_marked \/ (Anchored(r) /\ ~OwnDue(r)')
  <2>1. CASE UNCHANGED E_marked
    BY <2>1
  <2>2. CASE E_drain' = E!Idle /\ E!Mark(q)
    BY <1>2, <2>2, AnchoredIs DEF E!Mark
  <2> QED BY <1>0, <2>1, <2>2 DEF E!DrainRuns, E!MarksOnlyWhenWritten
<1> QED BY <1>1, <1>2, <1>3, OwnIsWritten

LEMMA RecordBlocks ==
  ASSUME EscalatorInv, BlocksInv, E!DrainRecords
  PROVE  BlocksInv'
<1>0. PICK q : q = E_drain.item.q
  OBVIOUS
<1>1. /\ E!WriteEscalation(q) /\ OwedIsAsItWas
      /\ UNCHANGED <<E_stage, E_evicted, E_writer>>
  BY <1>0 DEF E!DrainRecords, OwedIsAsItWas, E!incidentVars, E!laneVars, E!askVars
<1>2. /\ PipeTypes' /\ PipeInOrder' /\ q \in E!Q /\ Behind(q) /\ ~OwnDue(q)
      /\ \A r : OwnDue(r)' <=> OwnDue(r)
      /\ \A r : Behind(r)' <=> Behind(r) /\ r # q
  BY <1>0, RecordPipes DEF BlocksInv
<1> QED BY <1>1, <1>2, EscalationIsWritten

LEMMA TailWriteBlocks ==
  ASSUME EscalatorInv, BlocksInv, E!TailWrites
  PROVE  BlocksInv'
<1>0. PICK q : q = E_tailer.item.q
  OBVIOUS
<1>1. /\ OwedIsAsItWas /\ UNCHANGED <<E_stage, E_evicted, E_writer>>
  BY DEF E!TailWrites, OwedIsAsItWas, E!incidentVars, E!laneVars, E!askVars
<1>2. /\ PipeTypes' /\ PipeInOrder' /\ q \in E!Q
      /\ E_tailer.item.kind = "blocks" =>
           /\ OwnDue(q) /\ \A r : OwnDue(r)' <=> OwnDue(r) /\ r # q
           /\ \A r : Behind(r)' <=> Behind(r)
      /\ E_tailer.item.kind = "escalation" =>
           /\ Behind(q) /\ ~OwnDue(q)
           /\ \A r : OwnDue(r)' <=> OwnDue(r)
           /\ \A r : Behind(r)' <=> Behind(r) /\ r # q
  BY <1>0, TailWritePipes DEF BlocksInv
<1>3. CASE /\ E_tailer.item.kind = "blocks" /\ E!Write("own", q)
           /\ UNCHANGED <<E_anchors, E_marked, E_failed>>
  BY <1>1, <1>2, <1>3, OwnIsWritten
<1>4. CASE E_tailer.item.kind = "escalation" /\ E!WriteEscalation(q)
  BY <1>1, <1>2, <1>4, EscalationIsWritten
<1> QED BY <1>0, <1>3, <1>4 DEF E!TailWrites

LEMMA TailSettleBlocks ==
  ASSUME EscalatorInv, BlocksInv, E!TailSettles
  PROVE  BlocksInv'
<1>0. PICK q : q = E_tailer.item.q
  OBVIOUS
<1>1. /\ OwedIsAsItWas
      /\ UNCHANGED <<E_stage, E_anchors, E_evicted, E_chain, E_failed, E_settled,
                     E_writer>>
  BY DEF E!TailSettles, OwedIsAsItWas, E!incidentVars, E!laneVars, E!askVars,
         E!doneVars
<1>2. /\ PipeTypes' /\ PipeInOrder' /\ q \in E!Q
      /\ E_tailer.item.kind = "blocks" => ~OwnDue(q)
      /\ \A r : (OwnDue(r)' <=> OwnDue(r)) /\ (Behind(r)' <=> Behind(r))
  BY <1>0, TailSettlePipes DEF BlocksInv
<1>3. \A r : r \in E_marked' => r \in E_marked \/ (Anchored(r) /\ ~OwnDue(r)')
  <2>1. CASE UNCHANGED E_marked
    BY <2>1
  <2>2. CASE E_tailer.item.kind = "blocks" /\ E!Mark(q)
    BY <1>2, <2>2, AnchoredIs DEF E!Mark
  <2> QED BY <1>0, <2>1, <2>2 DEF E!TailSettles
<1>4. \A r : /\ Written(r)' <=> Written(r)
             /\ Anchored(r)' <=> Anchored(r)
             /\ LastFor(r)' <=> LastFor(r)
             /\ WritesNow(r)' <=> WritesNow(r)
  BY <1>1 DEF Written, E!WrittenAs, Anchored, Has, LastFor, Kind, E!Thing, WritesNow
<1>5. \A r \in E!Q : BlockOf(r)'
  BY <1>1, <1>2, <1>3, <1>4, BlockStays DEF BlocksInv, WrittenInv
<1>6. BlockTypes'
  <2>1. \A r : Anchored(r) => r \in E!Q
    BY DEF BlocksInv, WrittenInv, BlockTypes, Anchored, Has
  <2>2. E_marked' \subseteq E!Q
    BY <1>3, <2>1 DEF BlocksInv, WrittenInv, BlockTypes
  <2> QED BY <1>1, <2>2 DEF BlocksInv, WrittenInv, BlockTypes, Things, Kind, E!Thing
<1>7. OwedInv'
  BY <1>1, OwedStays DEF BlocksInv
<1> QED BY <1>2, <1>5, <1>6, <1>7 DEF BlocksInv, WrittenInv

LEMMA WriterTakesBlocks ==
  ASSUME EscalatorInv, BlocksInv, E!WriterTakes
  PROVE  BlocksInv'
<1>1. PipeIsAsItWas /\ BlockIsAsItWas /\ E_stage' = E_stage
  BY DEF E!WriterTakes, PipeIsAsItWas, BlockIsAsItWas, E!incidentVars, E!anchorVars,
         E!tailVars, E!doneVars
<1>2. /\ OwedInv'
      /\ \A r \in E!Q : WritesNow(r)' =>
           E_settled[r] = 0 /\ Has(E_closings, r) /\ E!InChain(r)
  BY WriterTakesOwes DEF BlocksInv
<1>3. /\ PipeTypes' /\ PipeInOrder'
      /\ \A q : (OwnDue(q)' <=> OwnDue(q)) /\ (Behind(q)' <=> Behind(q))
  BY <1>1, PipeStays DEF BlocksInv
<1>4. ASSUME NEW r \in E!Q, r \notin E_evicted, WritesNow(r)' PROVE ~OwnDue(r)
  <2>1. E_stage[r] = "closed" /\ E_settled[r] = 0 /\ E!InChain(r)
    BY <1>2, <1>4, NotYetClosed
  <2>2. BlockOf(r)
    BY DEF BlocksInv, WrittenInv
  <2>3. Anchored(r) /\ r \in E_marked
    BY <1>4, <2>1, <2>2, AnchoredIs DEF BlockOf, E!InChain
  <2> QED BY <2>2, <2>3 DEF BlockOf
<1>5. \A r \in E!Q : BlockOf(r)'
  BY <1>1, <1>3, <1>4, BlockIsKept, BlockStays DEF BlocksInv, WrittenInv, BlockIsAsItWas
<1>6. BlockTypes'
  BY <1>1 DEF BlocksInv, WrittenInv, BlockIsAsItWas, BlockTypes, Things, Kind, E!Thing
<1> QED BY <1>2, <1>3, <1>5, <1>6 DEF BlocksInv, WrittenInv

\* What the writer does with a question whose block is not yet written.
LEMMA WriterBlocks ==
  ASSUME EscalatorInv, BlocksInv, E!WriterWrites \/ E!WriterQueues
  PROVE  BlocksInv'
<1>0. PICK q : q = E_writer.item.q
  OBVIOUS
<1>1. /\ OwedInv' /\ q \in E!Q /\ AtWriter(q) /\ E_settled[q] = 0
      /\ E_settled' = [E_settled EXCEPT ![q] = 1]
      /\ \A r : ~WritesNow(r)'
  BY <1>0, WriterSettlesOwes DEF BlocksInv
<1>2. /\ E_settled'[q] = 1 /\ \A r \in E!Q : r # q => E_settled'[r] = E_settled[r]
  BY <1>1 DEF BlocksInv, OwedInv, OwedTypes
<1>3. BlockTypes /\ BlockOf(q) /\ ~Behind(q) /\ ~Written(q) /\ E_stage[q] = "closed"
  <2>1. BlockOf(q) /\ ~Behind(q) /\ ~Written(q)
    BY <1>1 DEF BlocksInv, WrittenInv, BlockOf
  <2>2. Has(E_closings, q)
    BY <1>1 DEF BlocksInv, OwedInv, PlaceOf, Held, Passed
  <2> QED BY <1>1, <2>1, <2>2, NotYetClosed DEF BlocksInv, WrittenInv
<1>4. E_stage' = E_stage /\ E_evicted' = E_evicted
  BY DEF E!WriterWrites, E!WriterQueues, E!incidentVars, E!anchorVars
<1>5. CASE E!WriterWrites
  <2>1. PipeIsAsItWas /\ WritesNow(q)
    BY <1>0, <1>5 DEF E!WriterWrites, PipeIsAsItWas, E!incidentVars, E!tailVars, WritesNow
  <2>2. /\ PipeTypes' /\ PipeInOrder'
        /\ \A r : (OwnDue(r)' <=> OwnDue(r)) /\ (Behind(r)' <=> Behind(r))
    BY <1>4, <2>1, PipeStays DEF BlocksInv
  <2>3. /\ E_anchors' \in Seq(E!Q) /\ E_marked' \subseteq E_marked
        /\ \A r : r # q => (Anchored(r)' <=> Anchored(r))
        /\ Anchored(q)' => Anchored(q)
        /\ q \in E_marked' => (Anchored(q)' <=> Anchored(q))
    <3>1. CASE E!Forget(q)
      BY <1>3, <3>1, ForgetIs DEF BlockTypes
    <3>2. CASE UNCHANGED <<E_anchors, E_marked>>
      BY <1>3, <3>2 DEF BlockTypes, Anchored, Has
    <3> QED BY <1>0, <1>5, <3>1, <3>2 DEF E!WriterWrites, E!WriteEscalation, E!EscalateOne
  <2>4. /\ E_chain' \in Seq(Things({"own", "escalation"}))
        /\ \A r : r # q => (Written(r)' <=> Written(r)) /\ (LastFor(r) => LastFor(r)')
        /\ \A r : r \in E_failed => r \in E_failed'
        /\ q \notin E_evicted => LastFor(q)'
        /\ Written(q)' \/ q \in E_failed'
    <3>1. q \notin E_evicted => LastFor(q)
      BY <1>3 DEF BlockOf
    <3>2. CASE E!Write("escalation", q) /\ UNCHANGED E_failed
      BY <1>1, <1>3, <3>2, ChainGrows DEF BlockTypes
    <3>3. CASE E_failed' = E_failed \cup {q} /\ UNCHANGED E_chain
      BY <1>3, <3>1, <3>3
      DEF BlockTypes, Written, E!WrittenAs, LastFor, Kind, E!Thing, Things
    <3> QED BY <1>0, <1>5, <3>2, <3>3 DEF E!WriterWrites, E!WriteEscalation, E!EscalateOne
  <2>5. \A r \in E!Q : r # q => BlockOf(r)'
    BY <1>1, <1>2, <1>4, <2>2, <2>3, <2>4, BlockStays DEF BlocksInv, WrittenInv
  <2>6. BlockOf(q)'
    <3>1. q \notin E_evicted => ~OwnDue(q)
      BY <1>3, <2>1 DEF BlockOf
    <3> QED BY <1>1, <1>2, <1>3, <1>4, <2>2, <2>3, <2>4, <3>1 DEF BlockOf
  <2>7. BlockTypes'
    BY <1>3, <2>3, <2>4 DEF BlockTypes, Things, Kind, E!Thing
  <2> QED BY <1>1, <2>2, <2>5, <2>6, <2>7 DEF BlocksInv, WrittenInv
<1>6. CASE E!WriterQueues
  <2>1. UNCHANGED <<E_anchors, E_marked, E_chain, E_deferring, E_drain, E_tail,
                    E_tailer, E_stage>>
    BY <1>6 DEF E!WriterQueues, E!incidentVars, E!anchorVars, E!tailVars
  <2>2. /\ PipeTypes' /\ PipeInOrder'
        /\ \A r : OwnDue(r)' <=> OwnDue(r)
        /\ \A r : r # q => (Behind(r)' <=> Behind(r))
        /\ Behind(q)' \/ q \in E_failed'
        /\ \A r : r \in E_failed => r \in E_failed'
    <3>1. CASE E!PutWork("escalation", q) /\ UNCHANGED E_failed
      <4>1. E_work' = Append(E_work, Kind("escalation", q))
            /\ E_workLeft' = E_workLeft + 1
        BY <3>1 DEF E!PutWork, Kind
      <4> QED BY <1>1, <1>3, <2>1, <3>1, <4>1, QueuePipes DEF BlocksInv
    <3>2. CASE E_failed' = E_failed \cup {q} /\ UNCHANGED <<E_work, E_workLeft>>
      <4>1. PipeIsAsItWas
        BY <2>1, <3>2 DEF PipeIsAsItWas
      <4> QED BY <2>1, <3>2, <4>1, PipeStays DEF BlocksInv
    <3> QED BY <1>0, <1>6, <3>1, <3>2 DEF E!WriterQueues
  <2>3. \A r : /\ Written(r)' <=> Written(r)
               /\ Anchored(r)' <=> Anchored(r)
               /\ LastFor(r)' <=> LastFor(r)
    BY <2>1 DEF Written, E!WrittenAs, Anchored, Has, LastFor, Kind, E!Thing
  <2>4. \A r \in E!Q : r # q => BlockOf(r)'
    BY <1>1, <1>2, <1>4, <2>1, <2>2, <2>3, BlockStays DEF BlocksInv, WrittenInv
  <2>5. BlockOf(q)'
    BY <1>1, <1>2, <1>3, <1>4, <2>1, <2>2, <2>3 DEF BlockOf
  <2>6. BlockTypes'
    BY <1>3, <2>1 DEF BlockTypes, Things, Kind, E!Thing
  <2> QED BY <1>1, <2>2, <2>4, <2>5, <2>6 DEF BlocksInv, WrittenInv
<1> QED BY <1>5, <1>6

LEMMA BlocksStart == E!Init => BlocksInv
<1> SUFFICES ASSUME E!Init PROVE BlocksInv
  OBVIOUS
<1>1. /\ E_deferring \in BOOLEAN /\ E_work = <<>> /\ E_tail = <<>> /\ E_workLeft = 0
      /\ E_drain = E!Idle /\ E_tailer = E!Idle /\ E_inbox = <<>> /\ E_owed = <<>>
      /\ E_intake = "up" /\ E_writer = E!Up /\ E_worker = [w \in E_Worker |-> E!Up]
      /\ E_chain = <<>> /\ E_settled = [q \in E!Q |-> 0]
      /\ E_closings = <<>> /\ E_anchors = <<>> /\ E_marked = {}
      /\ E_stage = [q \in E!Q |-> "none"]
  BY DEF E!Init
<1>2. /\ \A S : <<>> \in Seq(S)
      /\ DOMAIN E_work = {} /\ DOMAIN E_tail = {} /\ DOMAIN E_owed = {}
      /\ DOMAIN E_chain = {} /\ DOMAIN E_anchors = {} /\ DOMAIN E_closings = {}
      /\ Len(E_work) = 0 /\ Len(E_tail) = 0
  BY <1>1
<1>3. /\ E!Idle.st = "idle" /\ E!Idle.item = E!Nothing /\ E!Up.st = "up" /\ E!Up # E!Gone
      /\ \A q : E!Nothing # Kind("blocks", q)
  BY DEF E!Idle, E!Up, E!Gone, E!Nothing, Kind, E!Thing
<1>4. /\ \A k, q : ~InWork(k, q) /\ ~InDrain(k, q) /\ ~InTail(k, q) /\ ~InTailer(k, q)
  BY <1>1, <1>2, <1>3 DEF InWork, InDrain, InTail, InTailer, Has
<1>5. \A q : ~OwnDue(q) /\ ~Behind(q)
  BY <1>4 DEF OwnDue, Behind
<1>6. PipeTypes
  <2>1. One(Busy(E_drain)) = 0 /\ One(Busy(E_tailer)) = 0
    BY <1>1, <1>3 DEF One, Busy
  <2> QED BY <1>1, <1>2, <2>1 DEF PipeTypes
<1>7. PipeInOrder
  <2>1. \A q \in E!Q : PipeOf(q)
    BY <1>1, <1>2, <1>3, <1>4, <1>5 DEF PipeOf, InTurn
  <2> QED BY <1>2, <2>1 DEF PipeInOrder, Once
<1>8. OwedTypes /\ OwedOnce /\ SentinelIsLast
  <2>1. E_owed \in Seq(Things({"record", "escalate"}) \cup {E!Nothing})
    BY <1>1, <1>2
  <2>2. \A w \in E_Worker : E_worker[w] = E!Up
    BY <1>1
  <2>3. E_settled \in [E!Q -> {0, 1}]
    BY <1>1
  <2> QED BY <1>1, <1>2, <1>3, <2>1, <2>2, <2>3 DEF OwedTypes, OwedOnce, SentinelIsLast
<1>9. \A q \in E!Q : PlaceOf(q)
  <2>1. \A q : ~InOwed(q) /\ ~AtWriter(q) /\ ~Has(E_closings, q)
               /\ \A w \in E_Worker : ~AtWorker(w, q)
    BY <1>1, <1>2, <1>3 DEF InOwed, AtWriter, AtWorker, Has
  <2>2. \A q \in E!Q : E_settled[q] # 1
    BY <1>1
  <2> QED BY <2>1, <2>2 DEF PlaceOf, Held
<1>10. WrittenInv
  <2>1. \A q : ~Anchored(q) /\ ~Written(q) /\ ~WritesNow(q) /\ LastFor(q)
    BY <1>1, <1>2, <1>3 DEF Anchored, Has, Written, E!WrittenAs, WritesNow, LastFor
  <2>2. \A q \in E!Q : E_settled[q] = 0 /\ E_stage[q] = "none"
    BY <1>1
  <2>3. \A q \in E!Q : BlockOf(q)
    BY <1>1, <1>5, <2>1, <2>2 DEF BlockOf
  <2> QED BY <1>1, <1>2, <2>3 DEF WrittenInv, BlockTypes
<1> QED BY <1>6, <1>7, <1>8, <1>9, <1>10 DEF BlocksInv, OwedInv

LEMMA BlocksStep ==
  EscalatorInv /\ BlocksInv /\ (E!Next \/ UNCHANGED E_vars) => BlocksInv'
<1>1. ASSUME EscalatorInv, BlocksInv, E!DrainStep \/ E!TailStep PROVE BlocksInv'
  BY <1>1, MoveBlocks, RunBlocks, RecordBlocks, TailWriteBlocks, TailSettleBlocks
  DEF E!DrainStep, E!TailStep
<1>2. ASSUME EscalatorInv, BlocksInv, E!WriterStep PROVE BlocksInv'
  BY <1>2, WriterTakesBlocks, WriterBlocks DEF E!WriterStep
<1>3. ASSUME EscalatorInv, BlocksInv, E!LaneStep \/ E!CloseStep PROVE BlocksInv'
  BY <1>3, DetectBlocks, OpenBlocks, CloseBlocks DEF E!LaneStep, E!CloseStep
<1>4. ASSUME EscalatorInv, BlocksInv, NEW w \in E_Worker, E!KillStep(w)
      PROVE  BlocksInv'
  BY <1>4, QuietSteps, ReturnBlocks DEF E!KillStep
<1>5. ASSUME EscalatorInv, BlocksInv, E!StopAsked \/ E!IntakeStep PROVE BlocksInv'
  BY <1>5, QuietSteps
<1> QED BY <1>1, <1>2, <1>3, <1>4, <1>5, StutterBlocks DEF E!Next

\* What the run checks follows from where each block is.
LEMMA BlocksTell ==
  EscalatorInv /\ BlocksInv => E!EscalationFollowsIncident /\ E!SettledIsWritten
<1> SUFFICES ASSUME EscalatorInv, BlocksInv
             PROVE  E!EscalationFollowsIncident /\ E!SettledIsWritten
  OBVIOUS
<1>1. E!EscalationFollowsIncident
  <2>1. \A q \in E!Q \ E_evicted : LastFor(q)
    BY DEF BlocksInv, WrittenInv, BlockOf
  <2> QED BY <2>1 DEF E!EscalationFollowsIncident, LastFor, Kind
<1>2. ASSUME NEW q \in E!Q
      PROVE  /\ E_settled[q] \in {0, 1}
             /\ E_settled[q] = 1 =>
                  \/ q \in E_failed \/ E!WrittenAs("escalation", q)
                  \/ E!OnItsWay("escalation", q)
  <2>1. Behind(q) => E!OnItsWay("escalation", q)
    BY DEF Behind, InWork, InDrain, InTail, InTailer, Has, E!OnItsWay, E!ToSet, Kind
  <2>2. E_settled[q] = 1 => q \in E_failed \/ Written(q) \/ Behind(q)
    BY DEF BlocksInv, WrittenInv, BlockOf
  <2>3. E_settled[q] \in {0, 1}
    BY DEF BlocksInv, OwedInv, OwedTypes
  <2> QED BY <2>1, <2>2, <2>3 DEF Written
<1>3. E_workLeft = 0 <=>
        E_work = <<>> /\ E_tail = <<>> /\ E_drain = E!Idle /\ E_tailer = E!Idle
  <2>1. /\ E_workLeft = Len(E_work) + Len(E_tail) + One(Busy(E_drain))
                        + One(Busy(E_tailer))
        /\ Len(E_work) \in Nat /\ Len(E_tail) \in Nat
        /\ E_work = <<>> <=> Len(E_work) = 0
        /\ E_tail = <<>> <=> Len(E_tail) = 0
    BY EmptySeq DEF BlocksInv, PipeTypes
  <2>2. /\ E_drain = E!Idle <=> ~Busy(E_drain)
        /\ E_tailer = E!Idle <=> ~Busy(E_tailer)
    BY PipePlaces DEF BlocksInv, Busy, E!Idle
  <2>3. /\ One(Busy(E_drain)) \in Nat
        /\ One(Busy(E_drain)) = 0 <=> ~Busy(E_drain)
    BY DEF One
  <2>4. /\ One(Busy(E_tailer)) \in Nat
        /\ One(Busy(E_tailer)) = 0 <=> ~Busy(E_tailer)
    BY DEF One
  <2> QED BY <2>1, <2>2, <2>3, <2>4
<1>4. ASSUME E_intake = "gone"
      PROVE  /\ \A w \in E_Worker : E_worker[w] = E!Gone
             /\ E_writer = E!Gone /\ E_owed = <<>>
             /\ \A p \in E_Pid : E_lanes[p] = <<>>
             /\ \A q \in E!Q : E_stage[q] = "closed" =>
                  E_settled[q] = 1 \/ q \in E!ToSet(E_inbox)
  <2>1. /\ E_writer = E!Gone /\ E_owed = <<>>
    BY <1>4 DEF BlocksInv, OwedInv, SentinelIsLast
  <2>2. /\ \A w \in E_Worker : E_worker[w] = E!Gone
        /\ \A p \in E_Pid : E_lanes[p] = <<>>
    BY <1>4, GoneLeavesNothing
  <2>3. \A q : ~Held(q) /\ ~InLane(q)
    BY <2>1, <2>2 DEF Held, AtWorker, InOwed, AtWriter, InLane, Has, E!Gone
  <2>4. \A q \in E!Q : E_stage[q] = "closed" => E_settled[q] = 1 \/ Has(E_inbox, q)
    BY <2>3 DEF BlocksInv, OwedInv, PlaceOf, EscalatorInv, ClosedAre
  <2> QED BY <2>1, <2>2, <2>4 DEF E!ToSet, Has
<1>5. E!SettledIsWritten
  <2>1. \A q \in E!Q : E_settled[q] <= 1
    BY <1>2
  <2> QED BY <1>2, <1>3, <1>4, <2>1 DEF E!SettledIsWritten
<1> QED BY <1>1, <1>5

\* A question that has closed is at one place of the escalator or settled, its
\* block is written, queued behind its incident's own or failed, and never
\* before them; a stopped escalator has left no question behind (app.py
\* _Escalator, _escalate_one, _run_tail).
THEOREM BlocksAreInOrder == MonitorSpec => []BlocksFollow
<1> DEFINE Inv == part = "escalation" => EscalatorInv /\ BlocksInv
<1>1. MonitorInit => Inv
  BY EscalatorInit, BlocksStart DEF MonitorInit
<1>2. Inv /\ [MonitorNext]_monitorVars => Inv'
  BY EscalatorStep, BlocksStep
  DEF MonitorNext, monitorVars, L_others, I_others, E_others, W_others, K_others
<1>3. Inv => BlocksFollow
  BY BlocksTell DEF BlocksFollow
<1> QED BY <1>1, <1>2, <1>3, PTL DEF MonitorSpec
===============================================================================
