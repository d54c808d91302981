---------------------------- MODULE ServicesProofs ----------------------------
(***************************************************************************)
(* Parts of MCServices, for every value of their constants: the gate       *)
(* freezes only the process that wrote, a rule is only earned, one watch   *)
(* at most sends its events, and a content has one score wherever it is    *)
(* shown.                                                                  *)
(***************************************************************************)
EXTENDS MCServices, FiniteSetTheorems, NaturalsInduction, WellFoundedInduction,
        TLAPS

-------------------------------------------------------------------------------
(* Facts about sets of numbers.                                            *)

\* Every set of numbers has a least one; one that is bounded, a greatest.
LEMMA LeastOf ==
  ASSUME NEW S, S \subseteq Nat, S # {}
  PROVE  \E x \in S : \A y \in S : x <= y
<1> DEFINE Less == {ss \in Nat \X Nat : ss[1] < ss[2]}
<1>1. Less = OpToRel(<, Nat)
  BY DEF OpToRel
<1>2. IsWellFoundedOn(Less, Nat)
  BY <1>1, NatLessThanWellFounded
<1> HIDE DEF Less
<1>3. PICK x \in S : \A y \in S : ~ (<<y, x>> \in Less)
  BY <1>2, WFMin
<1>4. \A y \in S : ~ (y < x)
  BY <1>3 DEF Less
<1> QED BY <1>4

LEMMA GreatestOf ==
  ASSUME NEW S, NEW n \in Nat, S \subseteq 0 .. n, S # {}
  PROVE  \E x \in S : \A y \in S : y <= x
<1> DEFINE gaps == {n - t : t \in S}
<1>1. \A t \in S : n - t \in Nat
  OBVIOUS
<1>2. gaps \subseteq Nat /\ gaps # {}
  BY <1>1
<1>3. PICK x \in gaps : \A y \in gaps : x <= y
  BY <1>2, LeastOf
<1>4. PICK t \in S : x = n - t
  BY <1>3
<1>5. \A y \in S : n - y \in gaps
  OBVIOUS
<1>6. \A y \in S : x <= n - y
  BY <1>3, <1>5
<1> QED BY <1>4, <1>6

-------------------------------------------------------------------------------
(* Gate: from a record of a write to a suspended process.                  *)

Hosted ==
  [pid : T_Pid, image : T_Image, born : Nat]

\* A live process is the newest of its number.
HostKept ==
  /\ T_now \in Nat /\ T_procs \in Seq(Hosted)
  /\ T_live \in [T_Pid -> Nat]
  /\ T_event \in [state : {"none", "looking", "assessed", "over"},
                  read : Nat \cup {T!None}]
  /\ \A i \in DOMAIN T_procs : T_procs[i].born <= T_now
  /\ \A p \in T_Pid : T_live[p] # 0 =>
       T_live[p] \in DOMAIN T_procs /\ T_procs[T_live[p]].pid = p

\* A record shows when a process that was born by then touched the file, and
\* its image or none.
OfToucher(r) ==
  /\ r.by \in DOMAIN T_procs /\ r.at \in Nat
  /\ T_procs[r.by].born <= r.at
  /\ r.image \in {T_procs[r.by].image, T!Unread}
RecordsTrue ==
  /\ \A r \in T_raw \cup T_log \cup T_named : OfToucher(r)
  /\ \A r \in T_log \cup T_named : r.kind = "write"

\* One record at most names the writer, who is not the Monitor.
NamedOnce ==
  /\ \A r, s \in T_named : r = s
  /\ \A r \in T_named : T!PidOf(r) \notin T_Own

\* A request claims what the record and the look at the process tell.
Claims(c, r) ==
  /\ c.pid = T!PidOf(r) /\ c.image = r.image /\ c.image \notin T_System
  /\ c.started # T!None => c.started \in Nat /\ c.started <= r.at + T_Tolerance
AskedRight ==
  /\ T_asked # {} => T_event.state \in {"assessed", "over"}
  /\ \A c, d \in T_asked : c = d
  /\ \A c \in T_asked : c.pid \in T_Pid
  /\ \A c \in T_asked, r \in T_named : Claims(c, r)

\* What was suspended has the number of the request and does not contradict it.
Agrees(f, c) ==
  /\ f.proc \in DOMAIN T_procs /\ T_procs[f.proc].pid = c.pid
  /\ c.started # T!None /\ f.sawBirth
     => T_procs[f.proc].born <= c.started + T_Tolerance
  /\ c.image # T!Unread /\ f.sawImage => T_procs[f.proc].image = c.image
FrozenRight ==
  /\ T_frozen # {} => T_event.state = "over"
  /\ \A f \in T_frozen, c \in T_asked : Agrees(f, c)

\* The inductive invariant.
GateInv ==
  HostKept /\ RecordsTrue /\ NamedOnce /\ AskedRight /\ FrozenRight

LEMMA GateConstants ==
  /\ T_Own \subseteq T_Pid /\ IsFiniteSet(T_Own) /\ T_System \subseteq T_Image
  /\ T_Tolerance \in Nat /\ T_Window \in Nat
<1>1. T!IsFiniteSet(T_Own) => IsFiniteSet(T_Own)
  BY DEF T!IsFiniteSet, IsFiniteSet
<1> QED BY <1>1, ServicesAssumption DEF ServicesAssumption, T!GateAssumption

\* Processes come and go; what was recorded, asked and suspended stays so.
Grows ==
  \A i \in DOMAIN T_procs :
    i \in DOMAIN T_procs' /\ T_procs'[i] = T_procs[i]

LEMMA GrowthKeeps ==
  ASSUME Grows
  PROVE  /\ \A r : OfToucher(r) => OfToucher(r)' /\ T!PidOf(r)' = T!PidOf(r)
         /\ \A c, r : OfToucher(r) /\ Claims(c, r) => Claims(c, r)'
         /\ \A f, c : Agrees(f, c) => Agrees(f, c)'
<1>1. ASSUME NEW r, OfToucher(r)
      PROVE  OfToucher(r)' /\ T!PidOf(r)' = T!PidOf(r)
  BY <1>1 DEF Grows, OfToucher, T!PidOf
<1>2. ASSUME NEW c, NEW r, OfToucher(r), Claims(c, r) PROVE Claims(c, r)'
  BY <1>1, <1>2 DEF Claims
<1>3. ASSUME NEW f, NEW c, Agrees(f, c) PROVE Agrees(f, c)'
  BY <1>3 DEF Grows, Agrees
<1> QED BY <1>1, <1>2, <1>3

\* A step of the host alone.
LEMMA HostSteps ==
  ASSUME GateInv, HostKept', Grows,
         UNCHANGED <<T_raw, T_log, T_event, T_named, T_asked, T_frozen>>
  PROVE  GateInv'
<1>1. RecordsTrue'
  BY GrowthKeeps DEF GateInv, RecordsTrue
<1>2. NamedOnce'
  BY GrowthKeeps DEF GateInv, NamedOnce, RecordsTrue
<1>3. AskedRight'
  BY GrowthKeeps DEF GateInv, AskedRight, RecordsTrue
<1>4. FrozenRight'
  BY GrowthKeeps DEF GateInv, FrozenRight
<1> QED BY <1>1, <1>2, <1>3, <1>4 DEF GateInv

LEMMA GateTicks == ASSUME GateInv, T!Tick PROVE GateInv'
<1>1. T_now \in Nat /\ T_now' = T_now + 1
  BY DEF GateInv, HostKept, T!Tick
<1>2. UNCHANGED <<T_procs, T_live, T_raw, T_log, T_event, T_named, T_asked,
                  T_frozen>>
  BY DEF T!Tick
<1>3. ASSUME NEW i \in DOMAIN T_procs PROVE T_procs[i].born <= T_now'
  <2>1. T_procs[i].born \in Nat
    <3>1. T_procs \in Seq(Hosted)
      BY DEF GateInv, HostKept
    <3>2. T_procs[i] \in Hosted
      BY <3>1
    <3> QED BY <3>2 DEF Hosted
  <2>2. T_procs[i].born <= T_now
    BY DEF GateInv, HostKept
  <2> QED BY <1>1, <2>1, <2>2
<1>4. HostKept' /\ Grows
  BY <1>1, <1>2, <1>3 DEF GateInv, HostKept, Grows
<1> QED BY <1>2, <1>4, HostSteps

LEMMA GateExits ==
  ASSUME GateInv, NEW p \in T_Pid, T!Exit(p) PROVE GateInv'
<1>1. UNCHANGED <<T_now, T_procs, T_raw, T_log, T_event, T_named, T_asked,
                  T_frozen>> /\ T_live' = [T_live EXCEPT ![p] = 0]
  BY DEF T!Exit
<1>2. T_live \in [T_Pid -> Nat] /\ T_live' \in [T_Pid -> Nat]
  BY <1>1 DEF GateInv, HostKept
<1>3. \A q \in T_Pid : T_live'[q] # 0 => T_live'[q] = T_live[q]
  BY <1>1, <1>2
<1>4. HostKept' /\ Grows
  BY <1>1, <1>2, <1>3 DEF GateInv, HostKept, Grows
<1> QED BY <1>1, <1>4, HostSteps

LEMMA GateSpawns ==
  ASSUME GateInv, NEW p \in T_Pid, NEW image \in T_Image, T!Spawn(p, image)
  PROVE  GateInv'
<1> DEFINE new == [pid |-> p, image |-> image, born |-> T_now]
           n == Len(T_procs) + 1
<1>1. UNCHANGED <<T_now, T_raw, T_log, T_event, T_named, T_asked, T_frozen>>
      /\ T_procs' = Append(T_procs, new) /\ T_live' = [T_live EXCEPT ![p] = n]
  BY DEF T!Spawn
<1>2. T_procs \in Seq(Hosted) /\ T_now \in Nat /\ T_live \in [T_Pid -> Nat]
  BY DEF GateInv, HostKept
<1>3. new \in Hosted /\ new.pid = p /\ new.born = T_now
  BY <1>2 DEF Hosted
<1> HIDE DEF new
<1>4. /\ T_procs' \in Seq(Hosted) /\ n \in DOMAIN T_procs' /\ n \in Nat
      /\ \A i \in DOMAIN T_procs' :
           \/ i = n /\ T_procs'[i] = new
           \/ i \in DOMAIN T_procs /\ T_procs'[i] = T_procs[i]
      /\ \A i \in DOMAIN T_procs : i \in DOMAIN T_procs'
      /\ n \notin DOMAIN T_procs /\ T_procs'[n] = new
  BY <1>1, <1>2, <1>3
<1>5. Grows
  BY <1>4 DEF Grows
<1>6. \A i \in DOMAIN T_procs' : T_procs'[i].born <= T_now'
  BY <1>1, <1>2, <1>3, <1>4 DEF GateInv, HostKept
<1>7. T_live' \in [T_Pid -> Nat]
  BY <1>1, <1>2, <1>4
<1>8. ASSUME NEW q \in T_Pid, T_live'[q] # 0
      PROVE  T_live'[q] \in DOMAIN T_procs' /\ T_procs'[T_live'[q]].pid = q
  <2>1. CASE q = p
    BY <1>1, <1>2, <1>3, <1>4, <2>1
  <2>2. CASE q # p
    <3>1. T_live'[q] = T_live[q]
      BY <1>1, <1>2, <2>2
    <3>2. T_live[q] \in DOMAIN T_procs /\ T_procs[T_live[q]].pid = q
      BY <1>8, <3>1 DEF GateInv, HostKept
    <3> QED BY <1>5, <3>1, <3>2 DEF Grows
  <2> QED BY <2>1, <2>2
<1>9. HostKept'
  BY <1>1, <1>2, <1>4, <1>6, <1>7, <1>8 DEF GateInv, HostKept
<1> QED BY <1>1, <1>5, <1>9, HostSteps

LEMMA GateTouches ==
  ASSUME GateInv, NEW p \in T_Pid, NEW kind, NEW image, T!Touch(p, kind, image)
  PROVE  GateInv'
<1> DEFINE r == [by |-> T_live[p], image |-> image, at |-> T_now, kind |-> kind]
<1>1. UNCHANGED <<T_now, T_procs, T_live, T_log, T_event, T_named, T_asked,
                  T_frozen>>
      /\ T_raw' = T_raw \cup {r}
  BY DEF T!Touch
<1>2. T_live[p] \in DOMAIN T_procs /\ T_now \in Nat
      /\ T_procs[T_live[p]].born <= T_now
  BY DEF GateInv, HostKept, T!Touch
<1>3. image \in {T_procs[T_live[p]].image, T!Unread}
  BY DEF T!Touch
<1>4. OfToucher(r)
  BY <1>2, <1>3 DEF OfToucher
<1> HIDE DEF r
<1>5. HostKept' /\ NamedOnce' /\ AskedRight' /\ FrozenRight'
  <2>1. HostKept'
    BY <1>1 DEF GateInv, HostKept
  <2>2. NamedOnce' /\ AskedRight' /\ FrozenRight'
    BY <1>1 DEF GateInv, NamedOnce, AskedRight, FrozenRight, Claims, Agrees,
       T!PidOf
  <2> QED BY <2>1, <2>2
<1>6. \A s : OfToucher(s) => OfToucher(s)'
  BY <1>1 DEF OfToucher
<1>7. RecordsTrue'
  BY <1>1, <1>4, <1>6 DEF GateInv, RecordsTrue
<1> QED BY <1>5, <1>7 DEF GateInv

LEMMA GateDelivers ==
  ASSUME GateInv, NEW r \in T_raw, T!Deliver(r) PROVE GateInv'
<1>1. UNCHANGED <<T_now, T_procs, T_live, T_event, T_named, T_asked, T_frozen>>
      /\ T_raw' \subseteq T_raw
      /\ T_log' \subseteq T_log \cup {r}
      /\ (r \in T_log' \ T_log => r.kind = "write")
  BY DEF T!Deliver, T!Recorded
<1>2. HostKept'
  BY <1>1 DEF GateInv, HostKept
<1>3. NamedOnce' /\ AskedRight' /\ FrozenRight'
  BY <1>1 DEF GateInv, NamedOnce, AskedRight, FrozenRight, Claims, Agrees,
     T!PidOf
<1>4. \A s : OfToucher(s) => OfToucher(s)'
  BY <1>1 DEF OfToucher
<1>5. RecordsTrue'
  BY <1>1, <1>4 DEF GateInv, RecordsTrue
<1> QED BY <1>2, <1>3, <1>5 DEF GateInv

LEMMA GateObserves == ASSUME GateInv, T!Observe PROVE GateInv'
<1>1. UNCHANGED <<T_now, T_procs, T_live, T_raw, T_log, T_named, T_asked,
                  T_frozen>>
      /\ T_event.state = "none"
      /\ T_event' = [state |-> "looking", read |-> T_now]
  BY DEF T!Observe
<1>2. HostKept'
  BY <1>1 DEF GateInv, HostKept
<1>3. T_asked = {} /\ T_frozen = {}
  BY <1>1 DEF GateInv, AskedRight, FrozenRight
<1>4. NamedOnce' /\ AskedRight' /\ FrozenRight'
  BY <1>1, <1>3 DEF GateInv, NamedOnce, AskedRight, FrozenRight, T!PidOf
<1>5. RecordsTrue'
  BY <1>1 DEF GateInv, RecordsTrue, OfToucher
<1> QED BY <1>2, <1>4, <1>5 DEF GateInv

\* A state the event can move to.
LEMMA EventMoves ==
  ASSUME HostKept, NEW to \in {"looking", "assessed", "over"}
  PROVE  LET e == [T_event EXCEPT !.state = to]
         IN /\ e \in [state : {"none", "looking", "assessed", "over"},
                      read : Nat \cup {T!None}]
            /\ e.state = to
  BY DEF HostKept

LEMMA GateLooks == ASSUME GateInv, T!Look PROVE GateInv'
<1>1. UNCHANGED <<T_now, T_procs, T_live, T_raw, T_log, T_asked, T_frozen>>
      /\ T_event.state = "looking"
  BY DEF T!Look
<1>2. PICK to \in {"assessed", "over"} : T_event' = [T_event EXCEPT !.state = to]
  BY DEF T!Look
<1>3. \/ T_named' = {}
      \/ \E r \in T!Relevant : T_named' = {r}
  BY DEF T!Look, T!Nothing
<1>4. HostKept'
  BY <1>1, <1>2, EventMoves DEF GateInv, HostKept
<1>5. T_asked = {} /\ T_frozen = {}
  BY <1>1 DEF GateInv, AskedRight, FrozenRight
<1>6. AskedRight' /\ FrozenRight'
  BY <1>1, <1>5 DEF AskedRight, FrozenRight
<1>7. \A r \in T_named' : r \in T_log /\ T!PidOf(r) \notin T_Own
  BY <1>3 DEF T!Relevant
<1>8. NamedOnce'
  BY <1>1, <1>3, <1>7 DEF NamedOnce, T!PidOf
<1>9. RecordsTrue'
  BY <1>1, <1>7 DEF GateInv, RecordsTrue, OfToucher
<1> QED BY <1>4, <1>6, <1>8, <1>9 DEF GateInv

LEMMA GateAssesses ==
  ASSUME GateInv, NEW seesImage \in BOOLEAN, NEW seesBirth \in BOOLEAN,
         T!Assess(seesImage, seesBirth)
  PROVE  GateInv'
<1>1. UNCHANGED <<T_now, T_procs, T_live, T_raw, T_log, T_named, T_frozen>>
      /\ T_event.state = "assessed" /\ T_asked = {}
  BY DEF T!Assess, T!Nothing
<1>2. T_frozen = {}
  BY <1>1 DEF GateInv, FrozenRight
<1>3. NamedOnce' /\ FrozenRight'
  BY <1>1, <1>2 DEF GateInv, NamedOnce, FrozenRight, T!PidOf
<1>4. RecordsTrue'
  BY <1>1 DEF GateInv, RecordsTrue, OfToucher
<1>5. CASE T_asked' = T_asked /\ T_event' = [T_event EXCEPT !.state = "over"]
  <2>1. HostKept'
    BY <1>1, <1>5, EventMoves DEF GateInv, HostKept
  <2>2. AskedRight'
    BY <1>1, <1>5 DEF AskedRight
  <2> QED BY <1>3, <1>4, <2>1, <2>2 DEF GateInv
<1>6. ASSUME NEW r \in T_named, NEW image, NEW birth,
             birth \in {T!None, T_procs[T_live[T!PidOf(r)]].born},
             T!Authorised(r, image, birth), UNCHANGED T_event,
             T_asked' = {[pid |-> T!PidOf(r), image |-> r.image,
                          started |-> birth]}
      PROVE  GateInv'
  <2>0. PICK c : c = [pid |-> T!PidOf(r), image |-> r.image, started |-> birth]
    OBVIOUS
  <2>1. OfToucher(r)
    BY DEF GateInv, RecordsTrue
  <2>2. T_procs \in Seq(Hosted) /\ T_procs[r.by] \in Hosted
    BY <2>1 DEF GateInv, HostKept, OfToucher
  <2>3. c.pid \in T_Pid /\ T!PidOf(r) \in T_Pid
    BY <2>0, <2>2 DEF T!PidOf, Hosted
  <2>4. T_live[T!PidOf(r)] # 0
    BY <1>6 DEF T!Authorised
  <2>5. T_live[T!PidOf(r)] \in DOMAIN T_procs
    BY <2>3, <2>4 DEF GateInv, HostKept
  <2>6. T_procs[T_live[T!PidOf(r)]].born \in Nat
    <3>1. T_procs[T_live[T!PidOf(r)]] \in Hosted
      BY <2>2, <2>5
    <3> QED BY <3>1 DEF Hosted
  <2>7. birth # T!None => birth \in Nat /\ birth <= r.at + T_Tolerance
    BY <1>6, <2>6 DEF T!Authorised, T!IsTheWriter
  <2>8. r.image \notin T_System
    BY <1>6 DEF T!Authorised, T!Ordinary
  <2>9. Claims(c, r)
    BY <2>0, <2>7, <2>8 DEF Claims
  <2>10. \A s \in T_named : s = r
    BY DEF GateInv, NamedOnce
  <2>11. Claims(c, r)'
    BY <1>1, <2>9 DEF Claims, T!PidOf
  <2>12. AskedRight'
    <3>1. T_event'.state = "assessed"
      BY <1>1, <1>6
    <3>2. \A d \in T_asked', s \in T_named' : d = c /\ s = r
      BY <1>1, <1>6, <2>0, <2>10
    <3>3. \A d \in T_asked' : d = c
      BY <1>6, <2>0
    <3> QED BY <2>3, <2>11, <3>1, <3>2, <3>3 DEF AskedRight
  <2>13. HostKept'
    BY <1>1, <1>6 DEF GateInv, HostKept
  <2> QED BY <1>3, <1>4, <2>12, <2>13 DEF GateInv
<1> QED BY <1>5, <1>6 DEF T!Assess

LEMMA GateSuspends ==
  ASSUME GateInv, NEW sawImage \in BOOLEAN, NEW sawBirth \in BOOLEAN,
         T!Suspend(sawImage, sawBirth)
  PROVE  GateInv'
<1>1. UNCHANGED <<T_now, T_procs, T_live, T_raw, T_log, T_named, T_asked>>
      /\ T_event' = [T_event EXCEPT !.state = "over"]
      /\ T_event.state = "assessed"
  BY DEF T!Suspend
<1>2. HostKept' /\ T_event'.state = "over"
  BY <1>1, EventMoves DEF GateInv, HostKept
<1>3. NamedOnce' /\ RecordsTrue'
  BY <1>1 DEF GateInv, NamedOnce, RecordsTrue, OfToucher, T!PidOf
<1>4. AskedRight'
  BY <1>1, <1>2 DEF GateInv, AskedRight, Claims, T!PidOf
<1>5. T_frozen = {}
  BY <1>1 DEF GateInv, FrozenRight
<1>6. PICK c \in T_asked :
        IF T_live[c.pid] # 0
           /\ T!Vetted(c, T_procs[T_live[c.pid]], sawImage, sawBirth)
        THEN T_frozen' = {[proc |-> T_live[c.pid], sawImage |-> sawImage,
                           sawBirth |-> sawBirth]}
        ELSE UNCHANGED T_frozen
  BY DEF T!Suspend
<1>7. ASSUME NEW f \in T_frozen', NEW d \in T_asked' PROVE Agrees(f, d)'
  <2>1. f = [proc |-> T_live[c.pid], sawImage |-> sawImage,
             sawBirth |-> sawBirth]
        /\ T_live[c.pid] # 0
        /\ T!Vetted(c, T_procs[T_live[c.pid]], sawImage, sawBirth)
    BY <1>5, <1>6, <1>7
  <2>2. d = c
    BY <1>1, <1>6, <1>7 DEF GateInv, AskedRight
  <2>3. c.pid \in T_Pid
    BY <1>6 DEF GateInv, AskedRight
  <2>4. f.proc \in DOMAIN T_procs /\ T_procs[f.proc].pid = c.pid
    BY <2>1, <2>3 DEF GateInv, HostKept
  <2>5. Agrees(f, c)
    BY <2>1, <2>4 DEF Agrees, T!Vetted
  <2> QED BY <1>1, <2>2, <2>5 DEF Agrees
<1>8. FrozenRight'
  BY <1>2, <1>7 DEF FrozenRight
<1> QED BY <1>2, <1>3, <1>4, <1>8 DEF GateInv

LEMMA GateInit == T!Init => GateInv
<1> SUFFICES ASSUME T!Init PROVE GateInv
  OBVIOUS
<1>1. Cardinality(T_Own) \in Nat
  BY GateConstants, FS_CardinalityType
<1>2. T!Cardinality(T_Own) = Cardinality(T_Own)
  BY DEF T!Cardinality, Cardinality
<1> DEFINE n == T!Cardinality(T_Own)
<1>3. n \in Nat
  BY <1>1, <1>2
<1>4. PICK image \in T_Image \ T_System :
        T_procs \in {seq \in [1 .. n ->
                       [pid : T_Own, image : {image}, born : {0}]] :
                     T!IsOwn(seq)}
  BY DEF T!Init
<1> HIDE DEF n
<1>5. T_procs \in [1 .. n -> [pid : T_Own, image : {image}, born : {0}]]
      /\ T!IsOwn(T_procs)
  BY <1>4
<1>6. ASSUME NEW i \in 1 .. n
      PROVE  T_procs[i] \in Hosted /\ T_procs[i].born = 0
  <2>1. T_procs[i] \in [pid : T_Own, image : {image}, born : {0}]
    BY <1>5
  <2> QED BY <2>1, GateConstants DEF Hosted
<1>7. T_procs \in Seq(Hosted) /\ DOMAIN T_procs = 1 .. n
  BY <1>3, <1>5, <1>6
<1>8. \A p \in T_Own : \E i \in DOMAIN T_procs : T_procs[i].pid = p
  BY <1>5 DEF T!IsOwn
<1>9. ASSUME NEW p \in T_Own
      PROVE  (CHOOSE i \in DOMAIN T_procs : T_procs[i].pid = p)
               \in {i \in DOMAIN T_procs : T_procs[i].pid = p}
  BY <1>8
<1>10. T_live = [p \in T_Pid |->
         IF p \in T_Own
         THEN CHOOSE i \in DOMAIN T_procs : T_procs[i].pid = p ELSE 0]
  BY DEF T!Init
<1>11. ASSUME NEW p \in T_Pid
       PROVE  /\ T_live[p] \in Nat
              /\ T_live[p] # 0 =>
                   T_live[p] \in DOMAIN T_procs /\ T_procs[T_live[p]].pid = p
  <2>1. CASE p \in T_Own
    BY <1>3, <1>7, <1>9, <1>10, <2>1
  <2>2. CASE p \notin T_Own
    BY <1>10, <2>2
  <2> QED BY <2>1, <2>2
<1>12. T_live \in [T_Pid -> Nat]
  BY <1>10, <1>11
<1>13. T_now = 0 /\ T_event = [state |-> "none", read |-> T!None]
  BY DEF T!Init
<1>14. HostKept
  BY <1>6, <1>7, <1>11, <1>12, <1>13 DEF HostKept
<1>15. T_raw = {} /\ T_log = {} /\ T_named = {} /\ T_asked = {} /\ T_frozen = {}
  BY DEF T!Init, T!Nothing
<1> QED BY <1>14, <1>15
        DEF GateInv, RecordsTrue, NamedOnce, AskedRight, FrozenRight

LEMMA GateStep == ASSUME GateInv, T!Next PROVE GateInv'
  BY GateTicks, GateObserves, GateLooks, GateExits, GateSpawns, GateTouches,
     GateDelivers, GateAssesses, GateSuspends DEF T!Next

LEMMA GateTells == GateInv => T!FreezesTheWriter
<1> SUFFICES ASSUME GateInv, NEW f \in T_frozen, NEW c \in T_asked,
                    NEW r \in T_named
             PROVE  LET it == T_procs[f.proc] IN
                    /\ r.kind = "write" /\ it.pid \notin T_Own
                    /\ \/ f.proc = r.by
                       \/ c.started = T!None \/ ~ f.sawBirth
                       \/ it.born <= r.at + 2 * T_Tolerance
                    /\ f.sawImage /\ r.image # T!Unread =>
                         it.image = T_procs[r.by].image /\ it.image \notin T_System
  BY DEF T!FreezesTheWriter
<1> DEFINE it == T_procs[f.proc]
<1>1. Claims(c, r) /\ Agrees(f, c) /\ OfToucher(r) /\ r.kind = "write"
      /\ T!PidOf(r) \notin T_Own
  BY DEF GateInv, AskedRight, FrozenRight, RecordsTrue, NamedOnce
<1>2. it.pid \notin T_Own
  BY <1>1 DEF Claims, Agrees
<1>3. ASSUME c.started # T!None, f.sawBirth
      PROVE  it.born <= r.at + 2 * T_Tolerance
  <2>1. /\ c.started \in Nat /\ c.started <= r.at + T_Tolerance
        /\ it.born <= c.started + T_Tolerance /\ r.at \in Nat
    BY <1>1, <1>3 DEF Claims, Agrees, OfToucher
  <2>2. it \in Hosted
    BY <1>1 DEF GateInv, HostKept, Agrees
  <2>3. it.born \in Nat
    BY <2>2 DEF Hosted
  <2> HIDE DEF it
  <2> QED BY <2>1, <2>3, GateConstants
<1>4. ASSUME f.sawImage, r.image # T!Unread
      PROVE  it.image = T_procs[r.by].image /\ it.image \notin T_System
  BY <1>1, <1>4 DEF Claims, Agrees, OfToucher
<1> QED BY <1>1, <1>2, <1>3, <1>4

GatePart == part = "gate" => GateInv

\* What is suspended wrote the file, or nobody could have known that it did not
\* (PolicyLoop.assess_suspend, _check_identity, actions.suspend).
THEOREM TheWriterIsFrozen == ServicesSpec => []FreezesTheWriter
<1>1. ServicesInit => GatePart
  BY GateInit DEF ServicesInit, GatePart
<1>2. GatePart /\ [ServicesNext]_ServicesVars => GatePart'
  <2> SUFFICES ASSUME GatePart, [ServicesNext]_ServicesVars, part' = "gate"
               PROVE  GateInv'
    BY DEF GatePart
  <2>1. part = "gate" /\ GateInv
    BY DEF GatePart, ServicesNext, ServicesVars
  <2>2. CASE T!Next
    BY <2>1, <2>2, GateStep
  <2>3. CASE UNCHANGED T_vars
    <3>1. HostKept' /\ Grows
      BY <2>1, <2>3 DEF GateInv, HostKept, Grows, T_vars
    <3> QED BY <2>1, <2>3, <3>1, HostSteps DEF T_vars
  <2> QED BY <2>1, <2>2, <2>3 DEF ServicesNext, ServicesVars
<1>3. GatePart => FreezesTheWriter
  BY GateTells DEF GatePart, FreezesTheWriter
<1> QED BY <1>1, <1>2, <1>3, PTL DEF ServicesSpec

-------------------------------------------------------------------------------
(* Governance: what one reading says and which rules may take it back.     *)

Level == 0 .. V!Top
Judged ==
  [at : {"idle", "learn", "fold", "white", "look", "match", "done"},
   path : V_Path \cup {V!NoEvent.path}, r : V_Reading \cup {V!NoEvent.r},
   base : Level, signal : V!Signals \cup {"none"},
   rule : V!Rules \cup {"none"}, since : Nat, least : Level]
Sightings == [V!Structure -> [V_Path -> [high : Level, since : Nat]]]

\* The floor of a path is the least reading since it was last forgotten.
FloorsKept ==
  /\ V_floor \in [V_Path -> Level] /\ V_lowest \in [V_Path -> Level]
  /\ \A p \in V_Path : V_floor[p] = V_lowest[p]

\* An event is judged by its own reading, over that floor.
EventRight(e) ==
  e.at # "idle" =>
    /\ e.path \in V_Path /\ e.r \in V_Reading
    /\ e.signal = V!Signal(e.path, e.r, e.base)
    /\ e.r.readable => e.base = e.least
EventsRight ==
  /\ V_ev \in [V_Watcher -> Judged]
  /\ \A w \in V_Watcher : EventRight(V_ev[w])

\* No candidate is older, or higher, than what was seen of its path.
CandsSeen ==
  /\ V_now \in Nat /\ V_cand \in Sightings /\ V_kept \in Sightings
  /\ \A k \in V!Structure, p \in V_Path : V_cand[k][p].high > 0 =>
       /\ V_kept[k][p].high >= V_cand[k][p].high
       /\ V_kept[k][p].since <= V_cand[k][p].since

CeilingsDwelled ==
  /\ V_ceiling \in [V!Structure -> Level]
  /\ V!CeilingDwelled

\* The inductive invariant.
GovInv == FloorsKept /\ EventsRight /\ CandsSeen /\ CeilingsDwelled

LEMMA GovConstants ==
  /\ V_Reading \subseteq V!ReadingType /\ V!Top = 4 /\ 0 \in Level
  /\ V_Threshold \in Nat /\ V_Rise \in Nat /\ V_RiseFloor \in Nat
  /\ V_Dwell \in Nat
  BY ServicesAssumption
  DEF ServicesAssumption, V!GovernanceAssumption, V!DetectionAssumption, V!Top,
      Level

\* The greatest and the least of a set of levels that is not empty.
LEMMA MaxOfIs ==
  ASSUME NEW S, S \subseteq Level, S # {}
  PROVE  V!MaxOf(S) \in S /\ \A y \in S : y <= V!MaxOf(S)
<1>1. \E x \in S : \A y \in S : y <= x
  BY GreatestOf DEF Level, V!Top
<1> QED BY <1>1 DEF V!MaxOf

LEMMA MinOfIs ==
  ASSUME NEW S, S \subseteq Nat, S # {}
  PROVE  V!MinOf(S) \in S /\ \A y \in S : V!MinOf(S) <= y
<1>1. \E x \in S : \A y \in S : x <= y
  BY LeastOf
<1> QED BY <1>1 DEF V!MinOf

\* One step of EntropyHistory keeps the floor the least reading.
LEMMA FloorsStay ==
  ASSUME FloorsKept, NEW p \in V_Path, NEW r \in V_Reading, V!Remember(p, r)
  PROVE  FloorsKept'
<1> DEFINE order == Append(V!Without(p), p)
           gone == IF Len(order) > V_MaxPaths THEN {Head(order)} ELSE {}
           e == r.entropy
<1>1. e \in Level
  BY GovConstants DEF V!ReadingType, Level
<1>2. CASE UNCHANGED <<V_floor, V_lowest>>
  BY <1>2 DEF FloorsKept
<1>3. ASSUME NEW G, e > 0,
             V_floor' = [x \in V_Path |->
                           IF x \in G THEN 0
                           ELSE IF x = p THEN V!Lowered(p, e)
                           ELSE V_floor[x]],
             V_lowest' = [x \in V_Path |->
                            IF x \in G THEN 0
                            ELSE IF x = p THEN V!MinOf({e, V_lowest[p]} \ {0})
                            ELSE V_lowest[x]]
      PROVE  FloorsKept'
  <2>1. V_floor[p] \in Level /\ V_lowest[p] = V_floor[p]
    BY DEF FloorsKept
  <2>2. V!Lowered(p, e) \in Level
    BY <1>1, <2>1 DEF V!Lowered
  <2>3. V!MinOf({e, V_lowest[p]} \ {0}) = V!Lowered(p, e)
    <3> DEFINE S == {e, V_lowest[p]} \ {0}
    <3>1. S \subseteq Nat /\ e \in S
      BY <1>1, <1>3, <2>1 DEF Level, V!Top
    <3>2. V!MinOf(S) \in S /\ \A y \in S : V!MinOf(S) <= y
      BY <3>1, MinOfIs
    <3> QED BY <1>1, <1>3, <2>1, <3>1, <3>2 DEF V!Lowered, Level, V!Top
  <2>4. \A x \in V_Path : V_floor'[x] = V_lowest'[x]
    BY <1>3, <2>3 DEF FloorsKept
  <2>5. V_floor' \in [V_Path -> Level]
    BY <1>3, <2>2, GovConstants DEF FloorsKept
  <2>6. V_lowest' \in [V_Path -> Level]
    BY <1>3, <2>2, <2>3, GovConstants DEF FloorsKept
  <2> QED BY <2>4, <2>5, <2>6 DEF FloorsKept
<1>4. CASE r.readable /\ ~r.small /\ e > 0
  <2>1. /\ V_floor' = [x \in V_Path |->
                        IF x \in gone THEN 0
                        ELSE IF x = p THEN V!Lowered(p, e)
                        ELSE V_floor[x]]
        /\ V_lowest' = [x \in V_Path |->
                         IF x \in gone THEN 0
                         ELSE IF x = p THEN V!MinOf({e, V_lowest[p]} \ {0})
                         ELSE V_lowest[x]]
    BY <1>4, Zenon DEF V!Remember
  <2> HIDE DEF gone
  <2> QED BY <1>3, <1>4, <2>1
<1>5. CASE ~(r.readable /\ ~r.small /\ e > 0)
  <2>1. UNCHANGED <<V_floor, V_lowest>>
    BY <1>5, Zenon DEF V!Remember
  <2> QED BY <1>2, <2>1
<1> QED BY <1>4, <1>5

LEMMA SignalNames ==
  ASSUME NEW p, NEW r, NEW base
  PROVE  V!Signal(p, r, base) \in V!Signals \cup {"none"}
  BY DEF V!Signal, V!Signals

LEMMA GovMeasures ==
  ASSUME GovInv, NEW w \in V_Watcher, NEW p \in V_Path, NEW r \in V_Reading,
         V!Measure(w, p, r)
  PROVE  GovInv'
<1>1. FloorsKept'
  BY FloorsStay DEF GovInv, V!Measure
<1> DEFINE e == [V!NoEvent EXCEPT !.at = "learn", !.path = p, !.r = r,
                   !.base = IF r.readable THEN V_floor[p] ELSE 0,
                   !.signal = V!Signal(p, r, V_floor[p]),
                   !.least = V_lowest[p]]
<1>2. V_ev' = [V_ev EXCEPT ![w] = e]
  BY DEF V!Measure
<1>3. V_floor[p] \in Level /\ V_lowest[p] = V_floor[p] /\ 0 \in Level
  BY GovConstants DEF GovInv, FloorsKept
<1>4. /\ e.at = "learn" /\ e.path = p /\ e.r = r
      /\ e.base = (IF r.readable THEN V_floor[p] ELSE 0)
      /\ e.signal = V!Signal(p, r, V_floor[p]) /\ e.least = V_lowest[p]
  BY DEF V!NoEvent
<1>5. e \in Judged
  <2>1. V!Signal(p, r, V_floor[p]) \in V!Signals \cup {"none"}
    BY SignalNames
  <2> QED BY <1>3, <2>1 DEF V!NoEvent, Judged
<1>6. V!Signal(p, r, V_floor[p]) = V!Signal(p, r, e.base)
  BY <1>4 DEF V!Signal
<1> HIDE DEF e
<1>7. EventRight(e)
  BY <1>3, <1>4, <1>6 DEF EventRight
<1>8. EventsRight'
  BY <1>2, <1>5, <1>7 DEF GovInv, EventsRight
<1>9. CandsSeen' /\ CeilingsDwelled'
  BY DEF V!Measure, V!training, GovInv, CandsSeen, CeilingsDwelled,
     V!CeilingDwelled
<1> QED BY <1>1, <1>8, <1>9 DEF GovInv

\* What is learned is what dwelled of what was seen.
LEMMA PromotionDwells ==
  ASSUME CandsSeen, CandsSeen', V!Promoted(V_cand), UNCHANGED V_now
  PROVE  CeilingsDwelled'
<1>1. V_ceiling' = V!Eligible(V_cand) /\ UNCHANGED <<V_cand, V_kept>>
  BY DEF V!Promoted, V!Learned
<1>2. ASSUME NEW k \in V!Structure
      PROVE  /\ V_ceiling'[k] \in Level
             /\ V_ceiling'[k] # 0 =>
                  \E p \in V_Path : /\ V_kept'[k][p].high >= V_ceiling'[k]
                                    /\ V_now' >= V_kept'[k][p].since + V_Dwell
  <2> DEFINE Watched == {x \in V_Path : /\ V_cand[k][x].high > 0
                                  /\ V_now >= V_cand[k][x].since + V_Dwell}
             S == {V_cand[k][p].high : p \in Watched}
  <2>1. V_ceiling'[k] = IF S = {} THEN 0 ELSE V!MaxOf(S)
    BY <1>1 DEF V!Eligible
  <2>2. \A x \in V_Path : /\ V_cand[k][x].high \in Level
                          /\ V_cand[k][x].since \in Nat
                          /\ V_kept[k][x].high \in Level
                          /\ V_kept[k][x].since \in Nat
    <3>1. /\ V_cand[k] \in [V_Path -> [high : Level, since : Nat]]
          /\ V_kept[k] \in [V_Path -> [high : Level, since : Nat]]
      BY DEF CandsSeen, Sightings
    <3> QED BY <3>1
  <2>3. S \subseteq Level
    BY <2>2
  <2>4. CASE S = {}
    BY <2>1, <2>4, GovConstants
  <2>5. CASE S # {}
    <3>1. V_ceiling'[k] \in S
      <4> HIDE DEF S
      <4> QED BY <2>1, <2>3, <2>5, MaxOfIs
    <3>2. PICK p \in Watched : V_ceiling'[k] = V_cand[k][p].high
      BY <3>1
    <3>3. V_kept[k][p].high >= V_cand[k][p].high
          /\ V_kept[k][p].since <= V_cand[k][p].since
      BY <3>2 DEF CandsSeen
    <3>4. V_now >= V_kept[k][p].since + V_Dwell
      <4>1. V_now \in Nat /\ V_now >= V_cand[k][p].since + V_Dwell
        BY <3>2 DEF CandsSeen
      <4> QED BY <2>2, <3>2, <3>3, <4>1, GovConstants
    <3> QED BY <1>1, <2>3, <3>1, <3>2, <3>3, <3>4
  <2> QED BY <2>4, <2>5
<1>3. V_ceiling' \in [V!Structure -> Level]
  BY <1>1, <1>2 DEF V!Eligible
<1> QED BY <1>2, <1>3 DEF CeilingsDwelled, V!CeilingDwelled

\* An event goes on with its reading as it was judged.
Onward(e, f) ==
  /\ f \in Judged /\ e.at # "idle"
  /\ f.path = e.path /\ f.r = e.r /\ f.base = e.base
  /\ f.signal = e.signal /\ f.least = e.least

LEMMA EventGoesOn ==
  ASSUME EventsRight, NEW w \in V_Watcher, NEW f, Onward(V_ev[w], f),
         V_ev' = [V_ev EXCEPT ![w] = f]
  PROVE  EventsRight'
<1>1. EventRight(f)
  BY DEF Onward, EventsRight, EventRight
<1>2. V_ev' \in [V_Watcher -> Judged]
  BY DEF Onward, EventsRight
<1>3. ASSUME NEW x \in V_Watcher PROVE EventRight(V_ev[x])'
  BY <1>1 DEF EventsRight, EventRight
<1> QED BY <1>2, <1>3 DEF EventsRight

LEMMA EventGoesTo ==
  ASSUME NEW e \in Judged, e.at # "idle",
         NEW at \in {"learn", "fold", "white", "look", "match", "done"},
         NEW seen \in Nat, NEW rule \in V!Rules \cup {"none"}
  PROVE  /\ Onward(e, [e EXCEPT !.at = at])
         /\ Onward(e, [e EXCEPT !.at = at, !.since = seen])
         /\ Onward(e, [e EXCEPT !.at = at, !.rule = rule])
         /\ Onward(e, [e EXCEPT !.rule = rule, !.at = at])
<1>1. Onward(e, [e EXCEPT !.at = at])
  BY DEF Onward, Judged
<1>2. Onward(e, [e EXCEPT !.at = at, !.since = seen])
  BY DEF Onward, Judged
<1>3. Onward(e, [e EXCEPT !.at = at, !.rule = rule])
  BY DEF Onward, Judged
<1>4. Onward(e, [e EXCEPT !.rule = rule, !.at = at])
  BY DEF Onward, Judged
<1> QED BY <1>1, <1>2, <1>3, <1>4

LEMMA GovTicks == ASSUME GovInv, V!Tick PROVE GovInv'
<1>1. V_now \in Nat /\ V_now' = V_now + 1
  BY DEF GovInv, CandsSeen, V!Tick
<1>2. UNCHANGED <<V_floor, V_lowest, V_ev, V_cand, V_kept, V_ceiling>>
  BY DEF V!Tick, V!training
<1>3. FloorsKept' /\ EventsRight' /\ CandsSeen'
  BY <1>1, <1>2 DEF GovInv, FloorsKept, EventsRight, EventRight, CandsSeen
<1>4. CeilingsDwelled'
  <2>1. ASSUME NEW k \in V!Structure, V_ceiling[k] # 0
        PROVE  \E p \in V_Path : /\ V_kept[k][p].high >= V_ceiling[k]
                                 /\ V_now' >= V_kept[k][p].since + V_Dwell
    <3>1. PICK p \in V_Path : /\ V_kept[k][p].high >= V_ceiling[k]
                              /\ V_now >= V_kept[k][p].since + V_Dwell
      BY <2>1 DEF GovInv, CeilingsDwelled, V!CeilingDwelled
    <3>2. V_kept[k][p].since \in Nat
      <4>1. V_kept[k] \in [V_Path -> [high : Level, since : Nat]]
        BY DEF GovInv, CandsSeen, Sightings
      <4> QED BY <4>1
    <3> QED BY <1>1, <3>1, <3>2, GovConstants
  <2> QED BY <1>2, <2>1 DEF GovInv, CeilingsDwelled, V!CeilingDwelled
<1> QED BY <1>3, <1>4 DEF GovInv

LEMMA GovForgets == ASSUME GovInv, NEW p \in V_Path, V!Forget(p) PROVE GovInv'
<1>1. V_floor' = [V_floor EXCEPT ![p] = 0]
      /\ V_lowest' = [V_lowest EXCEPT ![p] = 0]
  BY DEF V!Forget
<1>2. FloorsKept'
  BY <1>1, GovConstants DEF GovInv, FloorsKept
<1>3. UNCHANGED <<V_ev, V_cand, V_kept, V_ceiling, V_now>>
  BY DEF V!Forget, V!training
<1>4. EventsRight' /\ CandsSeen' /\ CeilingsDwelled'
  BY <1>3 DEF GovInv, EventsRight, EventRight, CandsSeen, CeilingsDwelled,
     V!CeilingDwelled
<1> QED BY <1>2, <1>4 DEF GovInv

\* A look at the state may end a window; nothing else of what was learned.
LEMMA LooksKeep ==
  ASSUME CandsSeen, CeilingsDwelled, V!Looked, UNCHANGED V_now
  PROVE  CandsSeen' /\ CeilingsDwelled'
<1>1. CASE UNCHANGED V!training
  BY <1>1 DEF CandsSeen, CeilingsDwelled, V!CeilingDwelled, V!training
<1>2. CASE V!Promoted(V_cand)
  <2>1. CandsSeen'
    BY <1>2 DEF CandsSeen, V!Promoted
  <2> QED BY <1>2, <2>1, PromotionDwells
<1> QED BY <1>1, <1>2 DEF V!Looked

\* What a clear leaves: nothing seen, nothing learned.
LEMMA ClearKeeps ==
  ASSUME CandsSeen, V!Cleared, UNCHANGED V_now
  PROVE  CandsSeen' /\ CeilingsDwelled'
<1>1. /\ V_cand' = [k \in V!Structure |-> [p \in V_Path |-> V!NoCand]]
      /\ V_kept' = V_cand'
      /\ V_ceiling' = [k \in V!Structure |-> 0]
  BY DEF V!Cleared
<1>2. V!NoCand \in [high : Level, since : Nat] /\ V!NoCand.high = 0
  BY GovConstants DEF V!NoCand
<1>3. V_cand' \in Sightings
  BY <1>1, <1>2 DEF Sightings
<1>4. \A k \in V!Structure, p \in V_Path : V_cand'[k][p].high = 0
  BY <1>1, <1>2
<1>5. CandsSeen'
  BY <1>1, <1>3, <1>4 DEF CandsSeen
<1>6. CeilingsDwelled'
  BY <1>1, GovConstants DEF CeilingsDwelled, V!CeilingDwelled
<1> QED BY <1>5, <1>6

LEMMA GovTrains ==
  ASSUME GovInv, V!Start \/ V!Finish \/ V!Reset PROVE GovInv'
<1>1. UNCHANGED <<V_floor, V_lowest, V_ev, V_now>>
  BY DEF V!Start, V!Finish, V!Reset
<1>2. FloorsKept' /\ EventsRight'
  BY <1>1 DEF GovInv, FloorsKept, EventsRight, EventRight
<1>3. CASE V!Cleared
  BY <1>1, <1>2, <1>3, ClearKeeps DEF GovInv
<1>4. CASE V!Promoted(V_cand)
  <2>1. CandsSeen'
    BY <1>1, <1>4 DEF GovInv, CandsSeen, V!Promoted
  <2> QED BY <1>1, <1>2, <1>4, <2>1, PromotionDwells DEF GovInv
<1> QED BY <1>3, <1>4 DEF V!Start, V!Finish, V!Reset

LEMMA GovReplaces ==
  ASSUME GovInv, NEW list, V!Replace(list) PROVE GovInv'
  BY DEF V!Replace, V!training, GovInv, FloorsKept, EventsRight, EventRight,
     CandsSeen, CeilingsDwelled, V!CeilingDwelled

LEMMA GovLooksToLearn ==
  ASSUME GovInv, NEW w \in V_Watcher, V!LookToLearn(w) PROVE GovInv'
<1> DEFINE e == V_ev[w]
<1>1. e \in Judged /\ e.at = "learn"
  BY DEF GovInv, EventsRight, V!LookToLearn
<1>2. UNCHANGED <<V_floor, V_lowest, V_now>> /\ V!Looked
  BY DEF V!LookToLearn
<1>3. PICK at \in {"fold", "done", "white"}, seen \in {V_now, 0} :
        V_ev' = [V_ev EXCEPT ![w] = [e EXCEPT !.at = at, !.since = seen]]
  BY DEF V!LookToLearn, V!After
<1>4. seen \in Nat
  BY <1>3 DEF GovInv, CandsSeen
<1>5. PICK f : f = [e EXCEPT !.at = at, !.since = seen]
  OBVIOUS
<1>6. Onward(e, f)
  <2>1. at \in {"learn", "fold", "white", "look", "match", "done"}
    BY <1>3
  <2>2. "none" \in V!Rules \cup {"none"}
    OBVIOUS
  <2>3. e.at # "idle"
    BY <1>1
  <2> HIDE DEF e
  <2>4. Onward(e, [e EXCEPT !.at = at, !.since = seen])
    BY <1>1, <1>4, <2>1, <2>2, <2>3, EventGoesTo
  <2> QED BY <1>5, <2>4
<1>7. EventsRight'
  BY <1>3, <1>5, <1>6, EventGoesOn DEF GovInv
<1>8. FloorsKept' /\ CandsSeen' /\ CeilingsDwelled'
  BY <1>2, LooksKeep DEF GovInv, FloorsKept
<1> QED BY <1>7, <1>8 DEF GovInv

LEMMA GovLooksToMatch ==
  ASSUME GovInv, NEW w \in V_Watcher, V!LookToMatch(w) PROVE GovInv'
<1> DEFINE e == V_ev[w]
<1>1. e \in Judged /\ e.at = "look"
  BY DEF GovInv, EventsRight, V!LookToMatch
<1>2. UNCHANGED <<V_floor, V_lowest, V_now>> /\ V!Looked
  BY DEF V!LookToMatch
<1>3. PICK at \in {"match", "done"} :
        V_ev' = [V_ev EXCEPT ![w].at = at]
  BY DEF V!LookToMatch
<1>4. PICK f : f = [e EXCEPT !.at = at]
  OBVIOUS
<1>5. V_ev' = [V_ev EXCEPT ![w] = f]
  BY <1>3, <1>4
<1>6. Onward(e, f)
  <2>1. f \in Judged /\ e.at # "idle"
    BY <1>1, <1>3, <1>4 DEF Judged
  <2> QED BY <1>1, <1>4, <2>1 DEF Onward, Judged
<1>7. EventsRight'
  BY <1>5, <1>6, EventGoesOn DEF GovInv
<1>8. FloorsKept' /\ CandsSeen' /\ CeilingsDwelled'
  BY <1>2, LooksKeep DEF GovInv, FloorsKept
<1> QED BY <1>7, <1>8 DEF GovInv

LEMMA GovMatches ==
  ASSUME GovInv, NEW w \in V_Watcher,
         V!MatchLearned(w) \/ \E hashed \in V_Reading : V!MatchWhite(w, hashed)
  PROVE  GovInv'
<1> DEFINE e == V_ev[w]
<1>1. e \in Judged /\ e.at \in {"match", "white"}
  BY DEF GovInv, EventsRight, V!MatchLearned, V!MatchWhite
<1>2. UNCHANGED <<V_floor, V_lowest, V_now, V_cand, V_kept, V_ceiling>>
  BY DEF V!MatchLearned, V!MatchWhite, V!training
<1>3. PICK at \in {"look", "done"}, rule \in V!Rules \cup {"none"} :
        \/ V_ev' = [V_ev EXCEPT ![w] = [e EXCEPT !.at = at, !.rule = rule]]
        \/ V_ev' = [V_ev EXCEPT ![w] = [e EXCEPT !.rule = rule, !.at = at]]
  <2>1. CASE V!MatchLearned(w)
    BY <2>1 DEF V!MatchLearned, V!Rules
  <2>2. CASE \E hashed \in V_Reading : V!MatchWhite(w, hashed)
    BY <2>2 DEF V!MatchWhite, V!Rules
  <2> QED BY <2>1, <2>2
<1>4. PICK f : f \in {[e EXCEPT !.at = at, !.rule = rule],
                      [e EXCEPT !.rule = rule, !.at = at]}
               /\ V_ev' = [V_ev EXCEPT ![w] = f]
  BY <1>3
<1>5. Onward(e, f)
  <2>1. f \in Judged /\ e.at # "idle"
    BY <1>1, <1>3, <1>4 DEF Judged
  <2> QED BY <1>1, <1>4, <2>1 DEF Onward, Judged
<1>6. EventsRight'
  BY <1>4, <1>5, EventGoesOn DEF GovInv
<1>7. FloorsKept' /\ CandsSeen' /\ CeilingsDwelled'
  BY <1>2 DEF GovInv, FloorsKept, CandsSeen, CeilingsDwelled, V!CeilingDwelled
<1> QED BY <1>6, <1>7 DEF GovInv

Sighting == [V_Path -> [high : Level, since : Nat]]
\* What was seen of a path is no later and no lower than its candidate.
SeenOf(c, s) ==
  \A p \in V_Path : c[p].high > 0 =>
    s[p].high >= c[p].high /\ s[p].since <= c[p].since

\* One reading more, put with the candidates and with what was seen.
LEMMA FoldIs ==
  ASSUME NEW c \in Sighting, NEW s \in Sighting, SeenOf(c, s),
         NEW p \in V_Path, NEW e \in Level, NEW seen \in Nat
  PROVE  /\ V!Folded(c, p, e, seen) \in Sighting
         /\ V!Sighted(s, p, e, seen) \in Sighting
         /\ SeenOf(V!Folded(c, p, e, seen), V!Sighted(s, p, e, seen))
         /\ \A q \in V_Path :
              V!Sighted(s, p, e, seen)[q].high >= s[q].high
              /\ (s[q].high > 0
                  => V!Sighted(s, p, e, seen)[q].since <= s[q].since)
<1> DEFINE f == V!Folded(c, p, e, seen)
           g == V!Sighted(s, p, e, seen)
           top == V!MaxOf({e, s[p].high})
           first == V!MinOf({seen, s[p].since})
<1>1. /\ c[p] \in [high : Level, since : Nat]
      /\ s[p] \in [high : Level, since : Nat]
  BY DEF Sighting
<1>2. top \in Level /\ top \in {e, s[p].high} /\ top >= e /\ top >= s[p].high
  <2>1. {e, s[p].high} \subseteq Level
    BY <1>1
  <2> QED BY <2>1, MaxOfIs
<1>3. first \in Nat /\ first <= seen /\ first <= s[p].since
  <2>1. {seen, s[p].since} \subseteq Nat
    BY <1>1
  <2> QED BY <2>1, MinOfIs
<1>4. PICK new \in [high : Level, since : Nat] :
        /\ g = [s EXCEPT ![p] = new]
        /\ s[p].high = 0 => new.high = e /\ new.since = seen
        /\ s[p].high # 0 => new.high = top /\ new.since = first
  <2> HIDE DEF top, first
  <2>1. CASE s[p].high = 0
    <3>1. g = [s EXCEPT ![p] = [high |-> e, since |-> seen]]
      BY <2>1 DEF V!Sighted
    <3> HIDE DEF g
    <3> QED BY <2>1, <3>1
  <2>2. CASE s[p].high # 0
    <3>1. g = [s EXCEPT ![p] = [high |-> top, since |-> first]]
      BY <2>2 DEF V!Sighted, top, first
    <3>2. PICK n : n = [high |-> top, since |-> first]
      OBVIOUS
    <3>3. n \in [high : Level, since : Nat] /\ n.high = top /\ n.since = first
      BY <1>2, <1>3, <3>2
    <3>4. g = [s EXCEPT ![p] = n]
      BY <3>1, <3>2
    <3> HIDE DEF g
    <3> QED BY <2>2, <3>3, <3>4
  <2> QED BY <2>1, <2>2
<1>5. PICK put \in [high : Level, since : Nat] :
        /\ f = [c EXCEPT ![p] = put]
        /\ c[p].high = 0 => put.high = e /\ put.since = seen
        /\ c[p].high # 0 => /\ put.since = c[p].since
                            /\ put.high \in {e, c[p].high}
  <2>1. CASE c[p].high = 0
    <3>1. f = [c EXCEPT ![p] = [high |-> e, since |-> seen]]
      BY <2>1 DEF V!Folded
    <3> HIDE DEF f
    <3> QED BY <2>1, <3>1
  <2>2. CASE c[p].high # 0 /\ e > c[p].high
    <3>1. f = [c EXCEPT ![p].high = e]
      BY <2>2 DEF V!Folded
    <3>2. [c[p] EXCEPT !.high = e] \in [high : Level, since : Nat]
      BY <1>1
    <3> HIDE DEF f
    <3> QED BY <1>1, <2>2, <3>1, <3>2
  <2>3. CASE c[p].high # 0 /\ ~(e > c[p].high)
    <3>1. f = c
      BY <2>3 DEF V!Folded
    <3>2. f = [c EXCEPT ![p] = c[p]]
      BY <3>1 DEF Sighting
    <3> HIDE DEF f
    <3> QED BY <1>1, <2>3, <3>2
  <2> QED BY <2>1, <2>2, <2>3
<1> HIDE DEF f, g, top, first
<1>6. f \in Sighting /\ g \in Sighting
  BY <1>4, <1>5 DEF Sighting
<1>7. f[p] = put /\ g[p] = new /\ \A q \in V_Path \ {p} : f[q] = c[q] /\ g[q] = s[q]
  BY <1>4, <1>5 DEF Sighting
<1>8. new.high >= s[p].high /\ (s[p].high > 0 => new.since <= s[p].since)
      /\ new.high >= e /\ new.since <= seen
  BY <1>1, <1>2, <1>3, <1>4 DEF Level, V!Top
<1>9. put.high > 0 => new.high >= put.high /\ new.since <= put.since
  <2>1. CASE c[p].high = 0
    BY <1>5, <1>8, <2>1
  <2>2. CASE c[p].high # 0
    <3>1. s[p].high >= c[p].high /\ s[p].since <= c[p].since /\ c[p].high > 0
      BY <1>1, <2>2 DEF SeenOf, Level, V!Top
    <3>2. s[p].high > 0
      BY <1>1, <3>1 DEF Level, V!Top
    <3> QED BY <1>1, <1>5, <1>8, <2>2, <3>1, <3>2 DEF Level, V!Top
  <2> QED BY <2>1, <2>2
<1>10. SeenOf(f, g)
  BY <1>7, <1>9 DEF SeenOf
<1>11. \A q \in V_Path : g[q].high >= s[q].high
                         /\ (s[q].high > 0 => g[q].since <= s[q].since)
  <2>1. \A q \in V_Path : s[q].high \in Nat /\ s[q].since \in Nat
    BY DEF Sighting, Level, V!Top
  <2> QED BY <1>7, <1>8, <2>1
<1> QED BY <1>6, <1>10, <1>11 DEF f, g

\* A trim takes a path out or leaves all as they are.
LEMMA TrimIs ==
  ASSUME NEW c \in Sighting, NEW s \in Sighting, SeenOf(c, s),
         NEW d \in V!Trimmed(c)
  PROVE  d \in Sighting /\ SeenOf(d, s)
<1>1. CASE d = c
  BY <1>1
<1>2. ASSUME NEW p \in V_Path, d = [c EXCEPT ![p] = V!NoCand]
      PROVE  d \in Sighting /\ SeenOf(d, s)
  <2>1. V!NoCand \in [high : Level, since : Nat] /\ V!NoCand.high = 0
    BY GovConstants DEF V!NoCand
  <2> QED BY <1>2, <2>1 DEF Sighting, SeenOf
<1> QED BY <1>1, <1>2 DEF V!Trimmed

LEMMA GovFolds ==
  ASSUME GovInv, NEW w \in V_Watcher, V!Fold(w) PROVE GovInv'
<1>0. PICK e : e = V_ev[w]
  OBVIOUS
<1> DEFINE k == V!KeyOf(e.r)
           s == V!Sighted(V_kept[k], e.path, e.r.entropy, e.since)
<1>1. e \in Judged /\ e.at = "fold" /\ EventRight(e)
  BY <1>0 DEF GovInv, EventsRight, V!Fold
<1>2. e.path \in V_Path /\ e.r.entropy \in Level /\ e.since \in Nat
      /\ k \in V!Structure
  <2>1. e.path \in V_Path /\ e.r \in V_Reading
    BY <1>1 DEF EventRight
  <2>2. e.r.entropy \in Level
    BY <2>1, GovConstants DEF V!ReadingType, Level
  <2>3. e.since \in Nat
    BY <1>1 DEF Judged
  <2> QED BY <2>1, <2>2, <2>3 DEF V!KeyOf, V!Structure
<1>3. UNCHANGED <<V_floor, V_lowest, V_now, V_ceiling>>
      /\ V_kept' = [V_kept EXCEPT ![k] = s]
      /\ V_ev' = [V_ev EXCEPT ![w].at = V!After(e)]
  BY <1>0 DEF V!Fold
<1>4. PICK c \in V!Trimmed(V!Folded(V_cand[k], e.path, e.r.entropy, e.since)) :
        V_cand' = [V_cand EXCEPT ![k] = c]
  BY <1>0 DEF V!Fold
<1>5. V_cand \in [V!Structure -> Sighting] /\ V_kept \in [V!Structure -> Sighting]
      /\ \A j \in V!Structure : SeenOf(V_cand[j], V_kept[j])
  BY DEF GovInv, CandsSeen, Sightings, Sighting, SeenOf
<1>6. V_cand[k] \in Sighting /\ V_kept[k] \in Sighting
      /\ SeenOf(V_cand[k], V_kept[k])
  BY <1>2, <1>5
<1>7. /\ V!Folded(V_cand[k], e.path, e.r.entropy, e.since) \in Sighting
      /\ s \in Sighting
      /\ SeenOf(V!Folded(V_cand[k], e.path, e.r.entropy, e.since), s)
      /\ \A q \in V_Path :
           s[q].high >= V_kept[k][q].high
           /\ (V_kept[k][q].high > 0 => s[q].since <= V_kept[k][q].since)
  BY <1>2, <1>6, FoldIs
<1> HIDE DEF s, k
<1>8. c \in Sighting /\ SeenOf(c, s)
  BY <1>4, <1>7, TrimIs
<1>9. V_cand' \in [V!Structure -> Sighting] /\ V_kept' \in [V!Structure -> Sighting]
  BY <1>2, <1>3, <1>4, <1>5, <1>7, <1>8
<1>10. \A j \in V!Structure : SeenOf(V_cand'[j], V_kept'[j])
  BY <1>2, <1>3, <1>4, <1>5, <1>8
<1>11. CandsSeen'
  BY <1>3, <1>9, <1>10 DEF GovInv, CandsSeen, Sightings, Sighting, SeenOf
<1>12. CeilingsDwelled'
  <2>1. ASSUME NEW j \in V!Structure, V_ceiling[j] # 0
        PROVE  \E p \in V_Path : /\ V_kept'[j][p].high >= V_ceiling[j]
                                 /\ V_now >= V_kept'[j][p].since + V_Dwell
    <3>1. PICK p \in V_Path : /\ V_kept[j][p].high >= V_ceiling[j]
                              /\ V_now >= V_kept[j][p].since + V_Dwell
      BY <2>1 DEF GovInv, CeilingsDwelled, V!CeilingDwelled
    <3>2. V_ceiling[j] \in Level /\ V_now \in Nat
      BY DEF GovInv, CeilingsDwelled, CandsSeen
    <3>3. CASE j # k
      BY <1>3, <1>5, <3>1, <3>3
    <3>4. CASE j = k
      <4>1. V_kept'[j] = s
        BY <1>2, <1>3, <1>5, <3>4
      <4>2. /\ s[p].high \in Nat /\ s[p].since \in Nat
            /\ V_kept[k][p].high \in Nat /\ V_kept[k][p].since \in Nat
        <5>1. /\ s[p] \in [high : Level, since : Nat]
              /\ V_kept[k][p] \in [high : Level, since : Nat]
          BY <1>6, <1>7 DEF Sighting
        <5> QED BY <5>1 DEF Level, V!Top
      <4>3. V_kept[k][p].high > 0 /\ V_ceiling[j] \in Nat
        BY <2>1, <3>1, <3>2, <3>4, <4>2 DEF Level, V!Top
      <4>4. s[p].high >= V_kept[k][p].high
            /\ s[p].since <= V_kept[k][p].since
        BY <1>7, <4>3
      <4>5. s[p].high >= V_ceiling[j]
        BY <3>1, <3>4, <4>2, <4>3, <4>4
      <4>6. V_now >= s[p].since + V_Dwell
        BY <3>1, <3>2, <3>4, <4>2, <4>4, GovConstants
      <4> QED BY <4>1, <4>5, <4>6
    <3> QED BY <3>3, <3>4
  <2> QED BY <1>3, <2>1 DEF GovInv, CeilingsDwelled, V!CeilingDwelled
<1>13. EventsRight'
  <2>1. PICK f : f = [e EXCEPT !.at = V!After(e)]
    OBVIOUS
  <2>2. V!After(e) \in {"done", "white"}
    BY DEF V!After
  <2>3. f \in Judged /\ e.at # "idle"
    BY <1>1, <2>1, <2>2 DEF Judged
  <2>4. Onward(e, f)
    BY <1>1, <2>1, <2>3 DEF Onward, Judged
  <2>5. V_ev' = [V_ev EXCEPT ![w] = f]
    BY <1>0, <1>3, <2>1
  <2> QED BY <1>0, <2>4, <2>5, EventGoesOn DEF GovInv
<1>14. FloorsKept'
  BY <1>3 DEF GovInv, FloorsKept
<1> QED BY <1>11, <1>12, <1>13, <1>14 DEF GovInv

LEMMA GovInit == V!Init => GovInv
<1> SUFFICES ASSUME V!Init PROVE GovInv
  OBVIOUS
<1>1. FloorsKept
  BY GovConstants DEF V!Init, FloorsKept
<1>2. EventsRight
  <2>1. V!NoEvent \in Judged /\ V!NoEvent.at = "idle"
    BY GovConstants DEF V!NoEvent, Judged
  <2> QED BY <2>1 DEF V!Init, EventsRight, EventRight
<1>3. V!NoCand \in [high : Level, since : Nat] /\ V!NoCand.high = 0
  BY GovConstants DEF V!NoCand
<1>4. V_cand \in Sightings /\ V_kept = V_cand
  BY <1>3 DEF V!Init, Sightings
<1>5. \A k \in V!Structure, p \in V_Path : V_cand[k][p].high = 0
  BY <1>3 DEF V!Init
<1>6. CandsSeen
  BY <1>4, <1>5 DEF V!Init, CandsSeen
<1>7. CeilingsDwelled
  BY GovConstants DEF V!Init, CeilingsDwelled, V!CeilingDwelled
<1> QED BY <1>1, <1>2, <1>6, <1>7 DEF GovInv

LEMMA GovStep == ASSUME GovInv, V!Next PROVE GovInv'
  BY GovTicks, GovForgets, GovMeasures, GovLooksToLearn, GovFolds, GovMatches,
     GovLooksToMatch, GovTrains, GovReplaces DEF V!Next

\* What replaced a content is an alert, and no rule that is cheap to forge
\* takes it back.
LEMMA GovTells == GovInv => V!ReplacementStands /\ V!CeilingDwelled
<1> SUFFICES ASSUME GovInv PROVE V!ReplacementStands
  BY DEF GovInv, CeilingsDwelled
<1>1. ASSUME NEW w \in V_Watcher, V_ev[w].at = "done", V_ev[w].r.readable,
             \/ /\ V_ev[w].r.entropy >= V_RiseFloor /\ V_ev[w].least # 0
                /\ V_ev[w].r.entropy >= V_ev[w].least + V_Rise
             \/ /\ V_ev[w].r.container /\ V_ev[w].r.valid = "no"
                /\ V_ev[w].r.entropy >= V_Threshold \/ V_ev[w].r.partial
             \/ /\ ~ (V_ev[w].r.entropy >= V_Threshold) /\ V_ev[w].r.partial
                /\ V_ev[w].r.valid # "yes"
      PROVE  V!Stands(V_ev[w]) \/ V_ev[w].rule = "hash"
  <2> DEFINE e == V_ev[w]
  <2>1. /\ e.signal = V!Signal(e.path, e.r, e.base) /\ e.base = e.least
        /\ e.rule \in V!Rules \cup {"none"}
    BY <1>1 DEF GovInv, EventsRight, EventRight, Judged
  <2>2. e.signal \in {"entropy_rise", "structural_mismatch", "partial_entropy"}
    <3> HIDE DEF e
    <3> QED BY <1>1, <2>1 DEF V!Signal, V!RoseFar, V!PartialExplained, e
  <2>3. e.rule # "hash" => ~ V!Admitted(e.rule, e.signal)
    <3>1. V!AvoidanceCost[e.signal] = 2
      BY <2>2 DEF V!AvoidanceCost, V!Signals
    <3>2. ASSUME e.rule \in V!Rules, e.rule # "hash"
          PROVE  V!ForgeryCost[e.rule] = 1
      BY <3>2 DEF V!ForgeryCost
    <3> HIDE DEF e
    <3> QED BY <3>1, <3>2 DEF V!Admitted
  <2> QED BY <2>2, <2>3 DEF V!Stands, V!Cancelled
<1> QED BY <1>1 DEF V!ReplacementStands

GovPart == part = "governance" => GovInv

\* A content that rose, forged its container or is part ciphertext stays an
\* alert but for an approved hash; and a ceiling in force was watched for the
\* dwell, whatever events were in flight (classify, adjudicate, TrainingMode).
THEOREM RulesMustBeEarned == ServicesSpec => []RulesAreEarned
<1>1. ServicesInit => GovPart
  BY GovInit DEF ServicesInit, GovPart
<1>2. GovPart /\ [ServicesNext]_ServicesVars => GovPart'
  <2> SUFFICES ASSUME GovPart, [ServicesNext]_ServicesVars,
                      part' = "governance"
               PROVE  GovInv'
    BY DEF GovPart
  <2>1. part = "governance" /\ GovInv
    BY DEF GovPart, ServicesNext, ServicesVars
  <2>2. CASE V!Next
    BY <2>1, <2>2, GovStep
  <2>3. CASE UNCHANGED V_vars
    BY <2>1, <2>3 DEF V_vars, GovInv, FloorsKept, EventsRight, EventRight,
       CandsSeen, CeilingsDwelled, V!CeilingDwelled
  <2> QED BY <2>1, <2>2, <2>3 DEF ServicesNext, ServicesVars
<1>3. GovPart => RulesAreEarned
  BY GovTells DEF GovPart, RulesAreEarned
<1> QED BY <1>1, <1>2, <1>3, PTL DEF ServicesSpec

-------------------------------------------------------------------------------
(* Start and stop (MonitorLife): what holds at each statement of a call, as *)
(* long as no call was in the middle of another.                           *)

\* Nothing is watched any more, or yet.
LifeDown ==
  {"joinOld", "worker", "startWorker", "lanes", "unpause", "build", "watch",
   "joinIt", "clear", "stopLanes", "unname"}

\* The observer and the id are those of the watch, unless a start failed.
LifeWhole ==
  {"idle", "started", "stopOld", "subscribe", "attribute", "pause", "stopIt",
   "answered"}

LifeAt(pc) ==
  /\ M!Watching \subseteq {M_cur}
  /\ pc \in LifeDown => M!Watching = {}
  /\ M!Watching # {} /\ pc # "stopIt" =>
       M_lanes /\ ~M_paused /\ M_worker = "alive"
  /\ M_subs = IF M_source \/ pc = "attribute" THEN 1 ELSE 0
  /\ pc \in {"subscribe", "attribute"} => ~M_source
  /\ pc \in LifeWhole /\ ~M_failed =>
       M_id = M_cur /\ (M_cur # 0 => M_cur \in M!Watching)
  /\ pc \in {"stopOld", "stopIt", "joinOld", "joinIt"} => M_cur # 0
  /\ pc \in {"joinOld", "joinIt"} /\ ~M_failed => M!Started(M_cur)
  /\ pc = "startWorker" => M_worker = "made"
  /\ pc \in {"lanes", "unpause", "build", "watch"} => M_worker = "alive"
  /\ pc \in {"unpause", "build", "watch"} => M_lanes
  /\ pc \in {"build", "watch"} => ~M_paused
  /\ pc = "watch" => M_cur # 0 /\ M_obs[M_cur] = "built"
  /\ pc = "id" =>
       M_cur \in M!Watching /\ M_lanes /\ ~M_paused /\ M_worker = "alive"
  /\ pc \in {"stopLanes", "unname"} => M_cur = 0
  /\ pc = "error" => M_failed

\* One call is on its way, or none.
LifeAlone(pc) ==
  \/ pc = "idle" /\ M!Rest
  \/ \E c \in M_Call : /\ M!At(c, pc)
                       /\ \A d \in M_Call \ {c} : M!At(d, "idle")

LifeInv ==
  /\ M!TypeOK
  /\ ~M_overlap => \E pc \in M!Pc : LifeAt(pc) /\ LifeAlone(pc)

LEMMA LifeType == ASSUME M!TypeOK, M!Next PROVE M!TypeOK'
<1> USE ServicesAssumption DEF ServicesAssumption, M!LifeAssumption
<1> DEFINE Op == {"none", "start", "stop"}
<1>1. ASSUME NEW c \in M_Call, NEW pc \in M!Pc, M!Step(c, pc)
      PROVE  M_call' \in [M_Call -> [pc : M!Pc, op : Op]]
  <2>1. M_call[c] \in [pc : M!Pc, op : Op]
    BY DEF M!TypeOK
  <2>2. [M_call[c] EXCEPT !.pc = pc] \in [pc : M!Pc, op : Op]
    BY <2>1
  <2> QED BY <1>1, <2>2 DEF M!TypeOK, M!Step
<1>2. ASSUME NEW c \in M_Call, M!Raise(c)
      PROVE  M_call' \in [M_Call -> [pc : M!Pc, op : Op]]
  <2>1. M_call[c] \in [pc : M!Pc, op : Op]
    BY DEF M!TypeOK
  <2>2. [pc |-> "error", op |-> M_call[c].op] \in [pc : M!Pc, op : Op]
    BY <2>1 DEF M!Pc
  <2> QED BY <1>2, <2>2 DEF M!TypeOK, M!Raise
<1>3. ASSUME NEW c \in M_Call, NEW pc \in M!Pc, NEW o \in Op,
             M_call' = [M_call EXCEPT ![c] = [pc |-> pc, op |-> o]]
      PROVE  M_call' \in [M_Call -> [pc : M!Pc, op : Op]]
  BY <1>3 DEF M!TypeOK
<1>4. ASSUME NEW c \in M_Call, NEW pc \in M!Pc, M!StopObserver(c, pc)
      PROVE  M!TypeOK'
  <2>1. \A o \in M!Observer : M!Stopped(o) \in
          {"none", "built", "watching", "ending", "over", "cancelled", "broken"}
    BY DEF M!TypeOK, M!Stopped
  <2>2. M_call' \in [M_Call -> [pc : M!Pc, op : Op]]
    BY <1>1, <1>2, <1>4 DEF M!StopObserver
  <2>3. M_cur # 0 => M_cur \in M!Observer
    BY DEF M!TypeOK, M!Observer
  <2> QED BY <1>4, <2>1, <2>2, <2>3 DEF M!StopObserver, M!TypeOK
<1>5. ASSUME NEW c \in M_Call, NEW pc \in M!Pc, M!JoinObserver(c, pc)
      PROVE  M!TypeOK'
  <2>1. M_call' \in [M_Call -> [pc : M!Pc, op : Op]]
    BY <1>1, <1>2, <1>5 DEF M!JoinObserver
  <2> QED BY <1>5, <2>1 DEF M!JoinObserver, M!TypeOK
<1>6. ASSUME NEW c \in M_Call, M!Start(c) \/ M!Stop(c)
      PROVE  M!TypeOK'
  <2>1. M_call' \in [M_Call -> [pc : M!Pc, op : Op]]
    BY <1>3, <1>6 DEF M!Start, M!Stop, M!Pc
  <2> QED BY <1>6, <2>1 DEF M!Start, M!Stop, M!TypeOK
<1>7. ASSUME NEW c \in M_Call, M!LookForOld(c) \/ M!MakeWorker(c) \/ M!StartWorker(c)
      PROVE  M!TypeOK'
  <2>1. M!ReplacesOld \in M!Pc /\ "lanes" \in M!Pc /\ "startWorker" \in M!Pc
    BY DEF M!ReplacesOld, M!Pc
  <2>2. M_call' \in [M_Call -> [pc : M!Pc, op : Op]]
    BY <1>1, <1>2, <1>7, <2>1 DEF M!LookForOld, M!MakeWorker, M!StartWorker
  <2> QED BY <1>7, <2>2 DEF M!LookForOld, M!MakeWorker, M!StartWorker, M!TypeOK
<1>8. ASSUME NEW c \in M_Call,
             M!StartLanes(c) \/ M!Unpause(c) \/ M!Name(c) \/ M!Subscribe(c)
               \/ M!Attribute(c)
      PROVE  M!TypeOK'
  <2>1. {"unpause", "build", "answered", "subscribe", "attribute"} \subseteq M!Pc
    BY DEF M!Pc
  <2>2. M_call' \in [M_Call -> [pc : M!Pc, op : Op]]
    BY <1>1, <1>8, <2>1
    DEF M!StartLanes, M!Unpause, M!Name, M!Subscribe, M!Attribute
  <2>3. CASE M!StartLanes(c) \/ M!Unpause(c)
    BY <2>2, <2>3 DEF M!StartLanes, M!Unpause, M!TypeOK
  <2>4. CASE M!Name(c)
    BY <2>2, <2>4 DEF M!Name, M!TypeOK
  <2>5. CASE M!Subscribe(c)
    BY <2>2, <2>5 DEF M!Subscribe, M!TypeOK
  <2>6. CASE M!Attribute(c)
    BY <2>2, <2>6 DEF M!Attribute, M!Again, M!TypeOK
  <2> QED BY <1>8, <2>3, <2>4, <2>5, <2>6
<1>9. ASSUME NEW c \in M_Call, M!Build(c)
      PROVE  M!TypeOK'
  <2>1. M_call' \in [M_Call -> [pc : M!Pc, op : Op]]
    BY <1>1, <1>9 DEF M!Build, M!Pc
  <2> QED BY <1>9, <2>1 DEF M!Build, M!TypeOK, M!Observer
<1>10. ASSUME NEW c \in M_Call, M!Watch(c)
       PROVE  M!TypeOK'
  <2>1. M_call' \in [M_Call -> [pc : M!Pc, op : Op]]
    BY <1>1, <1>2, <1>10 DEF M!Watch, M!Pc
  <2>2. M_obs' \in [M!Observer -> {"none", "built", "watching", "ending", "over",
                                   "cancelled", "broken"}]
    BY <1>10 DEF M!Watch, M!TypeOK
  <2> QED BY <1>10, <2>1, <2>2 DEF M!Watch, M!TypeOK
<1>11. ASSUME NEW c \in M_Call,
              M!Pause(c) \/ M!Clear(c) \/ M!StopLanes(c) \/ M!Unname(c) \/ M!Answer(c)
       PROVE  M!TypeOK'
  <2>1. M!StopsIt \in M!Pc /\ {"stopLanes", "unname", "answered", "idle"} \subseteq M!Pc
    BY DEF M!StopsIt, M!Pc
  <2>2. M_call' \in [M_Call -> [pc : M!Pc, op : Op]]
    BY <1>1, <1>3, <1>11, <2>1
    DEF M!Pause, M!Clear, M!StopLanes, M!Unname, M!Answer
  <2>3. CASE M!Pause(c) \/ M!Answer(c)
    BY <2>2, <2>3 DEF M!Pause, M!Answer, M!TypeOK
  <2>4. CASE M!Clear(c)
    BY <2>2, <2>4 DEF M!Clear, M!TypeOK
  <2>5. CASE M!StopLanes(c)
    BY <2>2, <2>5 DEF M!StopLanes, M!TypeOK
  <2>6. CASE M!Unname(c)
    BY <2>2, <2>6 DEF M!Unname, M!TypeOK
  <2> QED BY <1>11, <2>3, <2>4, <2>5, <2>6
<1>12. ASSUME NEW o \in M!Observer, M!End(o)
       PROVE  M!TypeOK'
  BY <1>12 DEF M!End, M!TypeOK
<1>13. "joinOld" \in M!Pc /\ "worker" \in M!Pc /\ "joinIt" \in M!Pc /\ "clear" \in M!Pc
  BY DEF M!Pc
<1> QED BY <1>4, <1>5, <1>6, <1>7, <1>8, <1>9, <1>10, <1>11, <1>12, <1>13 DEF M!Next

LEMMA LifeHere ==
  ASSUME LifeInv, ~M_overlap, NEW c \in M_Call, ~M!At(c, "idle")
  PROVE  LifeAt(M_call[c].pc) /\ \A d \in M_Call \ {c} : M!At(d, "idle")
<1>1. PICK pc \in M!Pc : LifeAt(pc) /\ LifeAlone(pc)
  BY DEF LifeInv
<1>2. M!At(c, pc) /\ \A d \in M_Call \ {c} : M!At(d, "idle")
  BY <1>1 DEF LifeAlone, M!Rest, M!At
<1> QED BY <1>1, <1>2 DEF M!At

\* Call c is now at pc.
LifeTo(c, pc) ==
  M_call'[c].pc = pc /\ \A d \in M_Call \ {c} : M_call'[d] = M_call[d]

LEMMA LifeGoes ==
  ASSUME M!TypeOK', NEW c \in M_Call, NEW pc \in M!Pc, LifeTo(c, pc),
         ~M_overlap' =>
           LifeAt(pc)' /\ \A d \in M_Call \ {c} : M!At(d, "idle")
  PROVE  LifeInv'
<1>1. ASSUME ~M_overlap' PROVE LifeAlone(pc)'
  BY <1>1 DEF LifeAlone, LifeTo, M!At
<1> QED BY <1>1 DEF LifeInv

LEMMA LifeSteps ==
  ASSUME M!TypeOK, NEW c \in M_Call, NEW pc
  PROVE  /\ M!Step(c, pc) => LifeTo(c, pc)
         /\ M!Raise(c) => LifeTo(c, "error")
         /\ \A o : M_call' = [M_call EXCEPT ![c] = [pc |-> pc, op |-> o]] =>
              LifeTo(c, pc)
  BY DEF M!TypeOK, M!Step, M!Raise, LifeTo

\* Observers are numbered from 1.
LEMMA LifeObserver ==
  ASSUME M!TypeOK
  PROVE  /\ 0 \notin M!Observer /\ 0 \notin M!Watching
         /\ M_cur # 0 => M_cur \in M!Observer
         /\ M_obs \in [M!Observer -> {"none", "built", "watching", "ending",
                                      "over", "cancelled", "broken"}]
  BY DEF M!TypeOK, M!Observer, M!Watching

LEMMA LifeBegins ==
  ASSUME LifeInv, M!TypeOK', NEW c \in M_Call, M!Start(c) \/ M!Stop(c)
  PROVE  LifeInv'
<1>1. PICK pc \in {"started", "pause", "answered"}, o \in {"start", "stop"} :
        M_call' = [M_call EXCEPT ![c] = [pc |-> pc, op |-> o]]
  BY DEF M!Start, M!Stop
<1>2. pc \in M!Pc /\ LifeTo(c, pc)
  BY <1>1, LifeSteps DEF M!Pc, LifeInv
<1>3. ASSUME ~M_overlap'
      PROVE  LifeAt(pc)' /\ \A d \in M_Call \ {c} : M!At(d, "idle")
  <2>1. ~M_overlap /\ \A d \in M_Call : M!At(d, "idle")
    BY <1>3 DEF M!Start, M!Stop
  <2>2. LifeAt("idle")
    BY <2>1 DEF LifeInv, LifeAlone, M!At
  <2>3. LifeAt(pc)
    BY <2>2 DEF LifeAt, LifeDown, LifeWhole
  <2>4. UNCHANGED <<M_obs, M_cur, M_id, M_worker, M_lanes, M_paused, M_subs,
                    M_source, M_failed>>
    BY DEF M!Start, M!Stop
  <2> QED BY <2>1, <2>3, <2>4 DEF LifeAt, M!Watching, M!Started
<1> QED BY <1>2, <1>3, LifeGoes

\* What a call that goes on finds, when it met no other.
LEMMA LifeFinds ==
  ASSUME LifeInv, NEW c \in M_Call, NEW pc, M!At(c, pc), pc # "idle"
  PROVE  ~M_overlap => LifeAt(pc) /\ \A d \in M_Call \ {c} : M!At(d, "idle")
  BY LifeHere DEF M!At

\* Nothing but the call moves.
LifeStill == UNCHANGED <<M_obs, M_cur, M_id, M_worker, M_lanes, M_paused, M_subs,
                         M_source, M_failed>>

LEMMA LifeSame == ASSUME LifeStill, NEW pc, LifeAt(pc) PROVE LifeAt(pc)'
<1>1. M_cur' = M_cur /\ M!Watching' = M!Watching
  BY DEF LifeStill, M!Watching, M!Observer
<1>2. M!Started(M_cur)' <=> M!Started(M_cur)
  BY DEF LifeStill, M!Started
<1> QED BY <1>1, <1>2 DEF LifeStill, LifeAt

LEMMA LifeLooks ==
  ASSUME LifeInv, M!TypeOK', NEW c \in M_Call, M!LookForOld(c)
  PROVE  LifeInv'
<1>1. PICK pc : pc = M!ReplacesOld
  OBVIOUS
<1>2. pc \in M!Pc /\ LifeTo(c, pc)
  BY <1>1, LifeSteps DEF M!LookForOld, M!ReplacesOld, M!Pc, LifeInv
<1>3. ~M_overlap =>
        LifeAt("started") /\ \A d \in M_Call \ {c} : M!At(d, "idle")
  BY LifeFinds DEF M!LookForOld
<1>4. LifeAt("started") => LifeAt(pc)
  BY <1>1, LifeObserver DEF LifeAt, LifeDown, LifeWhole, M!ReplacesOld, LifeInv
<1>5. LifeStill /\ UNCHANGED M_overlap
  BY DEF M!LookForOld, LifeStill
<1> QED BY <1>2, <1>3, <1>4, <1>5, LifeSame, LifeGoes

\* The observer stops: nothing is watched any more.
LEMMA LifeStopsObserver ==
  ASSUME LifeInv, M!TypeOK', NEW c \in M_Call,
         NEW pc \in {"stopOld", "stopIt"}, NEW next \in {"joinOld", "joinIt"},
         M!At(c, pc), M!StopObserver(c, next)
  PROVE  LifeInv'
<1>1. ~M_overlap => LifeAt(pc) /\ \A d \in M_Call \ {c} : M!At(d, "idle")
  BY LifeFinds
<1>2. UNCHANGED <<M_cur, M_id, M_worker, M_lanes, M_paused, M_subs, M_source,
                  M_failed, M_overlap>>
  BY DEF M!StopObserver
<1>3. CASE M_cur = 0
  <2>1. LifeTo(c, "error") /\ "error" \in M!Pc
    BY <1>3, LifeSteps DEF M!StopObserver, M!Pc, LifeInv
  <2>2. LifeAt(pc) => FALSE
    BY <1>3 DEF LifeAt
  <2> QED BY <1>1, <1>2, <2>1, <2>2, LifeGoes
<1>4. CASE M_cur # 0
  <2>1. /\ LifeTo(c, next) /\ next \in M!Pc
        /\ M_obs' = [M_obs EXCEPT ![M_cur] = M!Stopped(M_cur)]
    BY <1>4, LifeSteps DEF M!StopObserver, M!Pc, LifeInv
  <2>2. ASSUME LifeAt(pc) PROVE LifeAt(next)'
    <3>1. M_cur \in M!Observer /\ M!Observer' = M!Observer
      BY <1>4, LifeObserver DEF LifeInv, M!Observer
    <3>2. M_obs'[M_cur] = M!Stopped(M_cur) /\ M!Stopped(M_cur) # "watching"
      BY <2>1, <3>1, LifeObserver DEF LifeInv, M!Stopped
    <3>3. \A o \in M!Observer : o # M_cur => M_obs'[o] = M_obs[o]
      BY <2>1, LifeObserver DEF LifeInv
    <3>4. M!Watching' = {}
      BY <2>2, <3>1, <3>2, <3>3, <1>2 DEF LifeAt, M!Watching
    <3>5. ~M_failed => M_obs[M_cur] = "watching"
      BY <1>4, <2>2 DEF LifeAt, LifeWhole, M!Watching
    <3>6. ~M_failed => M_obs'[M_cur] = "ending"
      BY <3>2, <3>5 DEF M!Stopped
    <3> QED BY <1>2, <1>4, <2>2, <3>4, <3>6
            DEF LifeAt, LifeDown, LifeWhole, M!Started
  <2> QED BY <1>1, <1>2, <2>1, <2>2, LifeGoes
<1> QED BY <1>3, <1>4

LEMMA LifeJoins ==
  ASSUME LifeInv, M!TypeOK', NEW c \in M_Call,
         NEW pc \in {"joinOld", "joinIt"}, NEW next \in {"worker", "clear"},
         M!At(c, pc), M!JoinObserver(c, next)
  PROVE  LifeInv'
<1>1. ~M_overlap => LifeAt(pc) /\ \A d \in M_Call \ {c} : M!At(d, "idle")
  BY LifeFinds
<1>2. UNCHANGED <<M_obs, M_cur, M_id, M_worker, M_lanes, M_paused, M_subs,
                  M_source, M_failed, M_overlap>>
  BY DEF M!JoinObserver
<1>3. PICK to : to = IF M_cur = 0 \/ ~M!Started(M_cur) THEN "error" ELSE next
  OBVIOUS
<1>4. to \in M!Pc /\ LifeTo(c, to)
  BY <1>3, LifeSteps DEF M!JoinObserver, M!Pc, LifeInv
<1>5. LifeAt(pc) => LifeAt(to)
  BY <1>3 DEF LifeAt, LifeDown, LifeWhole
<1> QED BY <1>1, <1>2, <1>4, <1>5, LifeSame, LifeGoes DEF LifeStill

\* The drain, the lanes and freeze-first are turned on, or off.
LEMMA LifeTurns ==
  ASSUME LifeInv, M!TypeOK', NEW c \in M_Call,
         M!MakeWorker(c) \/ M!StartWorker(c) \/ M!StartLanes(c) \/ M!Unpause(c)
  PROVE  LifeInv'
<1>1. ASSUME NEW from, NEW to \in M!Pc, M!At(c, from), from # "idle", LifeTo(c, to),
             UNCHANGED <<M_obs, M_cur, M_overlap>>, LifeAt(from) => LifeAt(to)'
      PROVE  LifeInv'
  BY <1>1, LifeFinds, LifeGoes
<1>2. CASE M!MakeWorker(c)
  <2>1. PICK to : to = IF M_worker = "alive" THEN "lanes" ELSE "startWorker"
    OBVIOUS
  <2>2. to \in M!Pc /\ LifeTo(c, to) /\ M!At(c, "worker")
    BY <1>2, <2>1, LifeSteps DEF M!MakeWorker, M!Pc, LifeInv
  <2>3. /\ M_worker' = (IF M_worker = "alive" THEN M_worker ELSE "made")
        /\ UNCHANGED <<M_obs, M_cur, M_id, M_lanes, M_paused, M_subs, M_source,
                       M_failed, M_overlap>>
    BY <1>2 DEF M!MakeWorker
  <2>4. M!Watching' = M!Watching
    BY <2>3 DEF M!Watching, M!Observer
  <2>5. LifeAt("worker") => LifeAt(to)'
    BY <2>1, <2>3, <2>4 DEF LifeAt, LifeDown, LifeWhole
  <2> QED BY <1>1, <2>2, <2>3, <2>5
<1>3. CASE M!StartWorker(c)
  <2>1. PICK to : to = IF M_worker = "made" THEN "lanes" ELSE "error"
    OBVIOUS
  <2>2. to \in M!Pc /\ LifeTo(c, to) /\ M!At(c, "startWorker")
    BY <1>3, <2>1, LifeSteps DEF M!StartWorker, M!Pc, LifeInv
  <2>3. /\ M_worker' = (IF M_worker = "made" THEN "alive" ELSE M_worker)
        /\ UNCHANGED <<M_obs, M_cur, M_id, M_lanes, M_paused, M_subs, M_source,
                       M_failed, M_overlap>>
    BY <1>3 DEF M!StartWorker
  <2>4. M!Watching' = M!Watching
    BY <2>3 DEF M!Watching, M!Observer
  <2>5. LifeAt("startWorker") => LifeAt(to)'
    BY <2>1, <2>3, <2>4 DEF LifeAt, LifeDown, LifeWhole
  <2> QED BY <1>1, <2>2, <2>3, <2>5
<1>4. CASE M!StartLanes(c)
  <2>1. LifeTo(c, "unpause") /\ M!At(c, "lanes") /\ "unpause" \in M!Pc
    BY <1>4, LifeSteps DEF M!StartLanes, M!Pc, LifeInv
  <2>2. /\ M_lanes' = TRUE
        /\ UNCHANGED <<M_obs, M_cur, M_id, M_worker, M_paused, M_subs, M_source,
                       M_failed, M_overlap>>
    BY <1>4 DEF M!StartLanes
  <2>3. M!Watching' = M!Watching
    BY <2>2 DEF M!Watching, M!Observer
  <2>4. LifeAt("lanes") => LifeAt("unpause")'
    BY <2>2, <2>3 DEF LifeAt, LifeDown, LifeWhole
  <2> QED BY <1>1, <2>1, <2>2, <2>4
<1>5. CASE M!Unpause(c)
  <2>1. LifeTo(c, "build") /\ M!At(c, "unpause") /\ "build" \in M!Pc
    BY <1>5, LifeSteps DEF M!Unpause, M!Pc, LifeInv
  <2>2. /\ M_paused' = FALSE
        /\ UNCHANGED <<M_obs, M_cur, M_id, M_worker, M_lanes, M_subs, M_source,
                       M_failed, M_overlap>>
    BY <1>5 DEF M!Unpause
  <2>3. M!Watching' = M!Watching
    BY <2>2 DEF M!Watching, M!Observer
  <2>4. LifeAt("unpause") => LifeAt("build")'
    BY <2>2, <2>3 DEF LifeAt, LifeDown, LifeWhole
  <2> QED BY <1>1, <2>1, <2>2, <2>4
<1> QED BY <1>2, <1>3, <1>4, <1>5

LEMMA LifeBuilds ==
  ASSUME LifeInv, M!TypeOK', NEW c \in M_Call, M!Build(c)
  PROVE  LifeInv'
<1>1. PICK o \in M!Observer :
        M_obs[o] = "none" /\ M_obs' = [M_obs EXCEPT ![o] = "built"] /\ M_cur' = o
  BY DEF M!Build
<1>2. LifeTo(c, "watch") /\ M!At(c, "build") /\ "watch" \in M!Pc
  BY LifeSteps DEF M!Build, M!Pc, LifeInv
<1>3. UNCHANGED <<M_id, M_worker, M_lanes, M_paused, M_subs, M_source, M_failed,
                  M_overlap>>
  BY DEF M!Build
<1>4. ~M_overlap =>
        LifeAt("build") /\ \A d \in M_Call \ {c} : M!At(d, "idle")
  BY <1>2, LifeFinds
<1>5. ASSUME LifeAt("build") PROVE LifeAt("watch")'
  <2>1. M_obs'[o] = "built" /\ o # 0 /\ \A p \in M!Observer \ {o} : M_obs'[p] = M_obs[p]
    BY <1>1, LifeObserver DEF LifeInv
  <2>2. M!Watching' = {}
    BY <1>5, <2>1 DEF LifeAt, LifeDown, M!Watching, M!Observer
  <2> QED BY <1>1, <1>3, <1>5, <2>1, <2>2 DEF LifeAt, LifeDown, LifeWhole
<1> QED BY <1>2, <1>3, <1>4, <1>5, LifeGoes

LEMMA LifeWatches ==
  ASSUME LifeInv, M!TypeOK', NEW c \in M_Call, M!Watch(c)
  PROVE  LifeInv'
<1>1. M!At(c, "watch") /\ "id" \in M!Pc /\ "error" \in M!Pc
      /\ UNCHANGED <<M_cur, M_id, M_worker, M_lanes, M_paused, M_subs, M_source,
                     M_overlap>>
  BY DEF M!Watch, M!Pc
<1>2. ~M_overlap =>
        LifeAt("watch") /\ \A d \in M_Call \ {c} : M!At(d, "idle")
  BY <1>1, LifeFinds
<1>3. CASE /\ M!Startable /\ M!Step(c, "id") /\ UNCHANGED M_failed
           /\ M_obs' = [M_obs EXCEPT ![M_cur] =
                          IF @ = "built" THEN "watching" ELSE "over"]
  <2>1. LifeTo(c, "id")
    BY <1>3, LifeSteps DEF LifeInv
  <2>2. ASSUME LifeAt("watch") PROVE LifeAt("id")'
    <3>1. M_cur \in M!Observer /\ M_obs[M_cur] = "built" /\ M!Watching = {}
      BY <2>2, LifeObserver DEF LifeAt, LifeDown, LifeInv
    <3>2. /\ M_obs'[M_cur] = "watching"
          /\ \A p \in M!Observer \ {M_cur} : M_obs'[p] = M_obs[p]
      BY <1>3, <3>1, LifeObserver DEF LifeInv
    <3>3. M!Watching' = {M_cur}
      BY <3>1, <3>2 DEF M!Watching, M!Observer
    <3> QED BY <1>1, <1>3, <2>2, <3>3 DEF LifeAt, LifeDown, LifeWhole
  <2> QED BY <1>1, <1>2, <2>1, <2>2, LifeGoes
<1>4. CASE /\ M!Startable /\ M!Raise(c) /\ M_failed' = TRUE
           /\ M_obs' = [M_obs EXCEPT ![M_cur] = "broken"]
  <2>1. LifeTo(c, "error")
    BY <1>4, LifeSteps DEF LifeInv
  <2>2. ASSUME LifeAt("watch") PROVE LifeAt("error")'
    <3>1. M_cur \in M!Observer /\ M!Watching = {}
      BY <2>2, LifeObserver DEF LifeAt, LifeDown, LifeInv
    <3>2. /\ M_obs'[M_cur] = "broken"
          /\ \A p \in M!Observer \ {M_cur} : M_obs'[p] = M_obs[p]
      BY <1>4, <3>1, LifeObserver DEF LifeInv
    <3>3. M!Watching' = {}
      BY <3>1, <3>2 DEF M!Watching, M!Observer
    <3> QED BY <1>1, <1>4, <2>2, <3>3 DEF LifeAt, LifeDown, LifeWhole
  <2> QED BY <1>1, <1>2, <2>1, <2>2, LifeGoes
<1>5. CASE ~M!Startable /\ M!Raise(c)
  <2>1. LifeTo(c, "error")
    BY <1>5, LifeSteps DEF LifeInv
  <2>2. LifeAt("watch") => FALSE
    BY <1>5 DEF LifeAt, M!Startable
  <2> QED BY <1>1, <1>2, <2>1, <2>2, LifeGoes
<1> QED BY <1>3, <1>4, <1>5 DEF M!Watch

LEMMA LifeNames ==
  ASSUME LifeInv, M!TypeOK', NEW c \in M_Call,
         M!Name(c) \/ M!Subscribe(c) \/ M!Attribute(c)
  PROVE  LifeInv'
<1>1. ASSUME NEW from, NEW to \in M!Pc, M!At(c, from), from # "idle", LifeTo(c, to),
             UNCHANGED <<M_obs, M_cur, M_overlap>>, LifeAt(from) => LifeAt(to)'
      PROVE  LifeInv'
  BY <1>1, LifeFinds, LifeGoes
<1>2. CASE M!Name(c)
  <2>1. PICK to : to = IF M_source THEN "answered" ELSE "subscribe"
    OBVIOUS
  <2>2. to \in M!Pc /\ LifeTo(c, to) /\ M!At(c, "id")
    BY <1>2, <2>1, LifeSteps DEF M!Name, M!Pc, LifeInv
  <2>3. /\ M_id' = M_cur
        /\ UNCHANGED <<M_obs, M_cur, M_worker, M_lanes, M_paused, M_subs, M_source,
                       M_failed, M_overlap>>
    BY <1>2 DEF M!Name
  <2>4. M!Watching' = M!Watching
    BY <2>3 DEF M!Watching, M!Observer
  <2>5. LifeAt("id") => LifeAt(to)'
    BY <2>1, <2>3, <2>4 DEF LifeAt, LifeDown, LifeWhole
  <2> QED BY <1>1, <2>2, <2>3, <2>5
<1>3. CASE M!Subscribe(c)
  <2>1. PICK to : to = IF M_Audited THEN "attribute" ELSE "answered"
    OBVIOUS
  <2>2. to \in M!Pc /\ LifeTo(c, to) /\ M!At(c, "subscribe")
    BY <1>3, <2>1, LifeSteps DEF M!Subscribe, M!Pc, LifeInv
  <2>3. /\ M_subs' = (IF M_Audited THEN M_subs + 1 ELSE M_subs)
        /\ UNCHANGED <<M_obs, M_cur, M_id, M_worker, M_lanes, M_paused, M_source,
                       M_failed, M_overlap>>
    BY <1>3 DEF M!Subscribe
  <2>4. M!Watching' = M!Watching
    BY <2>3 DEF M!Watching, M!Observer
  <2>5. LifeAt("subscribe") => LifeAt(to)'
    BY <2>1, <2>3, <2>4 DEF LifeAt, LifeDown, LifeWhole
  <2> QED BY <1>1, <2>2, <2>3, <2>5
<1>4. CASE M!Attribute(c)
  <2>1. LifeTo(c, "answered") /\ M!At(c, "attribute") /\ "answered" \in M!Pc
    BY <1>4, LifeSteps DEF M!Attribute, M!Pc, LifeInv
  <2>2. /\ M_source' = TRUE /\ M_subs' = M_subs + 0
        /\ UNCHANGED <<M_obs, M_cur, M_id, M_worker, M_lanes, M_paused, M_failed,
                       M_overlap>>
    BY <1>4 DEF M!Attribute, M!Again
  <2>3. M!Watching' = M!Watching
    BY <2>2 DEF M!Watching, M!Observer
  <2>4. LifeAt("attribute") => LifeAt("answered")'
    BY <2>2, <2>3 DEF LifeAt, LifeDown, LifeWhole
  <2> QED BY <1>1, <2>1, <2>2, <2>4
<1> QED BY <1>2, <1>3, <1>4

LEMMA LifeStops ==
  ASSUME LifeInv, M!TypeOK', NEW c \in M_Call,
         M!Pause(c) \/ M!Clear(c) \/ M!StopLanes(c) \/ M!Unname(c)
  PROVE  LifeInv'
<1>1. ASSUME NEW from, NEW to \in M!Pc, M!At(c, from), from # "idle", LifeTo(c, to),
             UNCHANGED <<M_obs, M_overlap>>, LifeAt(from) => LifeAt(to)'
      PROVE  LifeInv'
  BY <1>1, LifeFinds, LifeGoes
<1>2. CASE M!Pause(c)
  <2>1. PICK to : to = IF M_cur = 0 THEN "stopLanes" ELSE "stopIt"
    OBVIOUS
  <2>2. to \in M!Pc /\ LifeTo(c, to) /\ M!At(c, "pause")
    BY <1>2, <2>1, LifeSteps DEF M!Pause, M!StopsIt, M!Pc, LifeInv
  <2>3. /\ M_paused' = TRUE
        /\ UNCHANGED <<M_obs, M_cur, M_id, M_worker, M_lanes, M_subs, M_source,
                       M_failed, M_overlap>>
    BY <1>2 DEF M!Pause
  <2>4. M!Watching' = M!Watching /\ (M_cur = 0 /\ LifeAt("pause") => M!Watching = {})
    BY <2>3, LifeObserver DEF M!Watching, M!Observer, LifeAt, LifeInv
  <2>5. LifeAt("pause") => LifeAt(to)'
    BY <2>1, <2>3, <2>4 DEF LifeAt, LifeDown, LifeWhole
  <2> QED BY <1>1, <2>2, <2>3, <2>5
<1>3. CASE M!Clear(c)
  <2>1. LifeTo(c, "stopLanes") /\ M!At(c, "clear") /\ "stopLanes" \in M!Pc
    BY <1>3, LifeSteps DEF M!Clear, M!Pc, LifeInv
  <2>2. /\ M_cur' = 0
        /\ UNCHANGED <<M_obs, M_id, M_worker, M_lanes, M_paused, M_subs, M_source,
                       M_failed, M_overlap>>
    BY <1>3 DEF M!Clear
  <2>3. M!Watching' = M!Watching
    BY <2>2 DEF M!Watching, M!Observer
  <2>4. LifeAt("clear") => LifeAt("stopLanes")'
    BY <2>2, <2>3 DEF LifeAt, LifeDown, LifeWhole
  <2> QED BY <1>1, <2>1, <2>2, <2>4
<1>4. CASE M!StopLanes(c)
  <2>1. LifeTo(c, "unname") /\ M!At(c, "stopLanes") /\ "unname" \in M!Pc
    BY <1>4, LifeSteps DEF M!StopLanes, M!Pc, LifeInv
  <2>2. /\ M_lanes' = FALSE
        /\ UNCHANGED <<M_obs, M_cur, M_id, M_worker, M_paused, M_subs, M_source,
                       M_failed, M_overlap>>
    BY <1>4 DEF M!StopLanes
  <2>3. M!Watching' = M!Watching
    BY <2>2 DEF M!Watching, M!Observer
  <2>4. LifeAt("stopLanes") => LifeAt("unname")'
    BY <2>2, <2>3 DEF LifeAt, LifeDown, LifeWhole
  <2> QED BY <1>1, <2>1, <2>2, <2>4
<1>5. CASE M!Unname(c)
  <2>1. LifeTo(c, "answered") /\ M!At(c, "unname") /\ "answered" \in M!Pc
    BY <1>5, LifeSteps DEF M!Unname, M!Pc, LifeInv
  <2>2. /\ M_id' = 0
        /\ UNCHANGED <<M_obs, M_cur, M_worker, M_lanes, M_paused, M_subs, M_source,
                       M_failed, M_overlap>>
    BY <1>5 DEF M!Unname
  <2>3. M!Watching' = M!Watching
    BY <2>2 DEF M!Watching, M!Observer
  <2>4. LifeAt("unname") => LifeAt("answered")'
    BY <2>2, <2>3 DEF LifeAt, LifeDown, LifeWhole
  <2> QED BY <1>1, <2>1, <2>2, <2>4
<1> QED BY <1>2, <1>3, <1>4, <1>5

LEMMA LifeAnswers ==
  ASSUME LifeInv, M!TypeOK', NEW c \in M_Call, M!Answer(c)
  PROVE  LifeInv'
<1>1. PICK pc \in {"answered", "error"} : M!At(c, pc)
  BY DEF M!Answer, M!At
<1>2. LifeTo(c, "idle") /\ "idle" \in M!Pc
  BY LifeSteps DEF M!Answer, M!Pc, LifeInv
<1>3. LifeStill /\ UNCHANGED M_overlap
  BY DEF M!Answer, LifeStill
<1>4. LifeAt(pc) => LifeAt("idle")
  BY <1>1 DEF LifeAt, LifeDown, LifeWhole
<1>5. ~M_overlap => LifeAt(pc) /\ \A d \in M_Call \ {c} : M!At(d, "idle")
  BY <1>1, LifeFinds
<1> QED BY <1>2, <1>3, <1>4, <1>5, LifeSame, LifeGoes

\* An observer that has ended is still no watch, and still one that started.
LEMMA LifeEnds ==
  ASSUME LifeInv, M!TypeOK', NEW o \in M!Observer, M!End(o)
  PROVE  LifeInv'
<1>1. /\ M_obs[o] = "ending" /\ M_obs' = [M_obs EXCEPT ![o] = "over"]
      /\ UNCHANGED <<M_cur, M_id, M_worker, M_lanes, M_paused, M_subs, M_source,
                     M_failed, M_overlap, M_call>>
  BY DEF M!End
<1>2. \A p \in M!Observer : M_obs'[p] = IF p = o THEN "over" ELSE M_obs[p]
  BY <1>1, LifeObserver DEF LifeInv
<1>3. M!Watching' = M!Watching
  BY <1>1, <1>2 DEF M!Watching, M!Observer
<1>4. ASSUME NEW pc, LifeAt(pc) PROVE LifeAt(pc)'
  <2>1. M_cur # 0 => M_cur \in M!Observer
    BY LifeObserver DEF LifeInv
  <2>2. M_cur # 0 /\ M!Started(M_cur) => M!Started(M_cur)'
    BY <1>1, <1>2, <2>1 DEF M!Started
  <2>3. M_cur # 0 /\ M_obs[M_cur] = "built" => M_obs'[M_cur] = "built"
    BY <1>1, <1>2, <2>1
  <2> QED BY <1>1, <1>3, <1>4, <2>2, <2>3 DEF LifeAt
<1>5. \A pc : LifeAlone(pc) => LifeAlone(pc)'
  BY <1>1 DEF LifeAlone, M!Rest, M!At
<1> QED BY <1>1, <1>4, <1>5 DEF LifeInv

LEMMA LifeInit == M!Init => LifeInv
<1> SUFFICES ASSUME M!Init PROVE LifeInv
  OBVIOUS
<1>1. M!TypeOK
  <2>1. M_MaxObs \in Nat /\ 0 \in 0 .. M_MaxObs
    BY ServicesAssumption DEF ServicesAssumption, M!LifeAssumption
  <2>2. M_call \in [M_Call -> [pc : M!Pc, op : {"none", "start", "stop"}]]
    <3>1. "idle" \in M!Pc
      BY DEF M!Pc
    <3> QED BY <3>1, SMTT(30) DEF M!Init
  <2>3. M_obs \in [M!Observer -> {"none", "built", "watching", "ending", "over",
                               "cancelled", "broken"}]
    BY DEF M!Init
  <2>4. /\ M_lanes \in BOOLEAN /\ M_paused \in BOOLEAN
        /\ M_source \in BOOLEAN /\ M_overlap \in BOOLEAN
        /\ M_failed \in BOOLEAN
    BY DEF M!Init
  <2> QED BY <2>1, <2>2, <2>3, <2>4 DEF M!Init, M!TypeOK
<1>2. M!Watching = {}
  BY DEF M!Init, M!Watching
<1>3. LifeAt("idle") /\ "idle" \in M!Pc
  BY <1>2 DEF M!Init, LifeAt, LifeDown, LifeWhole, M!Pc
<1>4. LifeAlone("idle")
  BY DEF M!Init, LifeAlone, M!Rest, M!At
<1> QED BY <1>1, <1>3, <1>4 DEF LifeInv

LEMMA LifeStep == ASSUME LifeInv, M!Next PROVE LifeInv'
<1>1. M!TypeOK'
  BY LifeType DEF LifeInv
<1>2. ASSUME NEW c \in M_Call, M!At(c, "stopOld") /\ M!StopObserver(c, "joinOld")
      PROVE  LifeInv'
  BY <1>1, <1>2, LifeStopsObserver
<1>3. ASSUME NEW c \in M_Call, M!At(c, "stopIt") /\ M!StopObserver(c, "joinIt")
      PROVE  LifeInv'
  BY <1>1, <1>3, LifeStopsObserver
<1>4. ASSUME NEW c \in M_Call, M!At(c, "joinOld") /\ M!JoinObserver(c, "worker")
      PROVE  LifeInv'
  BY <1>1, <1>4, LifeJoins
<1>5. ASSUME NEW c \in M_Call, M!At(c, "joinIt") /\ M!JoinObserver(c, "clear")
      PROVE  LifeInv'
  BY <1>1, <1>5, LifeJoins
<1> QED BY <1>1, <1>2, <1>3, <1>4, <1>5, LifeBegins, LifeLooks, LifeTurns, LifeBuilds,
           LifeWatches, LifeNames, LifeStops, LifeAnswers, LifeEnds
        DEF M!Next

LEMMA LifeIsOneWatch == ASSUME LifeInv PROVE M!OneWatch /\ M!ErrorsHaveCause
<1>1. M!OneWatch
  <2> SUFFICES ASSUME M!Rest, ~M_overlap PROVE LifeAt("idle")
    BY DEF M!OneWatch, LifeAt, LifeWhole
  <2>1. PICK pc \in M!Pc : LifeAt(pc) /\ LifeAlone(pc)
    BY DEF LifeInv
  <2>2. pc = "idle"
    BY <2>1 DEF LifeAlone, M!Rest, M!At
  <2> QED BY <2>1, <2>2
<1>2. M!ErrorsHaveCause
  <2> SUFFICES ASSUME NEW c \in M_Call, M!At(c, "error"), ~M_overlap PROVE M_failed
    BY DEF M!ErrorsHaveCause
  <2>1. LifeAt("error")
    BY LifeFinds
  <2> QED BY <2>1 DEF LifeAt
<1> QED BY <1>1, <1>2

LifePart == part = "life" => LifeInv

LEMMA ServicesLife == ServicesSpec => []LifePart
<1>1. ServicesInit => LifePart
  BY LifeInit DEF ServicesInit, LifePart
<1>2. LifePart /\ [ServicesNext]_ServicesVars => LifePart'
  <2> SUFFICES ASSUME LifePart, [ServicesNext]_ServicesVars, part' = "life"
               PROVE  LifeInv'
    BY DEF LifePart
  <2>1. part = "life" /\ LifeInv
    BY DEF LifePart, ServicesNext, ServicesVars
  <2>2. CASE M!Next
    BY <2>1, <2>2, LifeStep
  <2>3. CASE UNCHANGED M_vars
    <3>1. M!TypeOK'
      BY <2>1, <2>3 DEF LifeInv, M_vars, M!TypeOK
    <3>2. ASSUME NEW pc, LifeAt(pc) PROVE LifeAt(pc)'
      BY <2>3, <3>2, LifeSame DEF M_vars, LifeStill
    <3>3. \A pc : LifeAlone(pc) => LifeAlone(pc)'
      BY <2>3 DEF M_vars, LifeAlone, M!Rest, M!At
    <3>4. UNCHANGED M_overlap
      BY <2>3 DEF M_vars
    <3> QED BY <2>1, <3>1, <3>2, <3>3, <3>4 DEF LifeInv
  <2> QED BY <2>1, <2>2, <2>3 DEF ServicesNext, ServicesVars
<1> QED BY <1>1, <1>2, PTL DEF ServicesSpec

\* As long as starts and stops come one at a time, one observer watches, the one
\* that can be stopped, with its drain, lanes and freeze-first on; and a call
\* fails only if it met another or an observer could not be started
\* (start_monitoring, stop_monitoring).
THEOREM OneMonitorWatches == ServicesSpec => []OneWatch
<1>1. LifePart => OneWatch
  BY LifeIsOneWatch DEF LifePart, OneWatch
<1> QED BY <1>1, ServicesLife, PTL

-------------------------------------------------------------------------------
(* Scoring: the three doors of the ML engine.                              *)

Measures ==
  [shannon_entropy : 0 .. 9, magic_bytes : {0, 1}, container_valid : {0, 1, 9},
   ransom_extension : {0, 1}, statistics : 0 .. 8, blocks : 0 .. 8]
Witnessed ==
  [features : Measures, suspicious : BOOLEAN, of : C_Content,
   got : SUBSET C!Reads]

\* What the look behind an event measured, whatever the event says of it.
Measurement(e) == C!Features(e.of, e.got)

Replies ==
  [ransomware : BOOLEAN, level : {"low", "medium", "critical"}, model : Nat,
   vector : {C!ToVector(p) : p \in Measures} \cup {<<>>}]
Made ==
  [event : Nat, threat : BOOLEAN, level : {"low", "medium", "high", "critical"},
   answer : Replies]

\* The answer of model m about a vector, whichever way the vector came in.
ByModel(m, v) ==
  LET level == IF v \in C_alarming[m].sure THEN "critical"
               ELSE IF v \in C_alarming[m].unsure THEN "medium" ELSE "low"
  IN [ransomware |-> level # "low", level |-> level, model |-> m, vector |-> v]

\* An answer about these features: nobody's, or that of the model it names.
AnswerOn(a, p) ==
  /\ a \in Replies
  /\ a.model # 0 => a = ByModel(a.model, C!ToVector(p))

\* What the dashboard or the pipeline made of an event is an answer on the
\* features of that event, and no lower than the event's own alert.
MadeOf(d, e, p) ==
  /\ AnswerOn(d.answer, p)
  /\ e.suspicious => d.threat
  /\ d.level = C!EffectiveLevel(d.answer.level, e.suspicious)

\* An event has what its look measured, with a null for the entropy of one
\* that counted as unreadable.
EventTrue(e) ==
  e.features = [Measurement(e) EXCEPT
                  !.shannon_entropy = IF "magic" \in e.got THEN @ ELSE C!Null]
EventsTrue ==
  /\ C_events \in Seq(Witnessed)
  /\ \A i \in DOMAIN C_events : EventTrue(C_events[i])

\* A job is of an alert, with the measures of the look behind it.
JobsTrue ==
  \A j \in C_jobs :
    /\ j.event \in DOMAIN C_events
    /\ j.features = Measurement(C_events[j.event])
    /\ C_events[j.event].suspicious

\* What the pipeline did, event by event.
ActedTrue ==
  /\ C_acted \in Seq(Made) /\ Len(C_acted) = Len(C_events)
  /\ \A i \in DOMAIN C_events :
       \/ C_acted[i] = C!NothingShown
       \/ /\ C_acted[i].event = i /\ C_events[i].suspicious
          /\ MadeOf(C_acted[i], C_events[i], Measurement(C_events[i]))

ShownTrue ==
  \/ C_shown = C!NothingShown
  \/ /\ C_shown.event \in DOMAIN C_events
     /\ MadeOf(C_shown, C_events[C_shown.event],
               C!PredictionRequest(C_events[C_shown.event]))

\* The last answer of /analyze is one on what its own look measured.
AnalyzedTrue ==
  /\ C_analyzed.of \subseteq C_Content
  /\ \A c \in C_analyzed.of :
       AnswerOn(C_analyzed.answer, C!Features(c, C_analyzed.got))

\* The inductive invariant.
ScoreInv ==
  /\ C_trained \in Nat /\ C_loaded \in Nat
  /\ EventsTrue /\ JobsTrue /\ ActedTrue /\ ShownTrue /\ AnalyzedTrue

LEMMA ScoreConstants ==
  /\ C_Measured \in [C_Content -> C!Reading] /\ C_Flagged \subseteq C_Content
  /\ C_Renamed \subseteq C_Content
  BY ServicesAssumption DEF ServicesAssumption, C!ScoringAssumption

\* What a look finds, read by read.
LEMMA ReadIs ==
  ASSUME NEW c \in C_Content, NEW got
  PROVE  /\ C!Read(c, got) \in C!Reading
         /\ "sample" \notin got => C!Read(c, got).entropy = 0
<1>1. C_Measured[c] \in C!Reading
  BY ScoreConstants
<1>2. C!Read(c, got) \in C!Reading
  <2>1. PICK m : m = C_Measured[c]
    OBVIOUS
  <2>2. /\ m.entropy \in 0 .. 8 /\ m.magic \in BOOLEAN /\ m.valid \in {0, 1, 9}
        /\ m.statistics \in 0 .. 8 /\ m.blocks \in 0 .. 8
    BY <1>1, <2>1 DEF C!Reading, C!Null
  <2>3. /\ (IF "sample" \in got THEN m.entropy ELSE 0) \in 0 .. 8
        /\ (IF "sample" \in got THEN m.statistics ELSE 0) \in 0 .. 8
        /\ (IF "sample" \in got THEN m.blocks ELSE 0) \in 0 .. 8
        /\ ("magic" \in got /\ m.magic) \in BOOLEAN
        /\ (IF got = C!Reads THEN m.valid ELSE C!Null) \in {0, 1, 9}
    BY <2>2 DEF C!Null
  <2> QED BY <2>1, <2>3 DEF C!Read, C!Reading, C!Null
<1>3. "sample" \notin got => C!Read(c, got).entropy = 0
  BY DEF C!Read
<1> QED BY <1>2, <1>3

LEMMA FeaturesMeasure ==
  ASSUME NEW c \in C_Content, NEW got
  PROVE  /\ C!Features(c, got) \in Measures
         /\ C!Features(c, got).shannon_entropy \in 0 .. 8
         /\ "sample" \notin got => C!Features(c, got).shannon_entropy = 0
<1> DEFINE r == C!Read(c, got)
<1>1. r \in C!Reading /\ ("sample" \notin got => r.entropy = 0)
  BY ReadIs
<1>2. C!Features(c, got) =
        [shannon_entropy |-> r.entropy, magic_bytes |-> C!Bit(r.magic),
         container_valid |-> r.valid,
         ransom_extension |-> C!Bit(c \in C_Renamed),
         statistics |-> r.statistics, blocks |-> r.blocks]
  BY DEF C!Features
<1> HIDE DEF r
<1>3. C!Bit(r.magic) \in {0, 1} /\ C!Bit(c \in C_Renamed) \in {0, 1}
  BY DEF C!Bit
<1>4. /\ r.entropy \in 0 .. 8 /\ r.valid \in {0, 1, 9}
      /\ r.statistics \in 0 .. 8 /\ r.blocks \in 0 .. 8
  BY <1>1 DEF C!Reading, C!Null
<1> QED BY <1>1, <1>2, <1>3, <1>4 DEF Measures

\* Two looks at which nothing was read measure the same, but for the name.
LEMMA UnreadIs ==
  ASSUME NEW c \in C_Content, NEW d \in C_Content,
         c \in C_Renamed <=> d \in C_Renamed
  PROVE  C!Features(c, {}) = C!Features(d, {})
<1>1. C!Read(c, {}) = C!Read(d, {})
  BY DEF C!Read, C!Reads
<1>2. C!Bit(c \in C_Renamed) = C!Bit(d \in C_Renamed)
  BY DEF C!Bit
<1> QED BY <1>1, <1>2 DEF C!Features

LEMMA EventIsTrue ==
  ASSUME NEW c \in C_Content, NEW got \in SUBSET C!Reads,
         NEW suppressed \in BOOLEAN
  PROVE  LET e == C!Event(c, got, suppressed)
         IN /\ e \in Witnessed /\ EventTrue(e)
            /\ Measurement(e) = C!Features(c, got)
<1> DEFINE f == C!Features(c, got)
           g == [f EXCEPT !.shannon_entropy =
                   IF "magic" \in got THEN @ ELSE C!Null]
           b == C!Suspicious(c, got) /\ ~suppressed
           e == C!Event(c, got, suppressed)
<1>1. f \in Measures
  BY FeaturesMeasure
<1>2. g \in Measures
  <2> HIDE DEF f
  <2> QED BY <1>1 DEF Measures, C!Null
<1>3. b \in BOOLEAN
  OBVIOUS
<1>4. e = [features |-> g, suspicious |-> b, of |-> c, got |-> got]
  BY DEF C!Event
<1> HIDE DEF b, e
<1>5. Measurement(e) = f
  BY <1>4 DEF Measurement
<1>6. EventTrue(e)
  BY <1>4, <1>5 DEF EventTrue
<1>7. e \in Witnessed
  <2> HIDE DEF g, f
  <2> QED BY <1>2, <1>3, <1>4 DEF Witnessed
<1> QED BY <1>5, <1>6, <1>7 DEF e

\* What the dashboard sends for an event makes the vector of what was measured,
\* but for a torn look: a null is a zero, and so is what was not read.
LEMMA RequestIs ==
  ASSUME NEW e \in Witnessed, EventTrue(e)
  PROVE  /\ C!PredictionRequest(e) \in Measures
         /\ Measurement(e) \in Measures
         /\ ~C!Torn(e)
            => C!ToVector(C!PredictionRequest(e)) = C!ToVector(Measurement(e))
<1> DEFINE f == Measurement(e)
           p == C!PredictionRequest(e)
<1>1. e.features \in Measures /\ e.of \in C_Content /\ e.got \subseteq C!Reads
  BY DEF Witnessed
<1>2. /\ f \in Measures /\ f.shannon_entropy \in 0 .. 8
      /\ "sample" \notin e.got => f.shannon_entropy = 0
  BY <1>1, FeaturesMeasure DEF Measurement
<1>3. e.features = [f EXCEPT !.shannon_entropy =
                      IF "magic" \in e.got THEN @ ELSE C!Null]
  BY DEF EventTrue
<1> HIDE DEF f
<1>4. p = [f EXCEPT !.shannon_entropy = IF "magic" \in e.got THEN @ ELSE 0]
  <2>1. CASE "magic" \in e.got
    <3>1. e.features = f
      BY <1>2, <1>3, <2>1 DEF Measures
    <3> QED BY <1>2, <2>1, <3>1 DEF C!PredictionRequest, Measures, C!Null
  <2>2. CASE "magic" \notin e.got
    <3>1. e.features = [f EXCEPT !.shannon_entropy = C!Null]
      BY <1>2, <1>3, <2>2
    <3>2. e.features.shannon_entropy = C!Null
      BY <1>2, <3>1 DEF Measures
    <3>3. p = [e.features EXCEPT !.shannon_entropy = 0]
      BY <1>1, <3>2 DEF C!PredictionRequest, Measures
    <3> QED BY <1>2, <2>2, <3>1, <3>3 DEF Measures
  <2> QED BY <2>1, <2>2
<1> HIDE DEF p
<1>5. p \in Measures
  BY <1>2, <1>4 DEF Measures
<1>6. ASSUME ~C!Torn(e) PROVE p = f
  <2>1. "magic" \in e.got \/ "sample" \notin e.got
    BY <1>1, <1>6 DEF C!Torn, C!Reads
  <2>2. (IF "magic" \in e.got THEN f.shannon_entropy ELSE 0) = f.shannon_entropy
    BY <1>2, <2>1
  <2> QED BY <1>2, <1>4, <2>2 DEF Measures
<1> QED BY <1>2, <1>5, <1>6 DEF p, f

LEMMA PredictionOn ==
  ASSUME C_loaded \in Nat, NEW p \in Measures, NEW a \in C!Predictions(p)
  PROVE  AnswerOn(a, p)
<1>1. CASE a = C!NoAnswer
  BY <1>1 DEF C!NoAnswer, AnswerOn, Replies
<1>2. CASE C_loaded > 0 /\ a = C!Answer(p)
  <2> DEFINE v == C!ToVector(p)
  <2>1. a = ByModel(C_loaded, v)
    BY <1>2 DEF C!Answer, ByModel
  <2>2. a.model = C_loaded
    BY <2>1 DEF ByModel
  <2>3. a \in Replies
    <3>1. v \in {C!ToVector(q) : q \in Measures}
      OBVIOUS
    <3> HIDE DEF v
    <3> QED BY <2>1, <3>1 DEF ByModel, Replies
  <2> QED BY <2>1, <2>2, <2>3 DEF AnswerOn
<1> QED BY <1>1, <1>2 DEF C!Predictions

LEMMA RanksAre ==
  /\ C!Rank("low") = 1 /\ C!Rank("medium") = 2
  /\ C!Rank("high") = 3 /\ C!Rank("critical") = 4
<1>1. /\ C!Levels[1] = "low" /\ C!Levels[2] = "medium" /\ C!Levels[3] = "high"
      /\ C!Levels[4] = "critical"
  BY DEF C!Levels
<1>2. \A i \in 1 .. 4 : i = 1 \/ i = 2 \/ i = 3 \/ i = 4
  OBVIOUS
<1>3. \A i \in 1 .. 4 : C!Levels[i] = "low" <=> i = 1
  BY <1>1, <1>2
<1>4. \A i \in 1 .. 4 : C!Levels[i] = "medium" <=> i = 2
  BY <1>1, <1>2
<1>5. \A i \in 1 .. 4 : C!Levels[i] = "high" <=> i = 3
  BY <1>1, <1>2
<1>6. \A i \in 1 .. 4 : C!Levels[i] = "critical" <=> i = 4
  BY <1>1, <1>2
<1> QED BY <1>3, <1>4, <1>5, <1>6 DEF C!Rank

LEMMA EffectiveIs ==
  ASSUME NEW level \in {"low", "medium", "critical"}, NEW b \in BOOLEAN
  PROVE  /\ C!EffectiveLevel(level, b) \in {"low", "medium", "high", "critical"}
         /\ b => C!Rank(C!EffectiveLevel(level, b)) >= C!Rank("high")
<1>1. C!EffectiveLevel(level, b) \in {level, "high", "low"}
  BY DEF C!EffectiveLevel, C!Higher
<1>2. ASSUME b PROVE C!Rank(C!EffectiveLevel(level, b)) >= C!Rank("high")
  BY <1>2, RanksAre DEF C!EffectiveLevel, C!Higher
<1> QED BY <1>1, <1>2

\* The models answer tomorrow as they do today.
LEMMA AnswersStay ==
  ASSUME UNCHANGED C_alarming
  PROVE  /\ \A a, p : AnswerOn(a, p)' <=> AnswerOn(a, p)
         /\ \A d, e, p : MadeOf(d, e, p)' <=> MadeOf(d, e, p)
<1>1. \A m, v : ByModel(m, v)' = ByModel(m, v)
  BY DEF ByModel
<1>2. ASSUME NEW a, NEW p PROVE AnswerOn(a, p)' <=> AnswerOn(a, p)
  BY <1>1 DEF AnswerOn
<1>3. ASSUME NEW d, NEW e, NEW p PROVE MadeOf(d, e, p)' <=> MadeOf(d, e, p)
  BY <1>2 DEF MadeOf
<1> QED BY <1>2, <1>3

LEMMA ScoreInit == C!Init => ScoreInv
<1> SUFFICES ASSUME C!Init PROVE ScoreInv
  OBVIOUS
<1>1. C_events = <<>> /\ C_acted = <<>> /\ C_jobs = {}
  BY DEF C!Init
<1>2. EventsTrue /\ JobsTrue /\ ActedTrue
  BY <1>1 DEF EventsTrue, JobsTrue, ActedTrue
<1>3. ShownTrue /\ AnalyzedTrue
  BY DEF C!Init, ShownTrue, AnalyzedTrue, C!NotAnalyzed
<1> QED BY <1>2, <1>3 DEF C!Init, ScoreInv

\* Whatever leaves the events and what was made of them alone.
LEMMA ScoreStill ==
  ASSUME ScoreInv, C_trained' \in Nat, C_loaded' \in Nat,
         UNCHANGED <<C_alarming, C_events, C_jobs, C_acted, C_shown, C_analyzed>>
  PROVE  ScoreInv'
<1>1. EventsTrue' /\ JobsTrue'
  BY DEF ScoreInv, EventsTrue, JobsTrue
<1>2. ActedTrue'
  <2>1. \A d, e, p : MadeOf(d, e, p) => MadeOf(d, e, p)'
    BY AnswersStay
  <2> QED BY <2>1 DEF ScoreInv, ActedTrue
<1>3. ShownTrue'
  <2>1. \A d, e, p : MadeOf(d, e, p) => MadeOf(d, e, p)'
    BY AnswersStay
  <2> QED BY <2>1 DEF ScoreInv, ShownTrue
<1>4. AnalyzedTrue'
  <2>1. \A a, p : AnswerOn(a, p) => AnswerOn(a, p)'
    BY AnswersStay
  <2> QED BY <2>1 DEF ScoreInv, AnalyzedTrue
<1> QED BY <1>1, <1>2, <1>3, <1>4 DEF ScoreInv

LEMMA NothingIsMade == C!NothingShown \in Made
<1>1. C!NoAnswer \in Replies
  BY DEF C!NoAnswer, Replies
<1> QED BY <1>1 DEF C!NothingShown, Made

LEMMA ScoreHandles ==
  ASSUME ScoreInv, NEW c \in C_Content, NEW got \in SUBSET C!Reads,
         NEW suppressed \in BOOLEAN, C!HandleEvent(c, got, suppressed)
  PROVE  ScoreInv'
<1> DEFINE e == C!Event(c, got, suppressed)
           n == Len(C_events) + 1
<1>1. /\ e \in Witnessed /\ EventTrue(e)
      /\ Measurement(e) = C!Features(c, got)
  BY EventIsTrue DEF ScoreInv
<1>2. C_events \in Seq(Witnessed) /\ C_acted \in Seq(Made)
      /\ Len(C_acted) = Len(C_events)
  BY DEF ScoreInv, EventsTrue, ActedTrue
<1>3. C_events' = Append(C_events, e)
      /\ C_acted' = Append(C_acted, C!NothingShown)
  BY DEF C!HandleEvent
<1> HIDE DEF e
<1>4. /\ C_events' \in Seq(Witnessed) /\ Len(C_events') = n
      /\ \A i \in DOMAIN C_events :
           i \in DOMAIN C_events' /\ C_events'[i] = C_events[i]
      /\ C_events'[n] = e /\ n \in DOMAIN C_events'
      /\ \A i \in DOMAIN C_events' : i # n => i \in DOMAIN C_events
  BY <1>1, <1>2, <1>3
<1>5. /\ C_acted' \in Seq(Made) /\ Len(C_acted') = n
      /\ \A i \in DOMAIN C_events : C_acted'[i] = C_acted[i]
      /\ C_acted'[n] = C!NothingShown
  BY <1>2, <1>3, NothingIsMade
<1>6. EventsTrue'
  BY <1>1, <1>4 DEF ScoreInv, EventsTrue
<1>7. JobsTrue'
  <2>1. ASSUME NEW j \in C_jobs', j \in C_jobs
        PROVE  /\ j.event \in DOMAIN C_events'
               /\ j.features = Measurement(C_events'[j.event])
               /\ C_events'[j.event].suspicious
    BY <1>4, <2>1 DEF ScoreInv, JobsTrue
  <2>2. ASSUME NEW j \in C_jobs', j \notin C_jobs
        PROVE  /\ j.event \in DOMAIN C_events'
               /\ j.features = Measurement(C_events'[j.event])
               /\ C_events'[j.event].suspicious
    <3>1. e.suspicious /\ j = [event |-> n, features |-> C!Features(c, got)]
      BY <2>2 DEF C!HandleEvent, e
    <3> QED BY <1>1, <1>4, <3>1
  <2> QED BY <2>1, <2>2 DEF JobsTrue
<1>8. UNCHANGED <<C_alarming, C_shown, C_analyzed, C_trained, C_loaded>>
  BY DEF C!HandleEvent, C!Engine
<1>9. /\ \A a, p : AnswerOn(a, p) => AnswerOn(a, p)'
      /\ \A d, f, p : MadeOf(d, f, p) => MadeOf(d, f, p)'
  BY <1>8, AnswersStay
<1>10. ActedTrue'
  <2>1. ASSUME NEW i \in DOMAIN C_events'
        PROVE  \/ C_acted'[i] = C!NothingShown
               \/ /\ C_acted'[i].event = i /\ C_events'[i].suspicious
                  /\ MadeOf(C_acted[i], C_events[i], Measurement(C_events[i]))'
    <3>1. CASE i = n
      BY <1>5, <3>1
    <3>2. CASE i \in DOMAIN C_events
      <4>1. C_acted'[i] = C_acted[i] /\ C_events'[i] = C_events[i]
        BY <1>4, <1>5, <3>2
      <4>2. \/ C_acted[i] = C!NothingShown
            \/ /\ C_acted[i].event = i /\ C_events[i].suspicious
               /\ MadeOf(C_acted[i], C_events[i], Measurement(C_events[i]))
        BY <3>2 DEF ScoreInv, ActedTrue
      <4>3. PICK d, f : d = C_acted[i] /\ f = C_events[i]
        OBVIOUS
      <4>4. MadeOf(d, f, Measurement(f)) => MadeOf(d, f, Measurement(f))'
        BY <1>9
      <4>5. MadeOf(d, f, Measurement(f))
            => MadeOf(C_acted[i], C_events[i], Measurement(C_events[i]))'
        BY <4>1, <4>3, <4>4
      <4> QED BY <4>1, <4>2, <4>3, <4>5
    <3> QED BY <1>4, <3>1, <3>2
  <2> QED BY <1>4, <1>5, <2>1 DEF ActedTrue
<1>11. ShownTrue'
  BY <1>4, <1>8, <1>9 DEF ScoreInv, ShownTrue
<1>12. AnalyzedTrue'
  BY <1>8, <1>9 DEF ScoreInv, AnalyzedTrue
<1> QED BY <1>6, <1>7, <1>8, <1>10, <1>11, <1>12 DEF ScoreInv

\* What is made of an event out of an answer on features of it.
LEMMA MakingIs ==
  ASSUME NEW e \in Witnessed, NEW p \in Measures, NEW a, AnswerOn(a, p),
         NEW i \in Nat, NEW threat \in BOOLEAN, e.suspicious => threat
  PROVE  LET d == [event |-> i, threat |-> threat, answer |-> a,
                   level |-> C!EffectiveLevel(a.level, e.suspicious)]
         IN d \in Made /\ MadeOf(d, e, p)
<1> DEFINE level == C!EffectiveLevel(a.level, e.suspicious)
           d == [event |-> i, threat |-> threat, answer |-> a, level |-> level]
<1>1. a \in Replies /\ e.suspicious \in BOOLEAN
  BY DEF AnswerOn, Witnessed
<1>2. level \in {"low", "medium", "high", "critical"}
  BY <1>1, EffectiveIs DEF Replies
<1>3. d \in Made
  <2> HIDE DEF level
  <2> QED BY <1>1, <1>2 DEF Made
<1>4. MadeOf(d, e, p)
  BY DEF MadeOf
<1> QED BY <1>3, <1>4

LEMMA ScoreRuns ==
  ASSUME ScoreInv, NEW j \in C_jobs, C!RunPipeline(j) PROVE ScoreInv'
<1> DEFINE k == j.event
           e == C_events[k]
<1>1. k \in DOMAIN C_events /\ j.features = Measurement(e) /\ e.suspicious
  BY DEF ScoreInv, JobsTrue
<1>0. C_events \in Seq(Witnessed)
  BY DEF ScoreInv, EventsTrue
<1>2. e \in Witnessed /\ j.features \in Measures /\ k \in Nat
  <2>1. e \in Witnessed /\ EventTrue(e) /\ k \in Nat
    BY <1>0, <1>1 DEF ScoreInv, EventsTrue
  <2> QED BY <1>1, <2>1, RequestIs
<1>3. PICK a \in C!Predictions(j.features) :
        C_acted' = [C_acted EXCEPT ![k] =
          [event |-> k, threat |-> TRUE, answer |-> a,
           level |-> C!EffectiveLevel(a.level, e.suspicious)]]
  BY DEF C!RunPipeline
<1>4. AnswerOn(a, j.features)
  BY <1>2, <1>3, PredictionOn DEF ScoreInv
<1> DEFINE d == [event |-> k, threat |-> TRUE, answer |-> a,
                 level |-> C!EffectiveLevel(a.level, e.suspicious)]
<1>5. d \in Made /\ MadeOf(d, e, j.features)
  BY <1>2, <1>4, MakingIs
<1>6. UNCHANGED <<C_alarming, C_events, C_shown, C_analyzed, C_trained,
                  C_loaded>> /\ C_jobs' = C_jobs \ {j}
  BY DEF C!RunPipeline, C!Engine
<1>7. /\ \A b, p : AnswerOn(b, p) => AnswerOn(b, p)'
      /\ \A b, f, p : MadeOf(b, f, p) => MadeOf(b, f, p)'
  BY <1>6, AnswersStay
<1>8. EventsTrue' /\ JobsTrue'
  BY <1>6 DEF ScoreInv, EventsTrue, JobsTrue
<1>9. C_acted \in Seq(Made) /\ Len(C_acted) = Len(C_events)
      /\ C_events \in Seq(Witnessed)
  BY DEF ScoreInv, ActedTrue, EventsTrue
<1>10. d.event = k
  OBVIOUS
<1>11. ActedTrue'
  <2> HIDE DEF d
  <2>1. C_acted' = [C_acted EXCEPT ![k] = d]
    BY <1>3 DEF d
  <2>2. C_acted' \in Seq(Made) /\ Len(C_acted') = Len(C_events')
    <3>1. d \in Made /\ k \in DOMAIN C_acted
      BY <1>1, <1>5, <1>9
    <3> HIDE DEF k
    <3> QED BY <1>6, <1>9, <2>1, <3>1
  <2>3. ASSUME NEW i \in DOMAIN C_events'
        PROVE  \/ C_acted'[i] = C!NothingShown
               \/ /\ C_acted'[i].event = i /\ C_events'[i].suspicious
                  /\ MadeOf(C_acted[i], C_events[i], Measurement(C_events[i]))'
    <3>1. i \in DOMAIN C_events /\ i \in DOMAIN C_acted
      BY <1>6, <1>9
    <3>2. PICK b, f : b = C_acted'[i] /\ f = C_events[i]
      OBVIOUS
    <3>3. MadeOf(b, f, Measurement(f))
          => MadeOf(C_acted[i], C_events[i], Measurement(C_events[i]))'
      BY <1>6, <1>7, <3>2
    <3>4. CASE i = k
      <4>1. b = d /\ f = e
        BY <1>9, <2>1, <3>1, <3>2, <3>4
      <4>2. MadeOf(b, f, Measurement(f))
        BY <1>1, <1>5, <4>1
      <4> QED BY <1>1, <1>6, <1>10, <3>2, <3>3, <3>4, <4>1, <4>2
    <3>5. CASE i # k
      <4>1. b = C_acted[i]
        BY <1>9, <2>1, <3>1, <3>2, <3>5
      <4>2. \/ C_acted[i] = C!NothingShown
            \/ /\ C_acted[i].event = i /\ C_events[i].suspicious
               /\ MadeOf(C_acted[i], C_events[i], Measurement(C_events[i]))
        BY <3>1 DEF ScoreInv, ActedTrue
      <4> QED BY <1>6, <3>2, <3>3, <4>1, <4>2
    <3> QED BY <3>4, <3>5
  <2> QED BY <2>2, <2>3 DEF ActedTrue
<1>12. ShownTrue'
  BY <1>6, <1>7 DEF ScoreInv, ShownTrue
<1>13. AnalyzedTrue'
  BY <1>6, <1>7 DEF ScoreInv, AnalyzedTrue
<1> QED BY <1>6, <1>8, <1>11, <1>12, <1>13 DEF ScoreInv

LEMMA FocusIsEvent ==
  ASSUME EventsTrue, C_events # <<>> PROVE C!Focus \in DOMAIN C_events
<1> DEFINE n == Len(C_events)
           alerts == {i \in DOMAIN C_events : C_events[i].suspicious}
           from == IF alerts = {} THEN DOMAIN C_events ELSE alerts
<1>1. n \in Nat /\ DOMAIN C_events = 1 .. n /\ n >= 1
  BY DEF EventsTrue
<1>2. from \subseteq 1 .. n /\ from # {}
  BY <1>1
<1> HIDE DEF from
<1>3. from \subseteq 0 .. n
  BY <1>1, <1>2
<1>4. \E i \in from : \A k \in from : k <= i
  BY <1>1, <1>2, <1>3, GreatestOf
<1>5. C!Focus \in from
  BY <1>4 DEF C!Focus, from
<1> QED BY <1>1, <1>2, <1>5

LEMMA ScoreShows == ASSUME ScoreInv, C!Show PROVE ScoreInv'
<1> DEFINE k == C!Focus
           e == C_events[k]
           p == C!PredictionRequest(e)
<1>1. k \in DOMAIN C_events
  BY FocusIsEvent DEF ScoreInv, C!Show
<1>2. /\ e \in Witnessed /\ EventTrue(e)
      /\ k \in Nat
  BY <1>1 DEF ScoreInv, EventsTrue
<1>3. p \in Measures
  BY <1>2, RequestIs
<1>4. PICK a \in C!Predictions(p) :
        C_shown' = [event |-> k, threat |-> a.ransomware \/ e.suspicious,
                    answer |-> a,
                    level |-> C!EffectiveLevel(a.level, e.suspicious)]
  BY DEF C!Show
<1>5. AnswerOn(a, p)
  BY <1>3, <1>4, PredictionOn DEF ScoreInv
<1>6. (a.ransomware \/ e.suspicious) \in BOOLEAN
  OBVIOUS
<1>7. C_shown'.event = k /\ MadeOf(C_shown', e, p)
  <2> HIDE DEF e, p, k
  <2> QED BY <1>2, <1>3, <1>4, <1>5, <1>6, MakingIs
<1>8. UNCHANGED <<C_alarming, C_events, C_acted, C_jobs, C_analyzed, C_trained,
                  C_loaded>>
  BY DEF C!Show, C!Engine
<1>9. /\ \A b, q : AnswerOn(b, q) => AnswerOn(b, q)'
      /\ \A b, f, q : MadeOf(b, f, q) => MadeOf(b, f, q)'
  BY <1>8, AnswersStay
<1>10. EventsTrue' /\ JobsTrue' /\ AnalyzedTrue'
  BY <1>8, <1>9 DEF ScoreInv, EventsTrue, JobsTrue, AnalyzedTrue
<1>11. ActedTrue'
  BY <1>8, <1>9 DEF ScoreInv, ActedTrue
<1>12. ShownTrue'
  <2>1. PICK b, f, i : b = C_shown' /\ f = e /\ i = k
    OBVIOUS
  <2>2. MadeOf(b, f, C!PredictionRequest(f))'
    BY <1>7, <1>9, <2>1
  <2>3. C_shown'.event = i /\ C_events'[i] = f /\ i \in DOMAIN C_events'
    BY <1>1, <1>7, <1>8, <2>1
  <2> HIDE DEF e, k, p
  <2> QED BY <2>1, <2>2, <2>3 DEF ShownTrue
<1> QED BY <1>8, <1>10, <1>11, <1>12 DEF ScoreInv

LEMMA ScoreAnalyzes ==
  ASSUME ScoreInv, NEW c \in C_Content, NEW got, C!Analyze(c, got)
  PROVE  ScoreInv'
<1> DEFINE f == C!Features(c, got)
           a == C!Answer(f)
<1>1. f \in Measures
  BY FeaturesMeasure DEF ScoreInv
<1>2. C_loaded > 0 /\ C_analyzed' = [of |-> {c}, got |-> got, answer |-> a]
  BY DEF C!Analyze
<1>3. AnswerOn(a, f)
  <2>1. a \in C!Predictions(f)
    BY <1>2 DEF C!Predictions
  <2> QED BY <1>1, <2>1, PredictionOn DEF ScoreInv
<1>4. UNCHANGED <<C_alarming, C_events, C_acted, C_jobs, C_shown, C_trained,
                  C_loaded>>
  BY DEF C!Analyze, C!Engine
<1> HIDE DEF a
<1>5. /\ \A b, q : AnswerOn(b, q) => AnswerOn(b, q)'
      /\ \A b, e, q : MadeOf(b, e, q) => MadeOf(b, e, q)'
  BY <1>4, AnswersStay
<1>6. EventsTrue' /\ JobsTrue'
  BY <1>4 DEF ScoreInv, EventsTrue, JobsTrue
<1>7. ActedTrue'
  BY <1>4, <1>5 DEF ScoreInv, ActedTrue
<1>8. ShownTrue'
  BY <1>4, <1>5 DEF ScoreInv, ShownTrue
<1>9. AnalyzedTrue'
  <2>1. ASSUME NEW d \in C_analyzed'.of
        PROVE  AnswerOn(C_analyzed.answer, C!Features(d, C_analyzed.got))'
    <3>1. d = c /\ C_analyzed'.answer = a /\ C_analyzed'.got = got
      BY <1>2, <2>1
    <3>2. PICK b, q : b = a /\ q = C!Features(c, got)
      OBVIOUS
    <3>3. AnswerOn(b, q)'
      BY <1>3, <1>5, <3>1, <3>2
    <3> QED BY <3>1, <3>2, <3>3
  <2>2. C_analyzed'.of \subseteq C_Content
    BY <1>2 DEF ScoreInv
  <2> QED BY <2>1, <2>2 DEF AnalyzedTrue
<1> QED BY <1>4, <1>6, <1>7, <1>8, <1>9 DEF ScoreInv

LEMMA ScoreStep == ASSUME ScoreInv, C!Next PROVE ScoreInv'
<1>1. CASE C!Train
  BY <1>1, ScoreStill DEF ScoreInv, C!Train
<1>2. CASE C!StartEngine
  BY <1>2, ScoreStill DEF ScoreInv, C!StartEngine
<1>3. ASSUME NEW c \in C_Content, NEW got \in SUBSET C!Reads, C!Analyze(c, got)
      PROVE  ScoreInv'
  BY <1>3, ScoreAnalyzes
<1>4. ASSUME NEW c \in C_Content, NEW got \in SUBSET C!Reads,
             NEW suppressed \in BOOLEAN, C!HandleEvent(c, got, suppressed)
      PROVE  ScoreInv'
  BY <1>4, ScoreHandles
<1> QED BY <1>1, <1>2, <1>3, <1>4, ScoreRuns, ScoreShows DEF C!Next

\* One model has one answer about one vector.
LEMMA ScoresAlike ==
  ASSUME NEW a, NEW b, NEW p, NEW q, AnswerOn(a, p), AnswerOn(b, q),
         C!ToVector(p) = C!ToVector(q), a.model # 0, a.model = b.model
  PROVE  a = b
  BY DEF AnswerOn

LEMMA ScoreTells == ScoreInv => C!OneFileOneScore /\ C!AlertIsNeverPlayedDown
<1> SUFFICES ASSUME ScoreInv
             PROVE  C!OneFileOneScore /\ C!AlertIsNeverPlayedDown
  OBVIOUS
<1>1. ASSUME NEW i \in DOMAIN C_events
      PROVE  /\ C_events[i] \in Witnessed /\ EventTrue(C_events[i])
             /\ C_events[i].of \in C_Content /\ i # 0
  <2>1. C_events[i] \in Witnessed /\ EventTrue(C_events[i]) /\ i # 0
    BY DEF ScoreInv, EventsTrue
  <2> QED BY <2>1 DEF Witnessed
<1>2. ASSUME NEW i \in DOMAIN C_events, C_acted[i].event = i
      PROVE  /\ MadeOf(C_acted[i], C_events[i], Measurement(C_events[i]))
             /\ AnswerOn(C_acted[i].answer, Measurement(C_events[i]))
  BY <1>1, <1>2 DEF ScoreInv, ActedTrue, C!NothingShown, MadeOf
<1>3. ASSUME NEW i \in DOMAIN C_events, C_shown.event = i
      PROVE  /\ MadeOf(C_shown, C_events[i],
                       C!PredictionRequest(C_events[i]))
             /\ AnswerOn(C_shown.answer, C!PredictionRequest(C_events[i]))
  BY <1>1, <1>3 DEF ScoreInv, ShownTrue, C!NothingShown, MadeOf
<1>4. ASSUME NEW i \in DOMAIN C_events, ~C!Torn(C_events[i])
      PROVE  C!ToVector(C!PredictionRequest(C_events[i]))
             = C!ToVector(Measurement(C_events[i]))
  BY <1>1, <1>4, RequestIs
<1>5. ASSUME NEW i \in DOMAIN C_events, C!Remeasured(C_events[i])
      PROVE  AnswerOn(C_analyzed.answer, Measurement(C_events[i]))
  <2> DEFINE e == C_events[i]
  <2>1. C_analyzed.got = e.got
    BY <1>5 DEF C!Remeasured
  <2>2. PICK c \in C_analyzed.of :
          IF e.got = {} THEN c \in C_Renamed <=> e.of \in C_Renamed
          ELSE c = e.of
    BY <1>5 DEF C!Remeasured
  <2>3. c \in C_Content /\ e.of \in C_Content
    BY <1>1 DEF ScoreInv, AnalyzedTrue
  <2>4. AnswerOn(C_analyzed.answer, C!Features(c, e.got))
    BY <2>1, <2>3 DEF ScoreInv, AnalyzedTrue
  <2>5. C!Features(c, e.got) = Measurement(e)
    <3> HIDE DEF e
    <3>1. CASE e.got = {}
      BY <2>2, <2>3, <3>1, UnreadIs DEF Measurement
    <3>2. CASE e.got # {}
      BY <2>2, <3>2 DEF Measurement
    <3> QED BY <3>1, <3>2
  <2> QED BY <2>4, <2>5
<1>6. C!OneFileOneScore
  <2>1. ASSUME NEW i \in DOMAIN C_events, C_shown.event = i,
               ~C!Torn(C_events[i]),
               C_acted[i].event = i, C_shown.answer.model # 0,
               C_shown.answer.model = C_acted[i].answer.model
        PROVE  C_shown.answer = C_acted[i].answer
    BY <1>2, <1>3, <1>4, <2>1, ScoresAlike
  <2>2. ASSUME NEW i \in DOMAIN C_events, C_shown.event = i,
               ~C!Torn(C_events[i]), C!Remeasured(C_events[i]),
               C_shown.answer.model # 0,
               C_shown.answer.model = C_analyzed.answer.model
        PROVE  C_shown.answer = C_analyzed.answer
    BY <1>3, <1>4, <1>5, <2>2, ScoresAlike
  <2>3. ASSUME NEW i \in DOMAIN C_events, C!Remeasured(C_events[i]),
               C_acted[i].event = i, C_acted[i].answer.model # 0,
               C_acted[i].answer.model = C_analyzed.answer.model
        PROVE  C_acted[i].answer = C_analyzed.answer
    BY <1>2, <1>5, <2>3, ScoresAlike
  <2> QED BY <2>1, <2>2, <2>3 DEF C!OneFileOneScore
<1>7. C!AlertIsNeverPlayedDown
  <2>1. ASSUME NEW i \in DOMAIN C_events, C_events[i].suspicious,
               NEW d \in {C_acted[i], C_shown}, d.event = i
        PROVE  /\ d.threat /\ C!Rank(d.level) >= C!Rank("high")
               /\ (/\ ~C!Torn(C_events[i])
                   /\ d.answer.model # 0
                   /\ d.answer.model = C_acted[i].answer.model)
                  => d.level = C_acted[i].level
    <3>1. C_events[i].suspicious \in BOOLEAN
      BY <1>1 DEF Witnessed
    <3>2. \E p : MadeOf(d, C_events[i], p)
      BY <1>2, <1>3, <2>1
    <3>3. d.threat /\ C!Rank(d.level) >= C!Rank("high")
      BY <2>1, <3>1, <3>2, EffectiveIs DEF MadeOf, AnswerOn, Replies
    <3>4. ASSUME ~C!Torn(C_events[i]),
                 d.answer.model # 0, d.answer.model = C_acted[i].answer.model
          PROVE  d.level = C_acted[i].level
      <4>1. C_acted[i].event = i
        BY <3>4 DEF ScoreInv, ActedTrue, C!NothingShown, C!NoAnswer
      <4>2. CASE d = C_acted[i]
        BY <4>2
      <4>3. CASE d = C_shown
        <5>1. C_shown.answer = C_acted[i].answer
          BY <1>2, <1>3, <1>4, <2>1, <3>4, <4>1, <4>3, ScoresAlike
        <5> QED BY <1>2, <1>3, <2>1, <4>1, <4>3, <5>1 DEF MadeOf
      <4> QED BY <2>1, <4>2, <4>3
    <3> QED BY <3>3, <3>4
  <2> QED BY <2>1 DEF C!AlertIsNeverPlayedDown
<1> QED BY <1>6, <1>7

ScorePart == part = "scoring" => ScoreInv

\* One measurement has one score through every door, pipeline, dashboard and
\* /analyze, also of a file that was locked, but for the dashboard after a torn
\* look; and an alert is acted on and shown as high at least, whatever the model
\* answers (features_to_vector, prediction_request, pipeline.run,
\* effective_threat_level).
THEOREM OneContentOneScore == ServicesSpec => []ScoresAgree
<1>1. ServicesInit => ScorePart
  BY ScoreInit DEF ServicesInit, ScorePart
<1>2. ScorePart /\ [ServicesNext]_ServicesVars => ScorePart'
  <2> SUFFICES ASSUME ScorePart, [ServicesNext]_ServicesVars, part' = "scoring"
               PROVE  ScoreInv'
    BY DEF ScorePart
  <2>1. part = "scoring" /\ ScoreInv
    BY DEF ScorePart, ServicesNext, ServicesVars
  <2>2. CASE C!Next
    BY <2>1, <2>2, ScoreStep
  <2>3. CASE UNCHANGED C_vars
    BY <2>1, <2>3, ScoreStill DEF ScoreInv, C_vars
  <2> QED BY <2>1, <2>2, <2>3 DEF ServicesNext, ServicesVars
<1>3. ScorePart => ScoresAgree
  BY ScoreTells DEF ScorePart, ScoresAgree
<1> QED BY <1>1, <1>2, <1>3, PTL DEF ServicesSpec
===============================================================================
