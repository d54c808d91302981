----------------------------- MODULE PolicyProofs -----------------------------
(***************************************************************************)
(* No hold of the suspend policy is lost sight of, for any number of       *)
(* questions, processes, holds and leases: however lanes, re-asks, suspend *)
(* threads, closes, kills and a stop interleave, and whatever the Response *)
(* service answers, late or not at all.                                    *)
(***************************************************************************)
EXTENDS MCFreeze, TLAPS

-------------------------------------------------------------------------------
(* The inductive invariant.                                                *)

Active  == {"requesting", "held", "uncertain"}
Working == {"sent", "replied", "resuming"}

\* What a close leaves when the suspend thread is done.
Decided(r) ==
  \/ r.st \notin Active \/ r.disp = "failed" \/ ~r.owned
  \/ r.kill /\ r.st = "uncertain"

\* A hold r and its suspend thread, which is at t.
Good(r, t) ==
  /\ t = "idle" <=> r.st = "free"
  /\ t = "sent" <=> r.st = "requesting"
  /\ r.st # "free" => r.pid \in P_Pid
  /\ r.st = "requesting" => r.owned
  /\ r.st = "held" => r.lease \in P_LeaseId
  /\ r.asked \/ r.kill => r.disp # "none"
  /\ t = "resuming" => r.asked /\ ~r.kill
  /\ r.disp # "none" =>
       \/ r.st \notin Active
       \/ t \in Working /\ (r.asked \/ r.kill)
       \/ t \notin Working /\ Decided(r)

GoodHolds == \A h \in P_Hold : Good(P_hold[h], P_th[h])

\* A hold whose process may be frozen is the one its PID has.
Known == \A h \in P_Hold :
  P_hold[h].st \in Active => P_holds[P_hold[h].pid] = h

\* A question joins only a hold that was created.
Linked == \A i \in P_Incident :
  P_link[i] # P_NoHold => P_hold[P_link[i]].st # "free"

Asked == \A i \in P_Incident :
  P_ask[i].pc # "idle" => P_ask[i].pid \in P_Pid

\* The closing of question i has found hold h.
Found(i, h) ==
  /\ P_hold[h].st # "free"
  /\ P_closer[i].pc \in {"waiting", "resuming"} => P_hold[h].st # "requesting"
  /\ P_closer[i].pc = "resuming" => ~P_hold[h].kill /\ P_th[h] \notin Working
  /\ P_closer[i].pc \in {"killing", "done"} /\ ~P_closer[i].busy =>
       P_hold[h].disp # "none" \/ P_hold[h].st \notin Active

Closings == \A i \in P_Incident :
  /\ P_closer[i].pc = "idle" => P_closer[i].hold = P_NoHold
  /\ P_closer[i].pc \in {"waiting", "resuming"} => P_closer[i].hold # P_NoHold
  /\ \A h \in P_Hold : P_closer[i].hold = h => Found(i, h)

\* Only a question that is closing is acted on, and a kill has its PID.
Questions == \A i \in P_Incident :
  /\ P_closer[i].pc # "idle" => P_q[i].stage = "closing"
  /\ P_closer[i].pc = "killing" => P_q[i].answer \in P_Pid

\* What release_all still has to see to, and that nothing is registered then.
Releasing ==
  /\ P_stop.pc # "releasing" => P_stop.todo = {} /\ P_stop.cur = P_NoHold
  /\ \A h \in P_Hold : P_stop.cur = h =>
       P_hold[h].st \notin {"free", "requesting"} /\ P_th[h] \notin Working
  /\ P_stop.pc \in {"releasing", "stopped"} =>
       \A h \in P_Hold : P_hold[h].st \in Active =>
         \/ h \in P_stop.todo \/ P_stop.cur = h \/ h \in P_stop.failed
         \/ ~P_hold[h].owned

PolicyInv ==
  /\ P!TypeOK /\ GoodHolds /\ Known /\ Linked /\ Asked /\ Closings
  /\ Questions /\ Releasing

-------------------------------------------------------------------------------
(* What a step may do to a hold.                                           *)

LEMMA PolicyHolds == P!PolicyAssumption
  BY FreezeAssumption DEF FreezeAssumption

USE PolicyHolds DEF P!PolicyAssumption

\* A hold r, its thread at t, becomes s, its thread at u.
Onward(r, s, t, u) ==
  /\ r.st # "free" =>
       /\ s.st # "free" /\ s.pid = r.pid
       /\ s.st = "requesting" => r.st = "requesting"
       /\ s.st \in Active => r.st \in Active
       /\ r.disp # "none" => s.disp # "none"
       /\ s.kill => r.kill \/ r.st = "requesting"
       /\ s.owned => r.owned
       /\ u \in Working => t \in Working

HoldsOnward == \A h \in P_Hold : Onward(P_hold[h], P_hold'[h], P_th[h], P_th'[h])

\* Nothing a hold is linked from, closed by or released by is lost on the way.
LEMMA LinksStay ==
  ASSUME Linked, HoldsOnward, P!TypeOK,
         \A i \in P_Incident :
           P_link'[i] = P_link[i] \/ P_link'[i] = P_NoHold
  PROVE  Linked'
<1>1. \A i \in P_Incident : P_link[i] # P_NoHold => P_link[i] \in P_Hold
  BY DEF P!TypeOK
<1> QED BY <1>1 DEF Linked, HoldsOnward, Onward

LEMMA ClosingStays ==
  ASSUME Closings, HoldsOnward, NEW i \in P_Incident, P_closer'[i] = P_closer[i]
  PROVE  /\ P_closer'[i].pc = "idle" => P_closer'[i].hold = P_NoHold
         /\ P_closer'[i].pc \in {"waiting", "resuming"} =>
              P_closer'[i].hold # P_NoHold
         /\ \A h \in P_Hold : P_closer'[i].hold = h => Found(i, h)'
<1>1. ASSUME NEW h \in P_Hold, P_closer[i].hold = h PROVE Found(i, h)'
  <2>1. Found(i, h) /\ Onward(P_hold[h], P_hold'[h], P_th[h], P_th'[h])
    BY <1>1 DEF Closings, HoldsOnward
  <2>2. P_hold'[h].st # "free"
    BY <2>1 DEF Found, Onward
  <2>3. P_closer[i].pc \in {"waiting", "resuming"} => P_hold'[h].st # "requesting"
    BY <2>1 DEF Found, Onward
  <2>4. P_closer[i].pc = "resuming" =>
          ~P_hold'[h].kill /\ P_th'[h] \notin Working
    BY <2>1 DEF Found, Onward
  <2>5. P_closer[i].pc \in {"killing", "done"} /\ ~P_closer[i].busy =>
          P_hold'[h].disp # "none" \/ P_hold'[h].st \notin Active
    BY <2>1 DEF Found, Onward
  <2> QED BY <2>2, <2>3, <2>4, <2>5 DEF Found
<1> QED BY <1>1 DEF Closings

LEMMA ReleaseStays ==
  ASSUME Releasing, HoldsOnward, UNCHANGED P_stop,
         P_stop.pc \in {"releasing", "stopped"} =>
           \A h \in P_Hold : P_hold[h].st = "free" => P_hold'[h].st \notin Active
  PROVE  Releasing'
<1>1. ASSUME NEW h \in P_Hold, P_stop.cur = h
      PROVE  P_hold'[h].st \notin {"free", "requesting"} /\ P_th'[h] \notin Working
  BY <1>1 DEF Releasing, HoldsOnward, Onward
<1>2. ASSUME P_stop.pc \in {"releasing", "stopped"},
             NEW h \in P_Hold, P_hold'[h].st \in Active
      PROVE  \/ h \in P_stop.todo \/ P_stop.cur = h \/ h \in P_stop.failed
             \/ ~P_hold'[h].owned
  BY <1>2 DEF Releasing, HoldsOnward, Onward
<1> QED BY <1>1, <1>2 DEF Releasing

\* One hold moves on, and leaves its place in _holds only if nothing of it may
\* be frozen any more.
Others(h) ==
  /\ \A g \in P_Hold : g # h => P_hold'[g] = P_hold[g] /\ P_th'[g] = P_th[g]

LEMMA OneMoves ==
  ASSUME PolicyInv, NEW h \in P_Hold, P_hold[h].st # "free", Others(h),
         Onward(P_hold[h], P_hold'[h], P_th[h], P_th'[h]),
         Good(P_hold'[h], P_th'[h]),
         UNCHANGED P_holds \/ (P_holds' = P!Cleared(h) /\ P_hold'[h].st \notin Active)
  PROVE  GoodHolds' /\ Known' /\ HoldsOnward
         /\ \A g \in P_Hold : P_hold[g].st = "free" => P_hold'[g].st = "free"
<1>1. \A r, t : Onward(r, r, t, t)
  BY DEF Onward
<1>2. HoldsOnward
  BY <1>1 DEF Others, HoldsOnward
<1>3. GoodHolds'
  BY DEF PolicyInv, GoodHolds, Others
<1>4. ASSUME NEW g \in P_Hold, P_hold'[g].st \in Active
      PROVE  P_holds'[P_hold'[g].pid] = g
  <2>1. /\ P_hold'[g].pid = P_hold[g].pid /\ P_hold[g].st \in Active
        /\ g = h => UNCHANGED P_holds
    BY <1>4 DEF Others, Onward
  <2>2. P_holds[P_hold[g].pid] = g
    BY <2>1 DEF PolicyInv, Known
  <2>3. P_hold[g].pid \in P_Pid /\ P_holds \in [P_Pid -> P_Hold \cup {P_NoHold}]
    BY <2>1 DEF PolicyInv, GoodHolds, Good, Active, P!TypeOK
  <2>4. CASE UNCHANGED P_holds
    BY <2>1, <2>2, <2>4
  <2>5. CASE P_holds' = P!Cleared(h) /\ g # h
    BY <2>1, <2>2, <2>3, <2>5 DEF P!Cleared
  <2> QED BY <2>1, <2>4, <2>5
<1> QED BY <1>2, <1>3, <1>4 DEF Known, Others

\* Nothing of the holds is touched.
LEMMA NoneMoves ==
  ASSUME PolicyInv, UNCHANGED <<P_hold, P_holds, P_th>>
  PROVE  GoodHolds' /\ Known' /\ HoldsOnward
         /\ \A g \in P_Hold : P_hold[g].st = "free" => P_hold'[g].st = "free"
<1>1. \A r, t : Onward(r, r, t, t)
  BY DEF Onward
<1>2. GoodHolds'
  BY DEF PolicyInv, GoodHolds
<1>3. Known'
  BY DEF PolicyInv, Known
<1> QED BY <1>1, <1>2, <1>3 DEF HoldsOnward

-------------------------------------------------------------------------------
(* The records.                                                            *)

HoldSt == {"free", "requesting", "held", "uncertain", "refused", "terminating",
           "ended"}
Disp == {"none", "deferred", "terminate", "resumed", "failed", "left", "expired"}

\* A hold with its state and its disposition set is a hold.
LEMMA HoldIs ==
  ASSUME NEW r \in P!HoldState
  PROVE  /\ r.st \in HoldSt /\ r.disp \in Disp
         /\ r.pid \in P_Pid \cup {P_NoPid}
         /\ r.lease \in P_LeaseId \cup {P_NoLease}
         /\ r.owned \in BOOLEAN /\ r.asked \in BOOLEAN /\ r.kill \in BOOLEAN
  BY DEF P!HoldState, HoldSt, Disp

Same(r, s) ==
  s.pid = r.pid /\ s.lease = r.lease /\ s.owned = r.owned

LEMMA StateSet ==
  ASSUME NEW r \in P!HoldState, NEW st \in HoldSt
  PROVE  LET s == [r EXCEPT !.st = st] IN
         /\ s \in P!HoldState /\ s.st = st /\ Same(r, s)
         /\ s.disp = r.disp /\ s.asked = r.asked /\ s.kill = r.kill
  BY DEF P!HoldState, HoldSt, Same

LEMMA DispSet ==
  ASSUME NEW r \in P!HoldState, NEW d \in Disp
  PROVE  LET s == [r EXCEPT !.disp = d] IN
         /\ s \in P!HoldState /\ s.disp = d /\ Same(r, s)
         /\ s.st = r.st /\ s.asked = r.asked /\ s.kill = r.kill
  BY DEF P!HoldState, Disp, Same

TurnedTo(r, st, d) == [r EXCEPT !.st = st, !.disp = d]

LEMMA BothSet ==
  ASSUME NEW r \in P!HoldState, NEW st \in HoldSt, NEW d \in Disp
  PROVE  LET s == TurnedTo(r, st, d) IN
         /\ s \in P!HoldState /\ s.st = st /\ s.disp = d /\ Same(r, s)
         /\ s.asked = r.asked /\ s.kill = r.kill
  BY DEF P!HoldState, HoldSt, Disp, Same, TurnedTo

LEMMA KillSet ==
  ASSUME NEW r \in P!HoldState, NEW d \in Disp
  PROVE  LET s == [r EXCEPT !.kill = TRUE, !.disp = d] IN
         /\ s \in P!HoldState /\ s.kill = TRUE /\ s.disp = d /\ Same(r, s)
         /\ s.st = r.st /\ s.asked = r.asked
  BY DEF P!HoldState, Disp, Same

LEMMA AskedSet ==
  ASSUME NEW r \in P!HoldState, NEW d \in Disp
  PROVE  LET s == [r EXCEPT !.asked = TRUE, !.disp = d] IN
         /\ s \in P!HoldState /\ s.asked = TRUE /\ s.disp = d /\ Same(r, s)
         /\ s.st = r.st /\ s.kill = r.kill
  BY DEF P!HoldState, Disp, Same

Leased(r, l, b) == [r EXCEPT !.st = "held", !.lease = l, !.owned = b]

LEMMA LeaseSet ==
  ASSUME NEW r \in P!HoldState, NEW l \in P_LeaseId, NEW b \in BOOLEAN
  PROVE  LET s == Leased(r, l, b) IN
         /\ s \in P!HoldState /\ s.st = "held" /\ s.lease = l /\ s.owned = b
         /\ s.pid = r.pid /\ s.disp = r.disp /\ s.asked = r.asked
         /\ s.kill = r.kill
  BY DEF P!HoldState, Leased

LEMMA NewHoldIs ==
  ASSUME NEW p \in P_Pid
  PROVE  /\ P!NewHold(p) \in P!HoldState /\ P!NewHold(p).st = "requesting"
         /\ P!NewHold(p).pid = p /\ P!NewHold(p).owned = TRUE
         /\ P!NewHold(p).disp = "none" /\ P!NewHold(p).asked = FALSE
         /\ P!NewHold(p).kill = FALSE
  BY DEF P!NewHold, P!HoldState

\* A question, an asking, a closing and the release, with fields set.
LEMMA QuestionSet ==
  ASSUME NEW r \in P!Question, NEW st \in {"new", "open", "closing"},
         NEW a \in P_Pid \cup {P_NoPid}, NEW p \in P_Pid
  PROVE  /\ [r EXCEPT !.writers = @ \cup {p}] \in P!Question
         /\ [r EXCEPT !.writers = @ \cup {p}].stage = r.stage
         /\ [r EXCEPT !.writers = @ \cup {p}].answer = r.answer
         /\ [r EXCEPT !.stage = st] \in P!Question
         /\ [r EXCEPT !.stage = st].stage = st
         /\ [r EXCEPT !.stage = st, !.answer = a] \in P!Question
         /\ [r EXCEPT !.stage = st, !.answer = a].stage = st
  BY DEF P!Question

LEMMA StageSet ==
  ASSUME NEW r \in P!Question, NEW st \in {"new", "open", "closing"}
  PROVE  /\ [r EXCEPT !.stage = st] \in P!Question
         /\ [r EXCEPT !.stage = st].stage = st
  BY DEF P!Question

LEMMA AssessingIs ==
  ASSUME NEW r \in P!Asking
  PROVE  /\ [r EXCEPT !.pc = "assessing"] \in P!Asking
         /\ [r EXCEPT !.pc = "assessing"].pid = r.pid
  BY DEF P!Asking

CloserPc == {"idle", "waiting", "resuming", "killing", "done"}

FoundAt(r, pc, h) == [r EXCEPT !.pc = pc, !.hold = h]

LEMMA CloserHoldSet ==
  ASSUME NEW r \in P!Closer, NEW pc \in CloserPc, NEW h \in P_Hold
  PROVE  LET c == FoundAt(r, pc, h) IN
         c \in P!Closer /\ c.pc = pc /\ c.hold = h /\ c.busy = r.busy
  BY DEF P!Closer, CloserPc, FoundAt

LEMMA CloserBusySet ==
  ASSUME NEW r \in P!Closer, NEW pc \in CloserPc
  PROVE  /\ [r EXCEPT !.pc = pc, !.busy = TRUE] \in P!Closer
         /\ [r EXCEPT !.pc = pc, !.busy = TRUE].pc = pc
         /\ [r EXCEPT !.pc = pc, !.busy = TRUE].hold = r.hold
         /\ [r EXCEPT !.pc = pc, !.busy = TRUE].busy = TRUE
  BY DEF P!Closer, CloserPc

LEMMA CloserPcSet ==
  ASSUME NEW r \in P!Closer, NEW pc \in CloserPc
  PROVE  /\ [r EXCEPT !.pc = pc] \in P!Closer /\ [r EXCEPT !.pc = pc].pc = pc
         /\ [r EXCEPT !.pc = pc].hold = r.hold /\ [r EXCEPT !.pc = pc].busy = r.busy
  BY DEF P!Closer, CloserPc

LEMMA AfterCloseIs ==
  ASSUME P!TypeOK, NEW i \in P_Incident
  PROVE  /\ P!AfterClose(i) \in {"done", "killing"}
         /\ P!AfterClose(i) = "killing" => P_q[i].answer \in P_Pid
  BY DEF P!AfterClose, P!TypeOK, P!Question

\* Leases stay leases, whatever ends or is granted.
LEMMA LeasesEnd ==
  ASSUME P!TypeOK, NEW L, P!EndLeases(L)
  PROVE  P_lease' \in [P_LeaseId -> P!Lease]
<1>1. \A l \in P_LeaseId : P_lease[l] \in P!Lease
  BY DEF P!TypeOK
<1>2. [st |-> "ended", pid |-> P_NoPid] \in P!Lease
  BY DEF P!Lease
<1> QED BY <1>1, <1>2 DEF P!EndLeases

LEMMA LeaseGranted ==
  ASSUME P!TypeOK, NEW l \in P_LeaseId, NEW p \in P_Pid \cup {P_NoPid}, P!Grant(l, p)
  PROVE  P_lease' \in [P_LeaseId -> P!Lease]
<1>1. [st |-> "held", pid |-> p] \in P!Lease
  BY DEF P!Lease
<1>2. P_lease \in [P_LeaseId -> P!Lease]
  BY DEF P!TypeOK
<1> QED BY <1>1, <1>2 DEF P!Grant

LEMMA TypesAre ==
  ASSUME P!TypeOK
  PROVE  /\ P_q \in [P_Incident -> P!Question]
         /\ P_ask \in [P_Incident -> P!Asking]
         /\ P_closer \in [P_Incident -> P!Closer]
         /\ P_hold \in [P_Hold -> P!HoldState]
         /\ P_holds \in [P_Pid -> P_Hold \cup {P_NoHold}]
         /\ P_link \in [P_Incident -> P_Hold \cup {P_NoHold}]
         /\ P_handled \in SUBSET (P_Incident \X P_Pid)
         /\ P_th \in [P_Hold -> P!SuspenderAt]
         /\ P_stop \in P!Stopping
         /\ P_lease \in [P_LeaseId -> P!Lease]
         /\ P_late \in SUBSET P_Hold
         /\ P_dead \in SUBSET P_Pid
  BY DEF P!TypeOK

-------------------------------------------------------------------------------
(* What the environment and the lanes do: no hold is touched.              *)

\* Only the questions, the askings and what was judged may change.
LEMMA QuestionsMove ==
  ASSUME PolicyInv, UNCHANGED <<P_closer, P_hold, P_holds, P_th, P_stop, P_dead, P_late>>,
         P_q' \in [P_Incident -> P!Question], P_ask' \in [P_Incident -> P!Asking],
         P_link' \in [P_Incident -> P_Hold \cup {P_NoHold}],
         P_handled' \in SUBSET (P_Incident \X P_Pid),
         P_lease' \in [P_LeaseId -> P!Lease],
         \A i \in P_Incident : P_q[i].stage = "closing" => P_q'[i] = P_q[i],
         Asked', Linked'
  PROVE  PolicyInv'
<1>1. GoodHolds' /\ Known' /\ HoldsOnward
  BY NoneMoves
<1>2. P!TypeOK'
  BY TypesAre DEF PolicyInv, P!TypeOK
<1>3. Closings'
  BY <1>1, ClosingStays DEF PolicyInv, Closings
<1>4. Questions'
  BY DEF PolicyInv, Questions
<1>5. Releasing'
  <2>1. \A h \in P_Hold : P_hold[h].st = "free" => P_hold'[h].st \notin Active
    BY DEF Active
  <2> QED BY <1>1, <2>1, ReleaseStays DEF PolicyInv
<1> QED BY <1>1, <1>2, <1>3, <1>4, <1>5 DEF PolicyInv

LEMMA AskedMoves ==
  ASSUME Asked, NEW i \in P_Incident, P!TypeOK,
         \/ UNCHANGED P_ask
         \/ /\ \A j \in P_Incident : j # i => P_ask'[j] = P_ask[j]
            /\ P_ask'[i].pc = "idle" \/ P_ask'[i].pid \in P_Pid
  PROVE  Asked'
  BY DEF Asked

\* on_first_answer has an answer, or leaves it.
LEMMA AskIs ==
  ASSUME PolicyInv, NEW i \in P_Incident, P!Leave(i) \/ P!Assess(i)
  PROVE  /\ P_ask' \in [P_Incident -> P!Asking]
         /\ P_ask[i].pc # "idle" => Asked'
<1>1. P_ask \in [P_Incident -> P!Asking] /\ P!NotAsking \in P!Asking
  BY TypesAre DEF PolicyInv, P!NotAsking, P!Asking
<1>2. P_ask' \in [P_Incident -> P!Asking]
  BY <1>1, AssessingIs DEF P!Leave, P!Assess
<1>3. P_ask'[i].pc = "idle" \/ P_ask'[i].pid = P_ask[i].pid
  <2>1. CASE P!Leave(i)
    BY <1>1, <2>1 DEF P!Leave, P!NotAsking
  <2>2. CASE P!Assess(i)
    BY <1>1, <2>2, AssessingIs DEF P!Assess
  <2> QED BY <2>1, <2>2
<1>4. \A j \in P_Incident : j # i => P_ask'[j] = P_ask[j]
  BY <1>1 DEF P!Leave, P!Assess
<1>5. P_ask[i].pc # "idle" => Asked'
  BY <1>3, <1>4, AskedMoves DEF PolicyInv, Asked
<1> QED BY <1>2, <1>5

LEMMA RecordsKeep ==
  ASSUME PolicyInv, NEW i \in P_Incident,
         \/ \E p \in P_Pid : P!RecordArrives(i, p) \/ P!Look(i, p)
         \/ P!OpenQuestion(i) \/ P!CloseQuestion(i) \/ P!RetireQuestion(i)
  PROVE  PolicyInv'
<1>0. P!TypeOK /\ P_q \in [P_Incident -> P!Question]
  BY TypesAre DEF PolicyInv
<1>1. ASSUME NEW p \in P_Pid, P!RecordArrives(i, p)
      PROVE  PolicyInv'
  <2>1. /\ UNCHANGED <<P_ask, P_closer, P!policyVars, P_th, P_stop, P!serviceVars>>
        /\ P_q' = [P_q EXCEPT ![i] = [P_q[i] EXCEPT !.writers = @ \cup {p}]]
        /\ P_q[i].stage # "closing"
    BY <1>1 DEF P!RecordArrives
  <2>2. P_q' \in [P_Incident -> P!Question]
    BY <1>0, <2>1, QuestionSet
  <2>3. Asked' /\ Linked'
    BY <2>1 DEF PolicyInv, Asked, Linked, P!policyVars
  <2> QED BY <1>0, <2>1, <2>2, <2>3, QuestionsMove, TypesAre
      DEF P!policyVars, P!serviceVars
<1>2. ASSUME NEW p \in P_Pid, P!Look(i, p)
      PROVE  PolicyInv'
  <2>1. /\ UNCHANGED <<P_q, P_closer, P!policyVars, P_th, P_stop, P!serviceVars>>
        /\ P_ask' = [P_ask EXCEPT ![i] =
                       [pc |-> "looked", pid |-> p, sole |-> P!Sole(i)]]
    BY <1>2 DEF P!Look
  <2>2. [pc |-> "looked", pid |-> p, sole |-> P!Sole(i)] \in P!Asking
    BY DEF P!Asking, P!Sole
  <2>3. P_ask' \in [P_Incident -> P!Asking]
    BY <1>0, <2>1, <2>2, TypesAre
  <2>4. Asked'
    BY <1>0, <2>1, TypesAre DEF PolicyInv, Asked
  <2>5. Linked'
    BY <2>1 DEF PolicyInv, Linked, P!policyVars
  <2> QED BY <1>0, <2>1, <2>3, <2>4, <2>5, QuestionsMove, TypesAre
      DEF P!policyVars, P!serviceVars
<1>3. CASE P!OpenQuestion(i) \/ P!CloseQuestion(i) \/ P!RetireQuestion(i)
  <2>1. /\ UNCHANGED <<P_ask, P_closer, P!policyVars, P_th, P_stop, P!serviceVars>>
        /\ P_q[i].stage # "closing"
        /\ \A j \in P_Incident : j # i => P_q'[j] = P_q[j]
    BY <1>0, <1>3 DEF P!OpenQuestion, P!CloseQuestion, P!RetireQuestion
  <2>2. P_q' \in [P_Incident -> P!Question]
    <3>1. CASE P!OpenQuestion(i)
      BY <1>0, <3>1, StageSet DEF P!OpenQuestion
    <3>2. CASE P!RetireQuestion(i)
      BY <1>0, <3>2, StageSet DEF P!RetireQuestion
    <3>3. CASE P!CloseQuestion(i)
      <4>1. P_q[i] \in P!Question /\ P_q[i].writers \subseteq P_Pid
        BY <1>0 DEF P!Question
      <4>2. PICK a \in P_Pid \cup {P_NoPid} :
              P_q' = [P_q EXCEPT ![i] =
                        [P_q[i] EXCEPT !.stage = "closing", !.answer = a]]
        BY <3>3, <4>1 DEF P!CloseQuestion
      <4>3. [P_q[i] EXCEPT !.stage = "closing", !.answer = a] \in P!Question
        BY <4>1 DEF P!Question
      <4> QED BY <1>0, <4>2, <4>3
    <3> QED BY <1>3, <3>1, <3>2, <3>3
  <2>3. Asked' /\ Linked'
    BY <2>1 DEF PolicyInv, Asked, Linked, P!policyVars
  <2> QED BY <1>0, <2>1, <2>2, <2>3, QuestionsMove, TypesAre
      DEF P!policyVars, P!serviceVars
<1> QED BY <1>1, <1>2, <1>3

LEMMA AnswersKeep ==
  ASSUME PolicyInv, NEW i \in P_Incident,
         P!Join(i) \/ P!Consider(i) \/ P!Decline(i) \/ P!JoinAfterAll(i)
  PROVE  PolicyInv'
<1>0. P!TypeOK
  BY DEF PolicyInv
<1>1. /\ UNCHANGED <<P_q, P_closer, P_hold, P_holds, P_th, P_stop, P!serviceVars>>
      /\ P_ask[i].pc # "idle" /\ (P!Leave(i) \/ P!Assess(i))
      /\ P_handled' \in {P_handled, P_handled \cup {<<i, P_ask[i].pid>>}}
      /\ \/ UNCHANGED P_link
         \/ /\ P!ActiveOn(P_ask[i].pid)
            /\ P_link' = [P_link EXCEPT ![i] = P_holds[P_ask[i].pid]]
  BY DEF P!Join, P!Consider, P!Decline, P!JoinAfterAll, P!MayFreeze, P!policyVars
<1>2. P_ask' \in [P_Incident -> P!Asking] /\ Asked'
  BY <1>1, AskIs
<1>3. P_ask[i].pid \in P_Pid
  BY <1>1 DEF PolicyInv, Asked
<1>4. P_handled' \in SUBSET (P_Incident \X P_Pid)
  BY <1>0, <1>1, <1>3, TypesAre
<1>5. P_holds[P_ask[i].pid] \in P_Hold \cup {P_NoHold}
  BY <1>0, <1>3, TypesAre
<1>6. P_link' \in [P_Incident -> P_Hold \cup {P_NoHold}]
  BY <1>0, <1>1, <1>5, TypesAre
<1>7. Linked'
  <2>1. CASE UNCHANGED P_link
    BY <1>1, <2>1 DEF PolicyInv, Linked
  <2>2. CASE /\ P!ActiveOn(P_ask[i].pid)
             /\ P_link' = [P_link EXCEPT ![i] = P_holds[P_ask[i].pid]]
    <3>1. P_hold[P_holds[P_ask[i].pid]].st # "free"
      BY <2>2 DEF P!ActiveOn, P!Active
    <3> QED BY <1>0, <1>1, <2>2, <3>1, TypesAre DEF PolicyInv, Linked
  <2> QED BY <1>1, <2>1, <2>2
<1> QED BY <1>0, <1>1, <1>2, <1>4, <1>6, <1>7, QuestionsMove, TypesAre
    DEF P!serviceVars

LEMMA ServiceKeeps ==
  ASSUME PolicyInv,
         \/ \E p \in P_Pid, l \in P_LeaseId : P!OtherSuspends(p, l)
         \/ \E l \in P_LeaseId : P!LeaseEnds(l)
         \/ \E h \in P_Hold, l \in P_LeaseId : P!ServeLate(h, l)
  PROVE  PolicyInv'
<1>0. P!TypeOK
  BY DEF PolicyInv
<1>1. /\ UNCHANGED <<P_q, P_ask, P_closer, P!policyVars, P_th, P_stop, P_dead>>
      /\ P_late' \in SUBSET P_Hold
  BY <1>0, TypesAre
  DEF P!OtherSuspends, P!LeaseEnds, P!ServeLate, P!questionVars
<1>2. P_lease' \in [P_LeaseId -> P!Lease]
  <2>1. ASSUME NEW p \in P_Pid, NEW l \in P_LeaseId, P!OtherSuspends(p, l)
        PROVE  P_lease' \in [P_LeaseId -> P!Lease]
    BY <1>0, <2>1, LeaseGranted DEF P!OtherSuspends
  <2>2. ASSUME NEW l \in P_LeaseId, P!LeaseEnds(l)
        PROVE  P_lease' \in [P_LeaseId -> P!Lease]
    BY <1>0, <2>2, LeasesEnd DEF P!LeaseEnds
  <2>3. ASSUME NEW h \in P_Hold, NEW l \in P_LeaseId, P!ServeLate(h, l)
        PROVE  P_lease' \in [P_LeaseId -> P!Lease]
    <3>1. P_hold[h].pid \in P_Pid \cup {P_NoPid}
      BY <1>0, TypesAre, HoldIs
    <3> QED BY <1>0, <2>3, <3>1, LeaseGranted DEF P!ServeLate
  <2> QED BY <2>1, <2>2, <2>3
<1>3. Asked' /\ Linked'
  BY <1>1 DEF PolicyInv, Asked, Linked, P!policyVars
<1>4. GoodHolds' /\ Known' /\ Closings' /\ Questions' /\ Releasing'
  <2>1. UNCHANGED <<P_hold, P_holds, P_th>>
    BY <1>1 DEF P!policyVars
  <2> QED BY <1>1, <2>1 DEF PolicyInv, GoodHolds, Known, Closings, Found, Questions,
      Releasing
<1>5. P!TypeOK'
  BY <1>0, <1>1, <1>2, TypesAre DEF P!TypeOK, P!policyVars
<1> QED BY <1>3, <1>4, <1>5 DEF PolicyInv

-------------------------------------------------------------------------------
(* What the suspend threads do.                                            *)

\* One hold moves on.
Moves(h) ==
  /\ P_hold[h].st # "free" /\ Others(h)
  /\ P_hold' \in [P_Hold -> P!HoldState] /\ P_th' \in [P_Hold -> P!SuspenderAt]
  /\ Onward(P_hold[h], P_hold'[h], P_th[h], P_th'[h])
  /\ Good(P_hold'[h], P_th'[h])
  /\ \/ UNCHANGED P_holds
     \/ P_holds' = P!Cleared(h) /\ P_hold'[h].st \notin Active

LEMMA MovesKeeps ==
  ASSUME PolicyInv, NEW h \in P_Hold, Moves(h)
  PROVE  /\ GoodHolds' /\ Known' /\ HoldsOnward
         /\ P_holds' \in [P_Pid -> P_Hold \cup {P_NoHold}]
         /\ \A g \in P_Hold : P_hold[g].st = "free" => P_hold'[g].st \notin Active
<1>1. /\ GoodHolds' /\ Known' /\ HoldsOnward
      /\ \A g \in P_Hold : P_hold[g].st = "free" => P_hold'[g].st = "free"
  BY OneMoves DEF Moves
<1>2. P_holds' \in [P_Pid -> P_Hold \cup {P_NoHold}]
  BY TypesAre DEF PolicyInv, Moves, P!Cleared
<1> QED BY <1>1, <1>2 DEF Active

LEMMA ThreadMoves ==
  ASSUME PolicyInv, NEW h \in P_Hold, Moves(h),
         UNCHANGED <<P_q, P_ask, P_closer, P_link, P_handled, P_stop, P_dead>>,
         P_lease' \in [P_LeaseId -> P!Lease], P_late' \in SUBSET P_Hold
  PROVE  PolicyInv'
<1>1. /\ GoodHolds' /\ Known' /\ HoldsOnward
      /\ P_holds' \in [P_Pid -> P_Hold \cup {P_NoHold}]
      /\ \A g \in P_Hold : P_hold[g].st = "free" => P_hold'[g].st \notin Active
  BY MovesKeeps
<1>2. P!TypeOK'
  BY <1>1, TypesAre DEF PolicyInv, P!TypeOK, Moves
<1>3. Linked'
  BY <1>1, LinksStay DEF PolicyInv
<1>4. Asked' /\ Questions'
  BY DEF PolicyInv, Asked, Questions
<1>5. Closings'
  BY <1>1, ClosingStays DEF PolicyInv, Closings
<1>6. Releasing'
  BY <1>1, ReleaseStays DEF PolicyInv
<1> QED BY <1>1, <1>2, <1>3, <1>4, <1>5, <1>6 DEF PolicyInv

\* The hold at h becomes s and its thread goes to u.
Becomes(h, s, u) ==
  /\ P_hold' = [P_hold EXCEPT ![h] = s]
  /\ P_th' = [P_th EXCEPT ![h] = u]

LEMMA BecomesIs ==
  ASSUME P!TypeOK, NEW h \in P_Hold, NEW s \in P!HoldState, NEW u \in P!SuspenderAt,
         Becomes(h, s, u)
  PROVE  /\ Others(h) /\ P_hold'[h] = s /\ P_th'[h] = u
         /\ P_hold' \in [P_Hold -> P!HoldState] /\ P_th' \in [P_Hold -> P!SuspenderAt]
  BY TypesAre DEF Becomes, Others

LEMMA HoldTypes ==
  ASSUME PolicyInv, NEW h \in P_Hold
  PROVE  /\ P!TypeOK /\ P_hold[h] \in P!HoldState /\ P_th[h] \in P!SuspenderAt
         /\ Good(P_hold[h], P_th[h])
         /\ P_hold[h].st \in HoldSt /\ P_hold[h].disp \in Disp
  BY TypesAre, HoldIs DEF PolicyInv, GoodHolds

LEMMA FailedKeeps ==
  ASSUME PolicyInv, NEW h \in P_Hold, P!Failed(h)
  PROVE  PolicyInv'
<1> DEFINE s == [P_hold[h] EXCEPT !.st = "refused"]
<1>1. /\ Becomes(h, s, "done") /\ P_holds' = P!Cleared(h) /\ P_th[h] = "sent"
      /\ UNCHANGED <<P!questionVars, P_link, P_handled, P_stop, P!serviceVars>>
  BY DEF P!Failed, P!Step, Becomes
<1>2. /\ s \in P!HoldState /\ s.st = "refused" /\ Same(P_hold[h], s)
      /\ s.disp = P_hold[h].disp /\ s.asked = P_hold[h].asked
      /\ s.kill = P_hold[h].kill
  BY HoldTypes, StateSet DEF HoldSt
<1> HIDE DEF s
<1>3. /\ Others(h) /\ P_hold'[h] = s /\ P_th'[h] = "done"
      /\ P_hold' \in [P_Hold -> P!HoldState] /\ P_th' \in [P_Hold -> P!SuspenderAt]
  BY <1>1, <1>2, HoldTypes, BecomesIs DEF P!SuspenderAt
<1>4. P_hold[h].st = "requesting" /\ P_hold[h].pid \in P_Pid
  BY <1>1, HoldTypes DEF Good
<1>5. Good(s, "done")
  BY <1>2, <1>4, HoldTypes DEF Good, Same, Active
<1>6. Onward(P_hold[h], s, P_th[h], "done")
  BY <1>2, <1>4 DEF Onward, Same, Active, Working
<1>7. Moves(h)
  BY <1>1, <1>2, <1>3, <1>4, <1>5, <1>6 DEF Moves, Active
<1> QED BY <1>1, <1>7, HoldTypes, TypesAre, ThreadMoves
    DEF P!questionVars, P!serviceVars

LEMMA TimesOutKeeps ==
  ASSUME PolicyInv, NEW h \in P_Hold, P!SuspendTimesOut(h)
  PROVE  PolicyInv'
<1> DEFINE s == [P_hold[h] EXCEPT !.st = "uncertain"]
<1>1. /\ Becomes(h, s, "replied") /\ UNCHANGED P_holds /\ P_th[h] = "sent"
      /\ UNCHANGED <<P!questionVars, P_link, P_handled, P_stop, P_lease, P_dead>>
      /\ P_late' = P_late \cup {h}
  BY DEF P!SuspendTimesOut, P!Step, Becomes
<1>2. /\ s \in P!HoldState /\ s.st = "uncertain" /\ Same(P_hold[h], s)
      /\ s.disp = P_hold[h].disp /\ s.asked = P_hold[h].asked
      /\ s.kill = P_hold[h].kill
  BY HoldTypes, StateSet DEF HoldSt
<1> HIDE DEF s
<1>3. /\ Others(h) /\ P_hold'[h] = s /\ P_th'[h] = "replied"
      /\ P_hold' \in [P_Hold -> P!HoldState] /\ P_th' \in [P_Hold -> P!SuspenderAt]
  BY <1>1, <1>2, HoldTypes, BecomesIs DEF P!SuspenderAt
<1>4. P_hold[h].st = "requesting" /\ P_hold[h].pid \in P_Pid
  BY <1>1, HoldTypes DEF Good
<1>5. Good(s, "replied")
  BY <1>1, <1>2, <1>4, HoldTypes DEF Good, Same, Active, Working
<1>6. Onward(P_hold[h], s, P_th[h], "replied")
  BY <1>1, <1>2, <1>4 DEF Onward, Same, Active, Working
<1>7. Moves(h)
  BY <1>1, <1>2, <1>3, <1>4, <1>5, <1>6 DEF Moves, Active
<1> QED BY <1>1, <1>7, HoldTypes, TypesAre, ThreadMoves DEF P!questionVars

LEMMA RepliedKeeps ==
  ASSUME PolicyInv, NEW h \in P_Hold, NEW l \in P_LeaseId,
         P!Granted(h, l) \/ P!AlreadyHeld(h, l)
  PROVE  PolicyInv'
<1>1. PICK b \in BOOLEAN : P!Replied(h, l, b)
  BY DEF P!Granted, P!AlreadyHeld
<1> DEFINE s == Leased(P_hold[h], l, b)
<1>2. /\ Becomes(h, s, "replied") /\ UNCHANGED P_holds /\ P_th[h] = "sent"
      /\ UNCHANGED <<P!questionVars, P_link, P_handled, P_stop, P_late, P_dead>>
  BY <1>1 DEF P!Replied, P!Step, Becomes, Leased
<1>3. /\ s \in P!HoldState /\ s.st = "held" /\ s.lease = l /\ s.owned = b
      /\ s.pid = P_hold[h].pid /\ s.disp = P_hold[h].disp
      /\ s.asked = P_hold[h].asked /\ s.kill = P_hold[h].kill
  <2>1. P_hold[h] \in P!HoldState
    BY HoldTypes
  <2> QED BY <2>1, LeaseSet
<1> HIDE DEF s
<1>4. /\ Others(h) /\ P_hold'[h] = s /\ P_th'[h] = "replied"
      /\ P_hold' \in [P_Hold -> P!HoldState] /\ P_th' \in [P_Hold -> P!SuspenderAt]
  BY <1>2, <1>3, HoldTypes, BecomesIs DEF P!SuspenderAt
<1>5. P_hold[h].st = "requesting" /\ P_hold[h].pid \in P_Pid /\ P_hold[h].owned
  BY <1>2, HoldTypes DEF Good
<1>6. Good(s, "replied")
  BY <1>2, <1>3, <1>5, HoldTypes DEF Good, Active, Working
<1>7. Onward(P_hold[h], s, P_th[h], "replied")
  BY <1>2, <1>3, <1>5 DEF Onward, Active, Working
<1>8. Moves(h)
  BY <1>2, <1>3, <1>4, <1>5, <1>6, <1>7 DEF Moves, Active
<1>9. P_lease' \in [P_LeaseId -> P!Lease]
  <2>1. CASE P!Granted(h, l)
    BY <1>5, <2>1, HoldTypes, LeaseGranted DEF P!Granted
  <2>2. CASE P!AlreadyHeld(h, l)
    BY <2>2, HoldTypes, TypesAre DEF P!AlreadyHeld
  <2> QED BY <2>1, <2>2
<1> QED BY <1>2, <1>8, <1>9, HoldTypes, TypesAre, ThreadMoves DEF P!questionVars

LEMMA AfterReplyKeeps ==
  ASSUME PolicyInv, NEW h \in P_Hold, P!AfterReply(h)
  PROVE  PolicyInv'
<1> DEFINE s == IF P_hold[h].kill /\ P_hold[h].st = "held"
                THEN [P_hold[h] EXCEPT !.st = "terminating"] ELSE P_hold[h]
<1>0. P_hold \in [P_Hold -> P!HoldState] /\ P_th \in [P_Hold -> P!SuspenderAt]
  BY HoldTypes, TypesAre
<1>1. /\ Becomes(h, s, "done") /\ UNCHANGED P_holds /\ P_th[h] = "replied"
      /\ UNCHANGED <<P!questionVars, P_link, P_handled, P_stop, P!serviceVars>>
  BY <1>0 DEF P!AfterReply, P!Step, Becomes
<1>2. /\ s \in P!HoldState /\ Same(P_hold[h], s)
      /\ s.disp = P_hold[h].disp /\ s.asked = P_hold[h].asked
      /\ s.kill = P_hold[h].kill
      /\ s.st = IF P_hold[h].kill /\ P_hold[h].st = "held" THEN "terminating"
                ELSE P_hold[h].st
  <2>1. CASE P_hold[h].kill /\ P_hold[h].st = "held"
    <3> DEFINE x == [P_hold[h] EXCEPT !.st = "terminating"]
    <3>1. /\ x \in P!HoldState /\ x.st = "terminating" /\ Same(P_hold[h], x)
          /\ x.disp = P_hold[h].disp /\ x.asked = P_hold[h].asked
          /\ x.kill = P_hold[h].kill
      BY HoldTypes, StateSet DEF HoldSt
    <3>2. s = x
      BY <2>1
    <3> HIDE DEF s, x
    <3> QED BY <2>1, <3>1, <3>2
  <2>2. CASE ~(P_hold[h].kill /\ P_hold[h].st = "held")
    BY <2>2, HoldTypes DEF Same
  <2> QED BY <2>1, <2>2
<1>3. ~P_hold[h].asked \/ P_hold[h].kill \/ P_hold[h].st \notin {"held", "uncertain"}
  BY DEF P!AfterReply, P!UndoDue
<1> HIDE DEF s
<1>4. /\ Others(h) /\ P_hold'[h] = s /\ P_th'[h] = "done"
      /\ P_hold' \in [P_Hold -> P!HoldState] /\ P_th' \in [P_Hold -> P!SuspenderAt]
  BY <1>1, <1>2, HoldTypes, BecomesIs DEF P!SuspenderAt
<1>5. P_hold[h].st \notin {"requesting", "free"} /\ P_hold[h].pid \in P_Pid
  BY <1>1, HoldTypes DEF Good
<1>6. Good(s, "done")
  BY <1>1, <1>2, <1>3, <1>5, HoldTypes DEF Good, Same, Active, Working, Decided
<1>7. Onward(P_hold[h], s, P_th[h], "done")
  BY <1>1, <1>2, <1>5 DEF Onward, Same, Active, Working
<1>8. Moves(h)
  BY <1>1, <1>4, <1>5, <1>6, <1>7 DEF Moves
<1> QED BY <1>1, <1>8, HoldTypes, TypesAre, ThreadMoves
    DEF P!questionVars, P!serviceVars

\* A hold that is no longer in flight ends, whatever is said of it.
EndedAs(r, d) == [r EXCEPT !.st = "ended", !.disp = d]

LEMMA EndedIs ==
  ASSUME NEW r \in P!HoldState, NEW d \in Disp
  PROVE  LET s == EndedAs(r, d) IN
         /\ s \in P!HoldState /\ s.st = "ended" /\ s.disp = d /\ Same(r, s)
         /\ s.asked = r.asked /\ s.kill = r.kill
  BY DEF P!HoldState, Disp, Same, EndedAs

LEMMA EndedMoves ==
  ASSUME PolicyInv, NEW h \in P_Hold, P_hold[h].st \notin {"free", "requesting"},
         NEW d \in Disp \ {"none"}, NEW u \in {P_th[h], "done"},
         Becomes(h, EndedAs(P_hold[h], d), u),
         UNCHANGED P_holds \/ P_holds' = P!Cleared(h)
  PROVE  Moves(h) /\ P_hold'[h].disp # "none" /\ P_hold'[h].st = "ended"
<1> DEFINE s == EndedAs(P_hold[h], d)
<1>1. /\ s \in P!HoldState /\ s.st = "ended" /\ s.disp = d /\ Same(P_hold[h], s)
      /\ s.asked = P_hold[h].asked /\ s.kill = P_hold[h].kill
  BY HoldTypes, EndedIs
<1> HIDE DEF s
<1>2. u \in P!SuspenderAt
  BY HoldTypes DEF P!SuspenderAt
<1>3. /\ Others(h) /\ P_hold'[h] = s /\ P_th'[h] = u
      /\ P_hold' \in [P_Hold -> P!HoldState] /\ P_th' \in [P_Hold -> P!SuspenderAt]
  BY <1>1, <1>2, HoldTypes, BecomesIs DEF s
<1>4. Good(s, u)
  BY <1>1, HoldTypes DEF Good, Same, Active
<1>5. Onward(P_hold[h], s, P_th[h], u)
  BY <1>1, HoldTypes DEF Onward, Same, Active, Working
<1> QED BY <1>1, <1>3, <1>4, <1>5 DEF Moves, Active

\* A resume, once the hold's lock is had, leaves it decided.
LEMMA ResumeMoves ==
  ASSUME PolicyInv, NEW h \in P_Hold, P_hold[h].st \notin {"free", "requesting"},
         P!Resume(h), P_th' = [P_th EXCEPT ![h] = "done"]
  PROVE  /\ Moves(h) /\ P_hold'[h].disp # "none"
         /\ P_lease' \in [P_LeaseId -> P!Lease]
<1>1. P_lease' \in [P_LeaseId -> P!Lease]
  BY HoldTypes, TypesAre, LeasesEnd DEF P!Resume, P!ResumeSucceeds, P!ResumeFails
<1>2. CASE \E d \in {"resumed", "expired"} :
             /\ P_hold' = [P_hold EXCEPT ![h] = EndedAs(P_hold[h], d)]
             /\ P_holds' = P!Cleared(h)
  <2>1. PICK d \in {"resumed", "expired"} :
          /\ P_hold' = [P_hold EXCEPT ![h] = EndedAs(P_hold[h], d)]
          /\ P_holds' = P!Cleared(h)
    BY <1>2
  <2>2. d \in Disp \ {"none"} /\ Becomes(h, EndedAs(P_hold[h], d), "done")
    BY <2>1 DEF Disp, Becomes
  <2> QED BY <1>1, <2>1, <2>2, EndedMoves
<1>3. CASE /\ P_hold' = [P_hold EXCEPT ![h].disp = "failed"]
           /\ UNCHANGED P_holds
  <2> DEFINE s == [P_hold[h] EXCEPT !.disp = "failed"]
  <2>1. /\ s \in P!HoldState /\ s.st = P_hold[h].st /\ s.disp = "failed"
        /\ Same(P_hold[h], s)
        /\ s.asked = P_hold[h].asked /\ s.kill = P_hold[h].kill
    BY HoldTypes, DispSet DEF Disp
  <2>2. Becomes(h, s, "done")
    BY <1>3 DEF Becomes
  <2> HIDE DEF s
  <2>3. /\ Others(h) /\ P_hold'[h] = s /\ P_th'[h] = "done"
        /\ P_hold' \in [P_Hold -> P!HoldState]
        /\ P_th' \in [P_Hold -> P!SuspenderAt]
    BY <2>1, <2>2, HoldTypes, BecomesIs DEF P!SuspenderAt
  <2>4. Good(s, "done")
    BY <2>1, HoldTypes DEF Good, Same, Working, Decided
  <2>5. Onward(P_hold[h], s, P_th[h], "done")
    BY <2>1, HoldTypes DEF Onward, Same, Working
  <2> QED BY <1>1, <1>3, <2>1, <2>3, <2>4, <2>5 DEF Moves
<1> QED BY <1>2, <1>3 DEF P!Resume, P!ResumeSucceeds, P!ResumeFails, EndedAs

LEMMA ResumesKeeps ==
  ASSUME PolicyInv, NEW h \in P_Hold, P!ThreadResumes(h)
  PROVE  PolicyInv'
<1>1. /\ P_th[h] = "resuming" /\ P!Resume(h) /\ P_th' = [P_th EXCEPT ![h] = "done"]
      /\ UNCHANGED <<P!questionVars, P_link, P_handled, P_stop, P_late, P_dead>>
  BY DEF P!ThreadResumes, P!Step
<1>2. P_hold[h].st \notin {"free", "requesting"}
  BY <1>1, HoldTypes DEF Good
<1>3. Moves(h) /\ P_lease' \in [P_LeaseId -> P!Lease]
  BY <1>1, <1>2, ResumeMoves
<1> QED BY <1>1, <1>3, HoldTypes, TypesAre, ThreadMoves DEF P!questionVars

LEMMA UndoKeeps ==
  ASSUME PolicyInv, NEW h \in P_Hold, P!AfterReplyUndo(h)
  PROVE  PolicyInv'
<1>1. /\ P_th[h] = "replied" /\ P!UndoDue(h) /\ UNCHANGED P_holds
      /\ UNCHANGED <<P!questionVars, P_link, P_handled, P_stop, P!serviceVars>>
      /\ P_hold \in [P_Hold -> P!HoldState]
  BY HoldTypes, TypesAre DEF P!AfterReplyUndo
<1>2. P_hold[h].st \notin {"free", "requesting"} /\ P_hold[h].pid \in P_Pid
  BY <1>1, HoldTypes DEF Good
<1>3. Moves(h)
  <2>1. CASE P_hold[h].owned
    <3>1. Becomes(h, P_hold[h], "resuming")
      BY <1>1, <2>1 DEF P!AfterReplyUndo, P!Step, Becomes
    <3>2. /\ Others(h) /\ P_hold'[h] = P_hold[h] /\ P_th'[h] = "resuming"
          /\ P_hold' \in [P_Hold -> P!HoldState]
          /\ P_th' \in [P_Hold -> P!SuspenderAt]
      BY <3>1, HoldTypes, BecomesIs DEF P!SuspenderAt
    <3>3. Good(P_hold[h], "resuming")
      BY <1>1, <1>2, HoldTypes DEF Good, Working, P!UndoDue
    <3>4. Onward(P_hold[h], P_hold[h], P_th[h], "resuming")
      BY <1>1 DEF Onward, Working
    <3> QED BY <1>1, <1>2, <3>2, <3>3, <3>4 DEF Moves
  <2>2. CASE ~P_hold[h].owned
    <3>1. Becomes(h, EndedAs(P_hold[h], "left"), "done") /\ "left" \in Disp \ {"none"}
      BY <2>2 DEF P!AfterReplyUndo, P!Step, Becomes, EndedAs, Disp
    <3> QED BY <1>1, <1>2, <3>1, EndedMoves
  <2> QED BY <2>1, <2>2
<1> QED BY <1>1, <1>3, HoldTypes, TypesAre, ThreadMoves
    DEF P!questionVars, P!serviceVars

\* A stale hold is ended on the way to an answer.
LEMMA StaleKeeps ==
  ASSUME PolicyInv, NEW i \in P_Incident, P!FindStale(i)
  PROVE  PolicyInv'
<1> DEFINE h == P_holds[P_ask[i].pid]
           d == IF P_hold[h].disp = "none" THEN "expired" ELSE P_hold[h].disp
<1>1. /\ P_ask[i].pc = "looked" /\ h # P_NoHold /\ P!MayBeStale(h)
      /\ P_hold' = [P_hold EXCEPT ![h] = EndedAs(P_hold[h], d)]
      /\ P_holds' = P!Cleared(h) /\ (P!Leave(i) \/ P!Assess(i))
      /\ UNCHANGED <<P_q, P_closer, P_link, P_handled, P_th, P_stop, P!serviceVars>>
  BY DEF P!FindStale, P!EndStale, EndedAs
<1>2. P_ask[i].pid \in P_Pid
  BY <1>1 DEF PolicyInv, Asked
<1>3. h \in P_Hold
  BY <1>1, <1>2, TypesAre DEF PolicyInv
<1> HIDE DEF h
<1>4. P_hold[h].st \in {"held", "uncertain"}
  BY <1>1 DEF P!MayBeStale
<1>5. d \in Disp \ {"none"}
  BY <1>3, HoldTypes DEF Disp
<1> HIDE DEF d
<1>6. Becomes(h, EndedAs(P_hold[h], d), P_th[h])
  BY <1>1, HoldTypes, <1>3, TypesAre DEF Becomes
<1>7. Moves(h)
  BY <1>1, <1>3, <1>4, <1>5, <1>6, EndedMoves
<1>8. /\ GoodHolds' /\ Known' /\ HoldsOnward
      /\ P_holds' \in [P_Pid -> P_Hold \cup {P_NoHold}]
      /\ \A g \in P_Hold : P_hold[g].st = "free" => P_hold'[g].st \notin Active
  BY <1>3, <1>7, MovesKeeps
<1>9. P_ask' \in [P_Incident -> P!Asking] /\ Asked'
  BY <1>1, AskIs
<1>10. P!TypeOK'
  BY <1>1, <1>7, <1>8, <1>9, TypesAre DEF PolicyInv, P!TypeOK, Moves, P!serviceVars
<1>11. Linked'
  BY <1>1, <1>8, LinksStay DEF PolicyInv
<1>12. Questions'
  BY <1>1 DEF PolicyInv, Questions
<1>13. Closings'
  BY <1>1, <1>8, ClosingStays DEF PolicyInv, Closings
<1>14. Releasing'
  BY <1>1, <1>8, ReleaseStays DEF PolicyInv
<1> QED BY <1>8, <1>9, <1>10, <1>11, <1>12, <1>13, <1>14 DEF PolicyInv

\* A new hold is registered for a process that is under none.
LEMMA RegisterKeeps ==
  ASSUME PolicyInv, NEW i \in P_Incident, NEW h \in P_Hold, P!Register(i, h)
  PROVE  PolicyInv'
<1> DEFINE p == P_ask[i].pid
           s == P!NewHold(p)
<1>1. /\ P!MayFreeze(i) /\ ~P!ActiveOn(p) /\ P_hold[h].st = "free"
      /\ Becomes(h, s, "sent") /\ P_holds' = [P_holds EXCEPT ![p] = h]
      /\ P_link' = [P_link EXCEPT ![i] = h] /\ P!Leave(i)
      /\ P_handled' = P_handled \cup {<<i, p>>}
      /\ UNCHANGED <<P_q, P_closer, P_stop, P!serviceVars>>
  BY DEF P!Register, Becomes
<1>2. P_ask[i].pc # "idle" /\ p \in P_Pid /\ P_stop.pc = "idle"
  BY <1>1 DEF PolicyInv, Asked, P!MayFreeze, P!Running
<1> HIDE DEF p
<1>3. /\ s \in P!HoldState /\ s.st = "requesting" /\ s.pid = p /\ s.owned = TRUE
      /\ s.disp = "none" /\ s.asked = FALSE /\ s.kill = FALSE
  BY <1>2, NewHoldIs
<1> HIDE DEF s
<1>4. /\ Others(h) /\ P_hold'[h] = s /\ P_th'[h] = "sent"
      /\ P_hold' \in [P_Hold -> P!HoldState] /\ P_th' \in [P_Hold -> P!SuspenderAt]
  BY <1>1, <1>3, HoldTypes, BecomesIs DEF P!SuspenderAt
<1>5. Good(s, "sent")
  BY <1>2, <1>3 DEF Good
<1>6. GoodHolds'
  BY <1>4, <1>5 DEF PolicyInv, GoodHolds, Others
<1>7. HoldsOnward
  <2>1. Onward(P_hold[h], P_hold'[h], P_th[h], P_th'[h])
    BY <1>1 DEF Onward
  <2>2. \A r, t : Onward(r, r, t, t)
    BY DEF Onward
  <2> QED BY <1>4, <2>1, <2>2 DEF Others, HoldsOnward
<1>8. Known'
  <2>1. ASSUME NEW g \in P_Hold, P_hold'[g].st \in Active
        PROVE  P_holds'[P_hold'[g].pid] = g
    <3>1. P_holds \in [P_Pid -> P_Hold \cup {P_NoHold}]
      BY HoldTypes, TypesAre
    <3>2. CASE g = h
      BY <1>1, <1>2, <1>3, <1>4, <3>1, <3>2
    <3>3. CASE g # h
      <4>1. P_hold'[g] = P_hold[g]
        BY <1>4, <3>3 DEF Others
      <4>2. P_holds[P_hold[g].pid] = g /\ P_hold[g].pid \in P_Pid
        BY <2>1, <4>1 DEF PolicyInv, Known, GoodHolds, Good, Active
      <4>3. P_hold[g].pid # p
        BY <1>1, <2>1, <4>1, <4>2 DEF P!ActiveOn, P!Active, Active
      <4> QED BY <1>1, <3>1, <4>1, <4>2, <4>3
    <3> QED BY <3>2, <3>3
  <2> QED BY <2>1 DEF Known
<1>9. P_ask' \in [P_Incident -> P!Asking] /\ Asked'
  BY <1>1, <1>2, AskIs
<1>10. P!TypeOK'
  <2>1. /\ P_holds' \in [P_Pid -> P_Hold \cup {P_NoHold}]
        /\ P_link' \in [P_Incident -> P_Hold \cup {P_NoHold}]
        /\ P_handled' \in SUBSET (P_Incident \X P_Pid)
    BY <1>1, <1>2, HoldTypes, TypesAre
  <2> QED BY <1>1, <1>4, <1>9, <2>1, TypesAre DEF PolicyInv, P!TypeOK, P!serviceVars
<1>11. Linked'
  <2>1. P_link \in [P_Incident -> P_Hold \cup {P_NoHold}]
    BY HoldTypes, TypesAre
  <2>2. ASSUME NEW j \in P_Incident, P_link'[j] # P_NoHold
        PROVE  P_hold'[P_link'[j]].st # "free"
    <3>1. CASE j = i
      BY <1>1, <1>3, <1>4, <2>1, <3>1
    <3>2. CASE j # i
      <4>1. P_link'[j] = P_link[j] /\ P_link[j] \in P_Hold
        BY <1>1, <2>1, <2>2, <3>2
      <4>2. P_hold[P_link[j]].st # "free"
        BY <2>2, <4>1 DEF PolicyInv, Linked
      <4> QED BY <1>7, <4>1, <4>2 DEF HoldsOnward, Onward
    <3> QED BY <3>1, <3>2
  <2> QED BY <2>2 DEF Linked
<1>12. Questions'
  BY <1>1 DEF PolicyInv, Questions
<1>13. Closings'
  BY <1>1, <1>7, ClosingStays DEF PolicyInv, Closings
<1>14. Releasing'
  BY <1>1, <1>2, <1>7, ReleaseStays DEF PolicyInv
<1> QED BY <1>6, <1>8, <1>9, <1>10, <1>11, <1>12, <1>13, <1>14 DEF PolicyInv

-------------------------------------------------------------------------------
(* What the closes do.                                                     *)

\* A closing moves to another point, maybe popping its link, while the holds
\* move on.
LEMMA CloserMoves ==
  ASSUME PolicyInv, HoldsOnward, GoodHolds', Known', NEW i \in P_Incident,
         P_hold' \in [P_Hold -> P!HoldState], P_th' \in [P_Hold -> P!SuspenderAt],
         P_holds' \in [P_Pid -> P_Hold \cup {P_NoHold}],
         P_lease' \in [P_LeaseId -> P!Lease], P_dead' \in SUBSET P_Pid,
         UNCHANGED <<P_q, P_ask, P_handled, P_stop, P_late>>,
         P_link' \in {P_link, [P_link EXCEPT ![i] = P_NoHold]},
         \A g \in P_Hold : P_hold[g].st = "free" => P_hold'[g].st \notin Active,
         NEW c \in P!Closer, P_closer' = [P_closer EXCEPT ![i] = c],
         P_q[i].stage = "closing", c.pc # "idle",
         c.pc = "killing" => P_q[i].answer \in P_Pid,
         c.pc \in {"waiting", "resuming"} => c.hold # P_NoHold,
         c.hold \in P_Hold =>
           /\ P_hold'[c.hold].st # "free"
           /\ c.pc \in {"waiting", "resuming"} => P_hold'[c.hold].st # "requesting"
           /\ c.pc = "resuming" =>
                ~P_hold'[c.hold].kill /\ P_th'[c.hold] \notin Working
           /\ c.pc \in {"killing", "done"} /\ ~c.busy =>
                P_hold'[c.hold].disp # "none" \/ P_hold'[c.hold].st \notin Active
  PROVE  PolicyInv'
<1>0. /\ P_closer \in [P_Incident -> P!Closer]
      /\ P_link \in [P_Incident -> P_Hold \cup {P_NoHold}]
  BY TypesAre DEF PolicyInv
<1>1. /\ P_closer' \in [P_Incident -> P!Closer] /\ P_closer'[i] = c
      /\ \A j \in P_Incident : j # i => P_closer'[j] = P_closer[j]
      /\ P_link' \in [P_Incident -> P_Hold \cup {P_NoHold}]
      /\ \A j \in P_Incident : P_link'[j] = P_link[j] \/ P_link'[j] = P_NoHold
  BY <1>0
<1>2. P!TypeOK'
  BY <1>1, TypesAre DEF PolicyInv, P!TypeOK
<1>3. Linked'
  BY <1>1, LinksStay DEF PolicyInv
<1>4. Asked'
  BY DEF PolicyInv, Asked
<1>5. Questions'
  BY <1>1 DEF PolicyInv, Questions
<1>6. ASSUME NEW j \in P_Incident
      PROVE  /\ P_closer'[j].pc = "idle" => P_closer'[j].hold = P_NoHold
             /\ P_closer'[j].pc \in {"waiting", "resuming"} =>
                  P_closer'[j].hold # P_NoHold
             /\ \A h \in P_Hold : P_closer'[j].hold = h => Found(j, h)'
  <2>1. CASE j = i
    <3>1. ASSUME NEW h \in P_Hold, c.hold = h PROVE Found(i, h)'
      BY <1>1, <3>1 DEF Found
    <3> QED BY <1>1, <2>1, <3>1
  <2>2. CASE j # i
    BY <1>1, <2>2, ClosingStays DEF PolicyInv
  <2> QED BY <2>1, <2>2
<1>7. Closings'
  BY <1>6 DEF Closings
<1>8. Releasing'
  BY ReleaseStays DEF PolicyInv
<1> QED BY <1>2, <1>3, <1>4, <1>5, <1>7, <1>8 DEF PolicyInv

\* A closing that only looks.
LEMMA CloserLooks ==
  ASSUME PolicyInv, NEW i \in P_Incident, UNCHANGED <<P_hold, P_holds, P_th>>,
         P_lease' \in [P_LeaseId -> P!Lease], P_dead' \in SUBSET P_Pid,
         UNCHANGED <<P_q, P_ask, P_handled, P_stop, P_late>>,
         P_link' \in {P_link, [P_link EXCEPT ![i] = P_NoHold]},
         NEW c \in P!Closer, P_closer' = [P_closer EXCEPT ![i] = c],
         P_q[i].stage = "closing", c.pc # "idle",
         c.pc = "killing" => P_q[i].answer \in P_Pid,
         c.pc \in {"waiting", "resuming"} => c.hold # P_NoHold,
         c.hold \in P_Hold =>
           /\ P_hold[c.hold].st # "free"
           /\ c.pc \in {"waiting", "resuming"} => P_hold[c.hold].st # "requesting"
           /\ c.pc = "resuming" =>
                ~P_hold[c.hold].kill /\ P_th[c.hold] \notin Working
           /\ c.pc \in {"killing", "done"} /\ ~c.busy =>
                P_hold[c.hold].disp # "none" \/ P_hold[c.hold].st \notin Active
  PROVE  PolicyInv'
<1>1. GoodHolds' /\ Known' /\ HoldsOnward
      /\ \A g \in P_Hold : P_hold[g].st = "free" => P_hold'[g].st \notin Active
  BY NoneMoves DEF Active
<1>2. /\ P_hold' \in [P_Hold -> P!HoldState] /\ P_th' \in [P_Hold -> P!SuspenderAt]
      /\ P_holds' \in [P_Pid -> P_Hold \cup {P_NoHold}]
  BY TypesAre DEF PolicyInv
<1> QED BY <1>1, <1>2, CloserMoves

LEMMA CloserIs ==
  ASSUME PolicyInv, NEW i \in P_Incident
  PROVE  /\ P!TypeOK /\ P_closer[i] \in P!Closer
         /\ P_closer \in [P_Incident -> P!Closer]
         /\ P_link[i] \in P_Hold \cup {P_NoHold}
         /\ P_closer[i].pc # "idle" => P_q[i].stage = "closing"
         /\ P_closer[i].pc \in {"waiting", "resuming"} =>
              P_closer[i].hold \in P_Hold
         /\ P_closer[i].hold \in P_Hold \cup {P_NoHold}
         /\ P_NoHold \notin P_Hold
  BY TypesAre DEF PolicyInv, P!Closer, Questions, Closings

LEMMA CloseNothingKeeps ==
  ASSUME PolicyInv, NEW i \in P_Incident, P!CloseNothing(i)
  PROVE  PolicyInv'
<1> DEFINE c == [P_closer[i] EXCEPT !.pc = P!AfterClose(i)]
<1>1. /\ P_closer' = [P_closer EXCEPT ![i] = c]
      /\ P_closer[i].pc = "idle" /\ P_q[i].stage = "closing"
      /\ UNCHANGED <<P_q, P_ask, P!policyVars, P_th, P_stop, P!serviceVars>>
  BY DEF P!CloseNothing, P!Begins
<1>2. /\ P!AfterClose(i) \in CloserPc /\ P!AfterClose(i) \in {"done", "killing"}
      /\ P!AfterClose(i) = "killing" => P_q[i].answer \in P_Pid
  BY CloserIs, AfterCloseIs DEF CloserPc
<1>3. /\ c \in P!Closer /\ c.pc = P!AfterClose(i) /\ c.hold = P_closer[i].hold
  BY <1>2, CloserIs, CloserPcSet
<1>4. P_closer[i].hold = P_NoHold
  BY <1>1 DEF PolicyInv, Closings
<1> HIDE DEF c
<1> QED BY <1>1, <1>2, <1>3, <1>4, CloserIs, TypesAre, CloserLooks
        DEF P!policyVars, P!serviceVars

LEMMA CloseWaitsKeeps ==
  ASSUME PolicyInv, NEW i \in P_Incident, P!CloseWaits(i)
  PROVE  PolicyInv'
<1> DEFINE h == P_link[i]
           c == FoundAt(P_closer[i], "waiting", h)
<1>1. /\ P_closer' = [P_closer EXCEPT ![i] = c] /\ h # P_NoHold
      /\ P_q[i].stage = "closing" /\ P_hold[h].st # "requesting"
      /\ P_link' = [P_link EXCEPT ![i] = P_NoHold]
      /\ UNCHANGED <<P_q, P_ask, P_hold, P_holds, P_handled, P_th, P_stop,
                     P!serviceVars>>
  BY DEF P!CloseWaits, P!Begins, P!Pop, FoundAt
<1>2. h \in P_Hold /\ P_hold[h].st # "free"
  BY <1>1, CloserIs DEF PolicyInv, Linked
<1> HIDE DEF h
<1>3. /\ c \in P!Closer /\ c.pc = "waiting" /\ c.hold = h
  <2>1. P_closer[i] \in P!Closer /\ "waiting" \in CloserPc
    BY CloserIs DEF CloserPc
  <2> QED BY <1>2, <2>1, CloserHoldSet
<1> HIDE DEF c
<1> QED BY <1>1, <1>2, <1>3, CloserIs, TypesAre, CloserLooks DEF P!serviceVars

LEMMA CloseGivesUpKeeps ==
  ASSUME PolicyInv, NEW i \in P_Incident, P!CloseGivesUp(i)
  PROVE  PolicyInv'
<1> DEFINE c == [P_closer[i] EXCEPT !.pc = P!AfterClose(i), !.busy = TRUE]
<1>1. /\ P_closer' = [P_closer EXCEPT ![i] = c] /\ P_closer[i].pc = "waiting"
      /\ UNCHANGED <<P_q, P_ask, P!policyVars, P_th, P_stop, P!serviceVars>>
  BY DEF P!CloseGivesUp
<1>2. /\ P!AfterClose(i) \in CloserPc /\ P!AfterClose(i) \in {"done", "killing"}
      /\ P!AfterClose(i) = "killing" => P_q[i].answer \in P_Pid
  BY CloserIs, AfterCloseIs DEF CloserPc
<1>3. P_closer[i].hold \in P_Hold /\ P_hold[P_closer[i].hold].st # "free"
  BY <1>1, CloserIs DEF PolicyInv, Closings, Found
<1>4. /\ c \in P!Closer /\ c.pc = P!AfterClose(i) /\ c.hold = P_closer[i].hold
      /\ c.busy = TRUE
  BY <1>2, CloserIs, CloserBusySet
<1> HIDE DEF c
<1> QED BY <1>1, <1>2, <1>3, <1>4, CloserIs, TypesAre, CloserLooks
        DEF P!policyVars, P!serviceVars

LEMMA KillKeeps ==
  ASSUME PolicyInv, NEW i \in P_Incident, P!Kill(i)
  PROVE  PolicyInv'
<1> DEFINE c == [P_closer[i] EXCEPT !.pc = "done"]
<1>1. /\ P_closer' = [P_closer EXCEPT ![i] = c] /\ P_closer[i].pc = "killing"
      /\ UNCHANGED <<P_q, P_ask, P!policyVars, P_th, P_stop, P_late>>
  BY DEF P!Kill
<1>2. P_q[i].answer \in P_Pid
  BY <1>1 DEF PolicyInv, Questions
<1>3. P_lease' \in [P_LeaseId -> P!Lease] /\ P_dead' \in SUBSET P_Pid
  BY <1>2, CloserIs, TypesAre, LeasesEnd DEF P!Kill
<1>4. /\ c \in P!Closer /\ c.pc = "done" /\ c.hold = P_closer[i].hold
      /\ c.busy = P_closer[i].busy
  BY CloserIs, CloserPcSet DEF CloserPc
<1>5. P_closer[i].hold \in P_Hold => Found(i, P_closer[i].hold)
  BY DEF PolicyInv, Closings
<1> HIDE DEF c
<1> QED BY <1>1, <1>3, <1>4, <1>5, CloserIs, CloserLooks DEF P!policyVars, Found

\* A close that changes its hold and goes on.
LEMMA CloserChanges ==
  ASSUME PolicyInv, NEW i \in P_Incident, NEW h \in P_Hold, Moves(h),
         P_lease' \in [P_LeaseId -> P!Lease],
         UNCHANGED <<P_q, P_ask, P_handled, P_stop, P_late, P_dead>>,
         P_link' \in {P_link, [P_link EXCEPT ![i] = P_NoHold]},
         NEW c \in P!Closer, P_closer' = [P_closer EXCEPT ![i] = c],
         P_q[i].stage = "closing", c.pc \in {"killing", "done"}, c.hold = h,
         c.pc = "killing" => P_q[i].answer \in P_Pid,
         P_hold'[h].disp # "none" \/ P_hold'[h].st \notin Active
  PROVE  PolicyInv'
<1>1. /\ GoodHolds' /\ Known' /\ HoldsOnward
      /\ P_holds' \in [P_Pid -> P_Hold \cup {P_NoHold}]
      /\ \A g \in P_Hold : P_hold[g].st = "free" => P_hold'[g].st \notin Active
  BY MovesKeeps
<1>2. /\ P_hold' \in [P_Hold -> P!HoldState] /\ P_th' \in [P_Hold -> P!SuspenderAt]
      /\ P_hold'[h].st # "free" /\ P_dead' \in SUBSET P_Pid
  BY TypesAre DEF PolicyInv, Moves, Onward
<1> QED BY <1>1, <1>2, CloserMoves

LEMMA CloseDeferredKeeps ==
  ASSUME PolicyInv, NEW i \in P_Incident, P!CloseDeferred(i)
  PROVE  PolicyInv'
<1> DEFINE h == P_link[i]
           c == FoundAt(P_closer[i], P!AfterClose(i), h)
           d == IF P_hold[h].disp = "none" THEN "deferred" ELSE P_hold[h].disp
           s == [P_hold[h] EXCEPT !.asked = TRUE, !.disp = d]
<1>1. /\ P_closer' = [P_closer EXCEPT ![i] = c] /\ h # P_NoHold
      /\ P_q[i].stage = "closing" /\ P_hold[h].st = "requesting"
      /\ P_link' = [P_link EXCEPT ![i] = P_NoHold]
      /\ P_hold' = [P_hold EXCEPT ![h] = s]
      /\ UNCHANGED <<P_q, P_ask, P_holds, P_handled, P_th, P_stop, P!serviceVars>>
  BY DEF P!CloseDeferred, P!Begins, P!Pop, FoundAt
<1>2. h \in P_Hold
  BY <1>1, CloserIs
<1>3. /\ P!AfterClose(i) \in CloserPc /\ P!AfterClose(i) \in {"done", "killing"}
      /\ P!AfterClose(i) = "killing" => P_q[i].answer \in P_Pid
  BY CloserIs, AfterCloseIs DEF CloserPc
<1> HIDE DEF h
<1>4. /\ c \in P!Closer /\ c.pc = P!AfterClose(i) /\ c.hold = h
  <2>1. P_closer[i] \in P!Closer
    BY CloserIs
  <2> QED BY <1>2, <1>3, <2>1, CloserHoldSet
<1> HIDE DEF c
<1>5. d \in Disp /\ d # "none"
  BY <1>2, HoldTypes DEF Disp
<1> HIDE DEF d
<1>6. /\ s \in P!HoldState /\ s.asked = TRUE /\ s.disp = d /\ Same(P_hold[h], s)
      /\ s.st = P_hold[h].st /\ s.kill = P_hold[h].kill
  BY <1>2, <1>5, HoldTypes, AskedSet
<1> HIDE DEF s
<1>7. Becomes(h, s, P_th[h])
  BY <1>1, <1>2, HoldTypes, TypesAre DEF Becomes
<1>8. /\ Others(h) /\ P_hold'[h] = s /\ P_th'[h] = P_th[h]
      /\ P_hold' \in [P_Hold -> P!HoldState] /\ P_th' \in [P_Hold -> P!SuspenderAt]
  BY <1>2, <1>6, <1>7, HoldTypes, BecomesIs
<1>9. Good(s, P_th[h])
  BY <1>1, <1>2, <1>5, <1>6, HoldTypes DEF Good, Same, Active, Working
<1>10. Onward(P_hold[h], s, P_th[h], P_th[h])
  BY <1>1, <1>5, <1>6 DEF Onward, Same
<1>11. Moves(h)
  BY <1>1, <1>2, <1>8, <1>9, <1>10 DEF Moves
<1>12. P_lease' \in [P_LeaseId -> P!Lease] /\ P_hold'[h].disp # "none"
  BY <1>1, <1>5, <1>6, <1>8, CloserIs, TypesAre DEF P!serviceVars
<1> QED BY <1>1, <1>2, <1>3, <1>4, <1>11, <1>12, CloserChanges DEF P!serviceVars

LEMMA CloseKillKeeps ==
  ASSUME PolicyInv, NEW i \in P_Incident, P!CloseKill(i)
  PROVE  PolicyInv'
<1> DEFINE h == P_link[i]
           c == FoundAt(P_closer[i], "killing", h)
           over == \/ P_hold[h].st = "refused"
                   \/ P_hold[h].disp # "none" /\ P_hold[h].st # "requesting"
<1>1. /\ P_closer' = [P_closer EXCEPT ![i] = c] /\ h # P_NoHold
      /\ P_q[i].stage = "closing" /\ P_q[i].answer = P_hold[h].pid
      /\ P_link' = [P_link EXCEPT ![i] = P_NoHold]
      /\ UNCHANGED <<P_q, P_ask, P_holds, P_handled, P_th, P_stop, P!serviceVars>>
  BY DEF P!CloseKill, P!Begins, P!Pop, FoundAt
<1>2. /\ over => UNCHANGED P_hold
      /\ ~over /\ P_hold[h].st = "requesting" =>
           P_hold' = [P_hold EXCEPT ![h].kill = TRUE, ![h].disp = "terminate"]
      /\ ~over /\ P_hold[h].st # "requesting" =>
           P_hold' = [P_hold EXCEPT ![h].st = "terminating",
                                    ![h].disp = "terminate"]
  BY DEF P!CloseKill
<1>3. h \in P_Hold /\ P_hold[h].st # "free"
  BY <1>1, CloserIs DEF PolicyInv, Linked
<1>4. P_q[i].answer \in P_Pid
  BY <1>1, <1>3, HoldTypes DEF Good
<1> HIDE DEF h
<1>5. c \in P!Closer /\ c.pc = "killing" /\ c.hold = h
  <2>1. P_closer[i] \in P!Closer /\ "killing" \in CloserPc
    BY CloserIs DEF CloserPc
  <2>2. P_link[i] \in P_Hold
    BY <1>3 DEF h
  <2>3. FoundAt(P_closer[i], "killing", P_link[i]) \in P!Closer
    BY <2>1, <2>2, CloserHoldSet
  <2>4. FoundAt(P_closer[i], "killing", P_link[i]).pc = "killing"
    BY <2>1, <2>2, CloserHoldSet
  <2>5. FoundAt(P_closer[i], "killing", P_link[i]).hold = P_link[i]
    BY <2>1, <2>2, CloserHoldSet
  <2> QED BY <2>3, <2>4, <2>5 DEF c, h
<1> HIDE DEF c
<1>6. CASE over
  <2>1. UNCHANGED <<P_hold, P_holds, P_th>> /\ P_lease' \in [P_LeaseId -> P!Lease]
        /\ P_dead' \in SUBSET P_Pid
    BY <1>1, <1>2, <1>6, CloserIs, TypesAre DEF P!serviceVars
  <2>2. P_hold[h].disp # "none" \/ P_hold[h].st \notin Active
    BY <1>6 DEF Active
  <2> QED BY <1>1, <1>3, <1>4, <1>5, <2>1, <2>2, CloserLooks DEF P!serviceVars
<1>7. CASE ~over /\ P_hold[h].st = "requesting"
  <2> DEFINE s == [P_hold[h] EXCEPT !.kill = TRUE, !.disp = "terminate"]
  <2>1. P_hold' = [P_hold EXCEPT ![h] = s]
    BY <1>2, <1>7
  <2>2. /\ s \in P!HoldState /\ s.kill = TRUE /\ s.disp = "terminate"
        /\ Same(P_hold[h], s) /\ s.st = P_hold[h].st /\ s.asked = P_hold[h].asked
    BY <1>3, HoldTypes, KillSet DEF Disp
  <2> HIDE DEF s
  <2>3. Becomes(h, s, P_th[h])
    BY <1>1, <1>3, <2>1, HoldTypes, TypesAre DEF Becomes
  <2>4. /\ Others(h) /\ P_hold'[h] = s /\ P_th'[h] = P_th[h]
        /\ P_hold' \in [P_Hold -> P!HoldState]
        /\ P_th' \in [P_Hold -> P!SuspenderAt]
    BY <1>3, <2>2, <2>3, HoldTypes, BecomesIs
  <2>5. Good(s, P_th[h])
    BY <1>3, <1>7, <2>2, HoldTypes DEF Good, Same, Active, Working
  <2>6. Onward(P_hold[h], s, P_th[h], P_th[h])
    BY <1>7, <2>2 DEF Onward, Same
  <2>7. Moves(h) /\ P_hold'[h].disp # "none"
    BY <1>1, <1>3, <2>2, <2>4, <2>5, <2>6 DEF Moves
  <2> QED BY <1>1, <1>3, <1>4, <1>5, <2>7, CloserIs, TypesAre, CloserChanges
          DEF P!serviceVars
<1>8. CASE ~over /\ P_hold[h].st # "requesting"
  <2> DEFINE s == TurnedTo(P_hold[h], "terminating", "terminate")
  <2>1. P_hold' = [P_hold EXCEPT ![h] = s]
    BY <1>2, <1>8 DEF TurnedTo
  <2>2. /\ s \in P!HoldState /\ s.st = "terminating" /\ s.disp = "terminate"
        /\ Same(P_hold[h], s)
        /\ s.asked = P_hold[h].asked /\ s.kill = P_hold[h].kill
    <3>1. "terminating" \in HoldSt /\ "terminate" \in Disp
      BY DEF Disp, HoldSt
    <3> HIDE DEF over
    <3> QED BY <1>3, <3>1, HoldTypes, BothSet
  <2> HIDE DEF s
  <2>3. Becomes(h, s, P_th[h])
    BY <1>1, <1>3, <2>1, HoldTypes, TypesAre DEF Becomes
  <2>4. /\ Others(h) /\ P_hold'[h] = s /\ P_th'[h] = P_th[h]
        /\ P_hold' \in [P_Hold -> P!HoldState]
        /\ P_th' \in [P_Hold -> P!SuspenderAt]
    BY <1>3, <2>2, <2>3, HoldTypes, BecomesIs
  <2>5. Good(s, P_th[h])
    BY <1>3, <1>8, <2>2, HoldTypes DEF Good, Same, Active
  <2>6. Onward(P_hold[h], s, P_th[h], P_th[h])
    BY <1>8, <2>2 DEF Onward, Same, Active
  <2>7. Moves(h) /\ P_hold'[h].disp # "none"
    BY <1>1, <1>3, <2>2, <2>4, <2>5, <2>6 DEF Moves
  <2> QED BY <1>1, <1>3, <1>4, <1>5, <2>7, CloserIs, TypesAre, CloserChanges
          DEF P!serviceVars
<1> QED BY <1>6, <1>7, <1>8

\* A hold whose lock is free has no suspend thread at work.
LEMMA Unlocked ==
  ASSUME PolicyInv, NEW h \in P_Hold, ~P!Locked(h)
  PROVE  P_th[h] \notin Working
  BY DEF P!Locked, P!Suspending, Working

LEMMA CloseLockedKeeps ==
  ASSUME PolicyInv, NEW i \in P_Incident, P!CloseLocked(i)
  PROVE  PolicyInv'
<1> DEFINE h == P_closer[i].hold
           reported == P_hold[h].st = "refused" \/ P_hold[h].disp # "none"
<1>1. /\ P_closer[i].pc = "waiting" /\ ~P!Locked(h)
      /\ UNCHANGED <<P_q, P_ask, P_holds, P_link, P_handled, P_th, P_stop,
                     P!serviceVars>>
  BY DEF P!CloseLocked
<1>2. /\ ~reported /\ P_hold[h].owned =>
           /\ P_closer' = [P_closer EXCEPT ![i].pc = "resuming"]
           /\ UNCHANGED P_hold
      /\ ~(~reported /\ P_hold[h].owned) =>
           P_closer' = [P_closer EXCEPT ![i].pc = P!AfterClose(i)]
      /\ ~reported /\ ~P_hold[h].owned =>
           P_hold' = [P_hold EXCEPT ![h] = EndedAs(P_hold[h], "left")]
      /\ reported => UNCHANGED P_hold
  BY DEF P!CloseLocked, EndedAs
<1>3. /\ h \in P_Hold /\ P_hold[h].st \notin {"free", "requesting"}
      /\ P_q[i].stage = "closing" /\ P_closer[i] \in P!Closer
  BY <1>1, CloserIs DEF PolicyInv, Closings, Found
<1>4. /\ P!AfterClose(i) \in CloserPc /\ P!AfterClose(i) \in {"done", "killing"}
      /\ P!AfterClose(i) = "killing" => P_q[i].answer \in P_Pid
  BY CloserIs, AfterCloseIs DEF CloserPc
<1>5. P_th[h] \notin Working
  BY <1>1, <1>3, Unlocked
<1>6. P_lease' \in [P_LeaseId -> P!Lease] /\ P_dead' \in SUBSET P_Pid
  BY <1>1, CloserIs, TypesAre DEF P!serviceVars
<1>7. CASE ~reported /\ P_hold[h].owned
  <2> DEFINE c == [P_closer[i] EXCEPT !.pc = "resuming"]
  <2>1. P_closer' = [P_closer EXCEPT ![i] = c] /\ UNCHANGED P_hold
    BY <1>2, <1>7
  <2>2. c \in P!Closer /\ c.pc = "resuming" /\ c.hold = h
    BY <1>3, CloserPcSet DEF CloserPc
  <2>3. ~P_hold[h].kill
    BY <1>3, <1>7, HoldTypes DEF Good
  <2> HIDE DEF c, h
  <2> QED BY <1>1, <1>3, <1>5, <1>6, <2>1, <2>2, <2>3, CloserIs, CloserLooks
          DEF P!serviceVars
<1>8. CASE reported
  <2> DEFINE c == [P_closer[i] EXCEPT !.pc = P!AfterClose(i)]
  <2>1. P_closer' = [P_closer EXCEPT ![i] = c] /\ UNCHANGED P_hold
    BY <1>2, <1>8
  <2>2. c \in P!Closer /\ c.pc = P!AfterClose(i) /\ c.hold = h
    BY <1>3, <1>4, CloserPcSet
  <2>3. P_hold[h].disp # "none" \/ P_hold[h].st \notin Active
    BY <1>8 DEF Active
  <2> HIDE DEF c, h
  <2> QED BY <1>1, <1>3, <1>4, <1>6, <2>1, <2>2, <2>3, CloserIs, CloserLooks
          DEF P!serviceVars
<1>9. CASE ~reported /\ ~P_hold[h].owned
  <2> DEFINE c == [P_closer[i] EXCEPT !.pc = P!AfterClose(i)]
  <2>1. P_closer' = [P_closer EXCEPT ![i] = c]
        /\ P_hold' = [P_hold EXCEPT ![h] = EndedAs(P_hold[h], "left")]
    BY <1>2, <1>9
  <2>2. c \in P!Closer /\ c.pc = P!AfterClose(i) /\ c.hold = h
    BY <1>3, <1>4, CloserPcSet
  <2> HIDE DEF c, h
  <2>3. Becomes(h, EndedAs(P_hold[h], "left"), P_th[h])
        /\ "left" \in Disp \ {"none"}
    BY <1>1, <1>3, <2>1, HoldTypes, TypesAre DEF Becomes, Disp
  <2>4. Moves(h) /\ P_hold'[h].disp # "none"
    BY <1>1, <1>3, <2>3, EndedMoves
  <2> QED BY <1>1, <1>3, <1>4, <1>6, <2>1, <2>2, <2>4, CloserChanges
          DEF P!serviceVars
<1> QED BY <1>7, <1>8, <1>9

LEMMA CloseResumesKeeps ==
  ASSUME PolicyInv, NEW i \in P_Incident, P!CloseResumes(i)
  PROVE  PolicyInv'
<1> DEFINE h == P_closer[i].hold
           c == [P_closer[i] EXCEPT !.pc = P!AfterClose(i)]
<1>1. /\ P_closer' = [P_closer EXCEPT ![i] = c] /\ P_closer[i].pc = "resuming"
      /\ P!Resume(h)
      /\ UNCHANGED <<P_q, P_ask, P_link, P_handled, P_th, P_stop, P_late, P_dead>>
  BY DEF P!CloseResumes
<1>2. /\ h \in P_Hold /\ P_hold[h].st \notin {"free", "requesting"}
      /\ P_th[h] \notin Working /\ P_q[i].stage = "closing"
      /\ P_closer[i] \in P!Closer
  BY <1>1, CloserIs DEF PolicyInv, Closings, Found
<1>3. /\ P!AfterClose(i) \in CloserPc /\ P!AfterClose(i) \in {"done", "killing"}
      /\ P!AfterClose(i) = "killing" => P_q[i].answer \in P_Pid
  BY CloserIs, AfterCloseIs DEF CloserPc
<1>4. c \in P!Closer /\ c.pc = P!AfterClose(i) /\ c.hold = h
  BY <1>2, <1>3, CloserPcSet
<1> HIDE DEF c, h
<1>5. P_th[h] = "done"
  BY <1>2, HoldTypes DEF Good, Working, P!SuspenderAt
<1>6. P_th' = [P_th EXCEPT ![h] = "done"]
  BY <1>1, <1>2, <1>5, HoldTypes, TypesAre
<1>7. /\ Moves(h) /\ P_hold'[h].disp # "none"
      /\ P_lease' \in [P_LeaseId -> P!Lease]
  BY <1>1, <1>2, <1>6, ResumeMoves
<1> QED BY <1>1, <1>2, <1>3, <1>4, <1>7, CloserChanges

-------------------------------------------------------------------------------
(* The stop and its release.                                               *)

\* Only the stop moves.
LEMMA StopMoves ==
  ASSUME PolicyInv, P_stop' \in P!Stopping, Releasing',
         UNCHANGED <<P!questionVars, P!policyVars, P_th, P!serviceVars>>
  PROVE  PolicyInv'
<1>1. UNCHANGED <<P_q, P_ask, P_closer, P_hold, P_holds, P_link, P_handled, P_th,
                  P_lease, P_late, P_dead>>
  BY DEF P!questionVars, P!policyVars, P!serviceVars
<1>2. P!TypeOK'
  BY <1>1 DEF PolicyInv, P!TypeOK
<1>3. GoodHolds' /\ Known' /\ Linked' /\ Asked'
  BY <1>1 DEF PolicyInv, GoodHolds, Known, Linked, Asked
<1>4. Questions'
  BY <1>1 DEF PolicyInv, Questions
<1>5. ASSUME NEW i \in P_Incident, NEW h \in P_Hold, Found(i, h)
      PROVE  Found(i, h)'
  BY <1>1, <1>5 DEF Found
<1>6. Closings'
  BY <1>1, <1>5 DEF PolicyInv, Closings
<1> QED BY <1>2, <1>3, <1>4, <1>6 DEF PolicyInv

LEMMA StopIs ==
  ASSUME PolicyInv
  PROVE  /\ P_stop \in P!Stopping /\ P_stop.todo \subseteq P_Hold
         /\ P_stop.cur \in P_Hold \cup {P_NoHold} /\ P_NoHold \notin P_Hold
         /\ P_stop.pc \in {"idle", "paused", "releasing", "stopped"}
         /\ P_stop.pc # "releasing" => P_stop.todo = {} /\ P_stop.cur = P_NoHold
  BY TypesAre DEF PolicyInv, P!Stopping, Releasing

LEMMA PauseKeeps ==
  ASSUME PolicyInv, P!Pause
  PROVE  PolicyInv'
<1>1. /\ P_stop' \in P!Stopping /\ P_stop'.pc = "paused"
      /\ P_stop'.todo = P_stop.todo /\ P_stop'.cur = P_stop.cur
      /\ P_stop.pc = "idle"
  BY StopIs DEF P!Pause, P!Running, P!Stopping
<1>2. Releasing'
  BY <1>1, StopIs DEF Releasing
<1> QED BY <1>1, <1>2, StopMoves DEF P!Pause

LEMMA UnpauseKeeps ==
  ASSUME PolicyInv, P!Unpause
  PROVE  PolicyInv'
<1>1. /\ P_stop' \in P!Stopping /\ P_stop'.pc = "idle"
      /\ P_stop'.todo = P_stop.todo /\ P_stop'.cur = P_stop.cur
      /\ P_stop.pc = "stopped"
  BY StopIs DEF P!Unpause, P!Stopping
<1>2. Releasing'
  BY <1>1, StopIs DEF Releasing
<1> QED BY <1>1, <1>2, StopMoves DEF P!Unpause

\* Whatever may be frozen is outstanding: its PID has it.
LEMMA BeginReleaseKeeps ==
  ASSUME PolicyInv, P!BeginRelease
  PROVE  PolicyInv'
<1> DEFINE owed == P!Outstanding
<1>1. owed \subseteq P_Hold
  BY DEF P!Outstanding
<1>2. \A h \in P_Hold : P_hold[h].st \in Active => h \in owed
  BY DEF PolicyInv, Known, P!Outstanding, P!Releasable, Active
<1>3. /\ P_stop' = [P_stop EXCEPT !.pc = "releasing", !.todo = owed, !.failed = {}]
      /\ P_stop.pc \in {"paused", "stopped"} /\ UNCHANGED P_hold
  BY DEF P!BeginRelease, P!policyVars
<1> HIDE DEF owed
<1>4. /\ P_stop' \in P!Stopping /\ P_stop'.pc = "releasing"
      /\ P_stop'.todo = owed /\ P_stop'.cur = P_NoHold
  BY <1>1, <1>3, StopIs DEF P!Stopping
<1>5. Releasing'
  BY <1>2, <1>3, <1>4, StopIs DEF Releasing
<1> QED BY <1>4, <1>5, StopMoves DEF P!BeginRelease

LEMMA EndReleaseKeeps ==
  ASSUME PolicyInv, P!EndRelease
  PROVE  PolicyInv'
<1>1. /\ P_stop' \in P!Stopping /\ P_stop'.pc = "stopped"
      /\ P_stop'.todo = {} /\ P_stop'.cur = P_NoHold
      /\ P_stop'.failed = P_stop.failed
      /\ P_stop.todo = {} /\ P_stop.cur = P_NoHold /\ P_stop.pc = "releasing"
      /\ UNCHANGED <<P_hold, P_th>>
  BY StopIs DEF P!EndRelease, P!Stopping, P!policyVars
<1>2. Releasing'
  BY <1>1, StopIs DEF PolicyInv, Releasing
<1> QED BY <1>1, <1>2, StopMoves DEF P!EndRelease

LEMMA ReleaseSkipsKeeps ==
  ASSUME PolicyInv, NEW h \in P_Hold, P!ReleaseSkips(h)
  PROVE  PolicyInv'
<1>1. /\ P_stop' \in P!Stopping /\ P_stop'.pc = P_stop.pc
      /\ P_stop'.todo = P_stop.todo \ {h} /\ P_stop'.cur = P_stop.cur
      /\ P_stop'.failed = P_stop.failed \cup {h} /\ h \in P_stop.todo
      /\ UNCHANGED <<P_hold, P_th>>
  BY StopIs DEF P!ReleaseSkips, P!Stopping, P!policyVars
<1>2. Releasing'
  BY <1>1, StopIs DEF PolicyInv, Releasing
<1> QED BY <1>1, <1>2, StopMoves DEF P!ReleaseSkips

\* What release_all finds nothing to undo of is not frozen, or not ours.
LEMMA ReleaseTakesKeeps ==
  ASSUME PolicyInv, NEW h \in P_Hold, P!ReleaseTakes(h)
  PROVE  PolicyInv'
<1> DEFINE due == /\ P_hold[h].st \in P!Releasable /\ P_hold[h].owned
                  /\ P_hold[h].lease # P_NoLease \/ P_hold[h].st = "uncertain"
           taken == IF due THEN h ELSE P_NoHold
<1>1. /\ P_stop' = [P_stop EXCEPT !.todo = @ \ {h}, !.cur = taken]
      /\ h \in P_stop.todo /\ P_stop.cur = P_NoHold /\ ~P!Locked(h)
      /\ UNCHANGED <<P_hold, P_th>>
  BY DEF P!ReleaseTakes, P!policyVars
<1>2. P_th[h] \notin Working
  BY <1>1, Unlocked
<1>3. P_hold[h].st # "requesting"
  BY <1>2, HoldTypes DEF Good, Working
<1>4. P_hold[h].st = "held" => P_hold[h].lease # P_NoLease
  BY HoldTypes DEF Good
<1>5. P_hold[h].st \in Active => due \/ ~P_hold[h].owned
  BY <1>3, <1>4 DEF Active, P!Releasable
<1>6. due => P_hold[h].st \notin {"free", "requesting"}
  BY DEF P!Releasable
<1>7. taken \in {h, P_NoHold} /\ (taken = h <=> due)
  BY StopIs
<1> HIDE DEF taken, due
<1>8. /\ P_stop' \in P!Stopping /\ P_stop'.pc = P_stop.pc
      /\ P_stop'.todo = P_stop.todo \ {h} /\ P_stop'.cur = taken
      /\ P_stop'.failed = P_stop.failed /\ P_stop.pc = "releasing"
  BY <1>1, <1>7, StopIs DEF P!Stopping
<1>9. Releasing'
  <2>1. ASSUME NEW g \in P_Hold, P_stop'.cur = g
        PROVE  P_hold'[g].st \notin {"free", "requesting"} /\ P_th'[g] \notin Working
    <3>1. g = h /\ due
      BY <1>7, <1>8, <2>1, StopIs
    <3> QED BY <1>1, <1>2, <1>6, <3>1
  <2>2. ASSUME NEW g \in P_Hold, P_hold'[g].st \in Active
        PROVE  \/ g \in P_stop'.todo \/ P_stop'.cur = g \/ g \in P_stop'.failed
               \/ ~P_hold'[g].owned
    <3>1. CASE g = h
      BY <1>1, <1>5, <1>7, <1>8, <2>2, <3>1
    <3>2. CASE g # h
      <4>1. \/ g \in P_stop.todo \/ P_stop.cur = g \/ g \in P_stop.failed
            \/ ~P_hold[g].owned
        BY <1>1, <1>8, <2>2 DEF PolicyInv, Releasing
      <4> QED BY <1>1, <1>8, <3>2, <4>1, StopIs
    <3> QED BY <3>1, <3>2
  <2> QED BY <1>8, <2>1, <2>2 DEF Releasing
<1> QED BY <1>8, <1>9, StopMoves DEF P!ReleaseTakes

\* The release is through with the hold it had locked.
LEMMA ReleaseMoves ==
  ASSUME PolicyInv, P_stop.cur \in P_Hold, HoldsOnward, GoodHolds', Known',
         P_hold' \in [P_Hold -> P!HoldState],
         P_holds' \in [P_Pid -> P_Hold \cup {P_NoHold}],
         \A g \in P_Hold : P_hold[g].st = "free" => P_hold'[g].st \notin Active,
         P_lease' \in [P_LeaseId -> P!Lease],
         UNCHANGED <<P!questionVars, P_link, P_handled, P_th, P_late, P_dead>>,
         P_stop' \in P!Stopping, P_stop'.pc = P_stop.pc,
         P_stop'.todo = P_stop.todo, P_stop'.cur = P_NoHold,
         P_stop.failed \subseteq P_stop'.failed,
         P_stop.cur \in P_stop'.failed \/ P_hold'[P_stop.cur].st \notin Active
  PROVE  PolicyInv'
<1>1. P_stop.pc = "releasing"
  BY StopIs
<1>2. UNCHANGED <<P_q, P_ask, P_closer>>
  BY DEF P!questionVars
<1>3. P!TypeOK'
  BY <1>2 DEF PolicyInv, P!TypeOK
<1>4. Linked'
  BY LinksStay DEF PolicyInv
<1>5. Asked' /\ Questions'
  BY <1>2 DEF PolicyInv, Asked, Questions
<1>6. Closings'
  BY <1>2, ClosingStays DEF PolicyInv, Closings
<1>7. ASSUME NEW g \in P_Hold, P_hold'[g].st \in Active
      PROVE  \/ g \in P_stop'.todo \/ P_stop'.cur = g \/ g \in P_stop'.failed
             \/ ~P_hold'[g].owned
  <2>1. CASE g = P_stop.cur
    BY <1>7, <2>1
  <2>2. CASE g # P_stop.cur
    <3>1. /\ P_hold[g].st \in Active
          /\ P_hold'[g].owned => P_hold[g].owned
      BY <1>7 DEF HoldsOnward, Onward
    <3>2. g \in P_stop.todo \/ g \in P_stop.failed \/ ~P_hold[g].owned
      BY <1>1, <2>2, <3>1 DEF PolicyInv, Releasing
    <3> QED BY <3>1, <3>2
  <2> QED BY <2>1, <2>2
<1>8. Releasing'
  BY <1>1, <1>7, StopIs DEF Releasing
<1> QED BY <1>3, <1>4, <1>5, <1>6, <1>8 DEF PolicyInv

LEMMA ReleasedIs ==
  ASSUME PolicyInv, P_stop.cur # P_NoHold
  PROVE  /\ P_stop.cur \in P_Hold
         /\ P_hold[P_stop.cur].st \notin {"free", "requesting"}
  BY StopIs DEF PolicyInv, Releasing

LEMMA ReleaseSucceedsKeeps ==
  ASSUME PolicyInv, P!ReleaseSucceeds
  PROVE  PolicyInv'
<1> DEFINE h == P_stop.cur
           d == IF P_hold[h].disp \in {"none", "terminate"} THEN "resumed"
                ELSE P_hold[h].disp
<1>1. /\ h # P_NoHold /\ P!EndLeases(P!ResumeTarget(h))
      /\ P_hold' = [P_hold EXCEPT ![h] = EndedAs(P_hold[h], d)]
      /\ P_holds' = P!Cleared(h)
      /\ UNCHANGED <<P!questionVars, P_link, P_handled, P_th, P_late, P_dead>>
  BY DEF P!ReleaseSucceeds, EndedAs
<1>2. h \in P_Hold /\ P_hold[h].st \notin {"free", "requesting"}
  BY <1>1, ReleasedIs
<1>3. P_stop' = [P_stop EXCEPT !.cur = P_NoHold]
  BY DEF P!ReleaseSucceeds
<1>4. /\ P_stop' \in P!Stopping /\ P_stop'.pc = P_stop.pc
      /\ P_stop'.todo = P_stop.todo /\ P_stop'.cur = P_NoHold
      /\ P_stop'.failed = P_stop.failed
  BY <1>3, StopIs DEF P!Stopping
<1>5. d \in Disp \ {"none"}
  BY <1>2, HoldTypes DEF Disp
<1> HIDE DEF d
<1>6. Becomes(h, EndedAs(P_hold[h], d), P_th[h])
  BY <1>1, <1>2, HoldTypes, TypesAre DEF Becomes
<1>7. Moves(h) /\ P_hold'[h].st = "ended"
  BY <1>1, <1>2, <1>5, <1>6, EndedMoves
<1>8. /\ GoodHolds' /\ Known' /\ HoldsOnward
      /\ P_holds' \in [P_Pid -> P_Hold \cup {P_NoHold}]
      /\ \A g \in P_Hold : P_hold[g].st = "free" => P_hold'[g].st \notin Active
  BY <1>2, <1>7, MovesKeeps
<1>9. P_lease' \in [P_LeaseId -> P!Lease] /\ P_hold' \in [P_Hold -> P!HoldState]
  BY <1>1, <1>7, LeasesEnd DEF PolicyInv, Moves
<1> QED BY <1>1, <1>2, <1>4, <1>7, <1>8, <1>9, ReleaseMoves DEF Active

LEMMA ReleaseFailsKeeps ==
  ASSUME PolicyInv, P!ReleaseFails
  PROVE  PolicyInv'
<1> DEFINE h == P_stop.cur
           d == IF P_hold[h].disp = "none" THEN "expired" ELSE P_hold[h].disp
<1>1. /\ h # P_NoHold /\ (UNCHANGED P_lease \/ P!EndLeases(P!ResumeTarget(h)))
      /\ \/ /\ P_hold' = [P_hold EXCEPT ![h] = EndedAs(P_hold[h], d)]
            /\ P_holds' = P!Cleared(h)
         \/ UNCHANGED <<P_hold, P_holds>>
      /\ UNCHANGED <<P!questionVars, P_link, P_handled, P_th, P_late, P_dead>>
  BY DEF P!ReleaseFails, P!EndStale, EndedAs
<1>2. h \in P_Hold /\ P_hold[h].st \notin {"free", "requesting"}
  BY <1>1, ReleasedIs
<1>3. P_stop' = [P_stop EXCEPT !.cur = P_NoHold, !.failed = @ \cup {h}]
  BY DEF P!ReleaseFails
<1>4. /\ P_stop' \in P!Stopping /\ P_stop'.pc = P_stop.pc
      /\ P_stop'.todo = P_stop.todo /\ P_stop'.cur = P_NoHold
      /\ P_stop'.failed = P_stop.failed \cup {h}
  BY <1>2, <1>3, StopIs DEF P!Stopping
<1>5. P_lease' \in [P_LeaseId -> P!Lease]
  BY <1>1, LeasesEnd, TypesAre DEF PolicyInv
<1>6. /\ GoodHolds' /\ Known' /\ HoldsOnward
      /\ P_hold' \in [P_Hold -> P!HoldState]
      /\ P_holds' \in [P_Pid -> P_Hold \cup {P_NoHold}]
      /\ \A g \in P_Hold : P_hold[g].st = "free" => P_hold'[g].st \notin Active
  <2>1. CASE UNCHANGED <<P_hold, P_holds>>
    <3>1. GoodHolds' /\ Known' /\ HoldsOnward
      BY <1>1, <2>1, NoneMoves
    <3> QED BY <2>1, <3>1, TypesAre DEF PolicyInv, Active
  <2>2. CASE /\ P_hold' = [P_hold EXCEPT ![h] = EndedAs(P_hold[h], d)]
             /\ P_holds' = P!Cleared(h)
    <3>1. d \in Disp \ {"none"}
      BY <1>2, HoldTypes DEF Disp
    <3> HIDE DEF d
    <3>2. Becomes(h, EndedAs(P_hold[h], d), P_th[h])
      BY <1>1, <1>2, <2>2, HoldTypes, TypesAre DEF Becomes
    <3>3. Moves(h)
      BY <1>2, <2>2, <3>1, <3>2, EndedMoves
    <3> QED BY <1>2, <3>3, MovesKeeps DEF Moves
  <2> QED BY <1>1, <2>1, <2>2
<1> QED BY <1>1, <1>2, <1>4, <1>5, <1>6, ReleaseMoves

-------------------------------------------------------------------------------
(* The theorem.                                                            *)

LEMMA PolicyInit == P!Init => PolicyInv
<1> SUFFICES ASSUME P!Init PROVE PolicyInv
  OBVIOUS
<1> DEFINE r == P!NewHold(P_NoPid)
           s == [r EXCEPT !.st = "free"]
<1>1. /\ r \in P!HoldState /\ r.disp = "none" /\ r.asked = FALSE /\ r.kill = FALSE
  BY DEF P!NewHold, P!HoldState
<1>2. P_hold = [h \in P_Hold |-> s]
  BY DEF P!Init
<1> HIDE DEF r
<1>3. /\ s \in P!HoldState /\ s.st = "free" /\ s.disp = "none"
      /\ s.asked = FALSE /\ s.kill = FALSE
  BY <1>1, StateSet DEF HoldSt
<1> HIDE DEF s
<1>4. /\ [stage |-> "new", writers |-> {}, answer |-> P_NoPid] \in P!Question
      /\ P!NotAsking \in P!Asking /\ P!NotAsking.pc = "idle"
      /\ [pc |-> "idle", hold |-> P_NoHold, busy |-> FALSE] \in P!Closer
      /\ [st |-> "free", pid |-> P_NoPid] \in P!Lease
      /\ [pc |-> "idle", todo |-> {}, cur |-> P_NoHold, failed |-> {}] \in P!Stopping
  BY DEF P!Question, P!Asking, P!NotAsking, P!Closer, P!Lease, P!Stopping
<1>5. P_q \in [P_Incident -> P!Question] /\ P_ask \in [P_Incident -> P!Asking]
  BY <1>4 DEF P!Init
<1>6. /\ P_closer \in [P_Incident -> P!Closer] /\ P_stop \in P!Stopping
      /\ P_lease \in [P_LeaseId -> P!Lease]
  BY <1>4 DEF P!Init
<1>7. /\ P_hold \in [P_Hold -> P!HoldState]
      /\ P_holds \in [P_Pid -> P_Hold \cup {P_NoHold}]
      /\ P_link \in [P_Incident -> P_Hold \cup {P_NoHold}]
      /\ P_th \in [P_Hold -> P!SuspenderAt]
  BY <1>2, <1>3 DEF P!Init, P!SuspenderAt
<1>8. /\ P_handled \in SUBSET (P_Incident \X P_Pid)
      /\ P_late \in SUBSET P_Hold /\ P_dead \in SUBSET P_Pid
  BY DEF P!Init
<1>9. P!TypeOK
  BY <1>5, <1>6, <1>7, <1>8 DEF P!TypeOK
<1>10. GoodHolds /\ Known
  <2>1. \A h \in P_Hold : P_hold[h] = s /\ P_th[h] = "idle"
    BY <1>2 DEF P!Init
  <2> QED BY <1>3, <2>1 DEF GoodHolds, Good, Known, Active
<1>11. Linked /\ Asked
  BY <1>4 DEF P!Init, Linked, Asked
<1>12. Closings /\ Questions
  BY DEF P!Init, Closings, Questions
<1>13. Releasing
  BY DEF P!Init, Releasing
<1> QED BY <1>9, <1>10, <1>11, <1>12, <1>13 DEF PolicyInv

LEMMA PolicyStep == ASSUME PolicyInv, P!Next PROVE PolicyInv'
<1>1. ASSUME NEW i \in P_Incident, P!QuestionNext(i) PROVE PolicyInv'
  BY <1>1, RecordsKeep, AnswersKeep, StaleKeeps, RegisterKeeps, CloseNothingKeeps,
     CloseKillKeeps, CloseDeferredKeeps, CloseWaitsKeeps, CloseGivesUpKeeps,
     CloseLockedKeeps, CloseResumesKeeps, KillKeeps
  DEF P!QuestionNext
<1>2. ASSUME NEW h \in P_Hold, P!HoldNext(h) PROVE PolicyInv'
  BY <1>2, FailedKeeps, TimesOutKeeps, RepliedKeeps, ServiceKeeps, AfterReplyKeeps,
     UndoKeeps, ResumesKeeps, ReleaseSkipsKeeps, ReleaseTakesKeeps
  DEF P!HoldNext
<1>3. CASE P!ServiceNext
  BY <1>3, ServiceKeeps DEF P!ServiceNext
<1>4. CASE P!StopNext
  BY <1>4, PauseKeeps, BeginReleaseKeeps, EndReleaseKeeps, UnpauseKeeps,
     ReleaseSucceedsKeeps, ReleaseFailsKeeps
  DEF P!StopNext
<1> QED BY <1>1, <1>2, <1>3, <1>4 DEF P!Next

LEMMA PolicyHides ==
  ASSUME PolicyInv
  PROVE  P!ActiveIsKnown /\ P!KillNotUndone /\ P!ClosedIsDecided /\ P!StoppedIsReleased
<1>1. P!ActiveIsKnown
  BY DEF PolicyInv, Known, P!ActiveIsKnown, P!Active, Active
<1>2. P!KillNotUndone
  BY DEF PolicyInv, GoodHolds, Good, Closings, Found, P!KillNotUndone
<1>3. P!ClosedIsDecided
  <2>1. ASSUME NEW i \in P_Incident, P_closer[i].pc = "done",
               P_closer[i].hold # P_NoHold, ~P_closer[i].busy,
               ~P!Suspending(P_closer[i].hold)
        PROVE  Decided(P_hold[P_closer[i].hold])
    <3> DEFINE h == P_closer[i].hold
    <3>1. h \in P_Hold
      BY <2>1, CloserIs
    <3>2. P_hold[h].disp # "none" \/ P_hold[h].st \notin Active
      BY <2>1, <3>1 DEF PolicyInv, Closings, Found
    <3>3. P_th[h] \notin Working
      BY <2>1 DEF P!Suspending, Working
    <3> HIDE DEF h
    <3>4. Decided(P_hold[h])
      BY <3>1, <3>2, <3>3, HoldTypes DEF Good, Decided
    <3> QED BY <3>4 DEF h
  <2> QED BY <2>1 DEF P!ClosedIsDecided, Decided, P!Active, Active
<1>4. P!StoppedIsReleased
  BY StopIs DEF PolicyInv, Releasing, P!StoppedIsReleased, P!Active, Active
<1> QED BY <1>1, <1>2, <1>3, <1>4

PolicyPart == part = "policy" => PolicyInv

LEMMA FreezePolicy == FreezeSpec => []PolicyPart
<1>1. FreezeInit => PolicyPart
  BY PolicyInit DEF FreezeInit, PolicyPart
<1>2. PolicyPart /\ [FreezeNext]_FreezeVars => PolicyPart'
  <2> SUFFICES ASSUME PolicyPart, [FreezeNext]_FreezeVars, part' = "policy"
               PROVE  PolicyInv'
    BY DEF PolicyPart
  <2>1. part = "policy" /\ PolicyInv
    BY DEF PolicyPart, FreezeNext, FreezeVars
  <2>2. CASE P!Next
    BY <2>1, <2>2, PolicyStep
  <2>3. CASE UNCHANGED P_vars
    <3>1. P_stop' \in P!Stopping
      BY <2>1, <2>3, StopIs DEF P_vars
    <3>2. UNCHANGED <<P!questionVars, P!policyVars, P_th, P!serviceVars, P_stop>>
      BY <2>3 DEF P_vars, P!questionVars, P!policyVars, P!serviceVars
    <3>3. Releasing'
      BY <2>1, <3>2 DEF PolicyInv, Releasing, P!policyVars
    <3> QED BY <2>1, <3>1, <3>2, <3>3, StopMoves
  <2> QED BY <2>1, <2>2, <2>3 DEF FreezeNext, FreezeVars
<1> QED BY <1>1, <1>2, PTL DEF FreezeSpec

\* However lanes, re-asks, suspend threads, closes, kills and a stop or shutdown
\* interleave, and whatever the Response service answers or leaves unanswered:
\* a hold that may be frozen is the one _holds names for its PID, a kill decided
\* in flight is not undone, a close leaves its hold decided, and release_all
\* releases what is ours or counts it as failed (SuspendPolicy).
THEOREM HoldsAreNotLost == FreezeSpec => []NoHoldIsLost
<1>1. PolicyPart => NoHoldIsLost
  BY PolicyHides DEF PolicyPart, NoHoldIsLost
<1> QED BY <1>1, FreezePolicy, PTL
===============================================================================
