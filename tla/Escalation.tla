----------------------------- MODULE Escalation -----------------------------
(***************************************************************************)
(* From a detection and its closed question to their ledger blocks: the    *)
(* threads of services/monitor/app.py behind the correlation lanes.        *)
(*                                                                         *)
(* The pipeline worker (_drain) runs detections and hands their last       *)
(* blocks to the tail thread.  A closed question goes to the escalator:    *)
(* its intake routes a question that kills to the lane of its PID, where a *)
(* kill worker takes the action, and the writer writes every block - or,   *)
(* when the incident's own blocks are not in the chain yet, queues it      *)
(* behind them on _work.                                                   *)
(*                                                                         *)
(* A question closes once here (Incidents has the exception).  A block is  *)
(* "own" (the incident's) or "escalation"; whether the ledger accepted it  *)
(* is left out, the attempt is what is ordered.                            *)
(***************************************************************************)
EXTENDS Naturals, Sequences, FiniteSets, SequencesExt

CONSTANTS
  Pid, NoPid,   \* processes; NoPid: the answer authorises no kill
  Worker,       \* the kill workers
  MaxQuestion,  \* bound: incidents; each opens one question
  MaxTail,      \* MAX_TAIL_ITEMS
  MaxOwed,      \* MAX_OWED_BLOCKS
  MaxAnchor,    \* MAX_ANCHORS
  Stops         \* may the escalator be sent its sentinel?

\* What the constants must satisfy; MCMonitor assumes it.
EscalationAssumption ==
  /\ NoPid \notin Pid /\ Worker # {} /\ MaxQuestion \in Nat
  /\ MaxTail \in Nat \ {0} /\ MaxOwed \in Nat \ {0} /\ MaxAnchor \in Nat \ {0}

VARIABLES
  deferring,  \* DEFER_TAIL_BLOCKS; never changes
  stage,      \* how far each incident's lane thread is
  pid,        \* the process each closing answer has killed, or NoPid
  anchors,    \* _ANCHORS: open questions, oldest first
  marked,     \* the anchors whose in_chain is set
  work,       \* _work
  workLeft,   \* _work's count of unfinished tasks
  drain,      \* _drain: what it does, with which item
  tail,       \* _tail
  tailer,     \* _run_tail: what it does, with which item
  inbox,      \* _escalations
  intake,     \* the escalator's own thread
  lanes, ready, busy, lanesClosed,  \* _KillLanes
  worker,     \* the kill workers
  owed,       \* _Escalator.owed
  writer,     \* the writer thread
  chain,      \* history: blocks, in the order they were written
  settled,    \* history: task_done calls per question
  failed,     \* history: questions whose action or block raised
  acted,      \* history: questions in the order their kill was asked for
  closings,   \* history: questions in the order they closed
  evicted     \* history: questions dropped from _ANCHORS while open

incidentVars == <<deferring, stage, pid, closings>>
anchorVars == <<anchors, marked, evicted>>
tailVars == <<drain, tail, tailer>>
laneVars == <<lanes, ready, busy, lanesClosed>>
askVars == <<worker, acted>>
doneVars == <<settled, failed>>
vars == <<incidentVars, anchorVars, work, workLeft, tailVars, inbox, intake,
          laneVars, askVars, owed, writer, chain, doneVars>>

-------------------------------------------------------------------------------
Q == 1 .. MaxQuestion
Sentinel == 0
Item == [kind : {"detection", "blocks", "own", "escalation", "escalate", "record", "stop"},
         q : 0 .. MaxQuestion]
Thing(kind, q) == [kind |-> kind, q |-> q]
Nothing == Thing("stop", Sentinel)
Idle == [st |-> "idle", item |-> Nothing]
Up == [st |-> "up", item |-> Nothing]
Gone == [st |-> "gone", item |-> Nothing]
Doer(sts) == [st : sts, item : Item]

TypeOK ==
  /\ deferring \in BOOLEAN
  /\ stage \in [Q -> {"none", "queued", "open", "closed"}]
  /\ pid \in [Q -> Pid \cup {NoPid}]
  /\ anchors \in Seq(Q) /\ Len(anchors) <= MaxAnchor
  /\ marked \subseteq ToSet(anchors) /\ evicted \subseteq Q
  /\ work \in Seq(Item) /\ workLeft \in Nat
  /\ drain \in Doer({"idle", "run", "hand", "record"})
  /\ tail \in Seq(Item) /\ Len(tail) <= MaxTail
  /\ tailer \in Doer({"idle", "write", "settle"})
  /\ inbox \in Seq(Q \cup {Sentinel})
  /\ intake \in {"up", "draining", "joining", "last", "gone"}
  /\ lanes \in [Pid -> Seq(Q)] /\ ready \in Seq(Pid)
  /\ busy \subseteq Pid /\ lanesClosed \in BOOLEAN
  /\ worker \in [Worker -> Doer({"up", "act", "hand", "gone"})]
  /\ owed \in Seq(Item) /\ Len(owed) <= MaxOwed
  /\ writer \in Doer({"up", "write", "queue", "gone"})
  /\ chain \in Seq(Item)
  /\ settled \in [Q -> Nat] /\ failed \subseteq Q
  /\ acted \in Seq(Q) /\ closings \in Seq(Q)

Init ==
  /\ deferring \in BOOLEAN
  /\ stage = [q \in Q |-> "none"] /\ pid = [q \in Q |-> NoPid]
  /\ anchors = <<>> /\ marked = {} /\ evicted = {}
  /\ work = <<>> /\ workLeft = 0 /\ drain = Idle
  /\ tail = <<>> /\ tailer = Idle
  /\ inbox = <<>> /\ intake = "up"
  /\ lanes = [p \in Pid |-> <<>>] /\ ready = <<>> /\ busy = {}
  /\ lanesClosed = FALSE
  /\ worker = [w \in Worker |-> Up]
  /\ owed = <<>> /\ writer = Up
  /\ chain = <<>> /\ settled = [q \in Q |-> 0] /\ failed = {}
  /\ acted = <<>> /\ closings = <<>>

-------------------------------------------------------------------------------
(* The lane thread and the closing of the question.                        *)

PutWork(kind, q) ==
  /\ work' = Append(work, Thing(kind, q))
  /\ workLeft' = workLeft + 1

\* _correlate queues the detection; questions are numbered in that order ...
Detect(q) ==
  /\ stage[q] = "none" /\ \A r \in 1 .. q - 1 : stage[r] # "none"
  /\ stage' = [stage EXCEPT ![q] = "queued"]
  /\ PutWork("detection", q)
  /\ UNCHANGED <<deferring, pid, closings, anchorVars, tailVars, inbox, intake,
                 laneVars, askVars, owed, writer, chain, doneVars>>

\* ... before _open_question anchors it.
Open(q) ==
  LET all == Append(anchors, q)
      over == Len(all) > MaxAnchor
  IN
  /\ stage[q] = "queued"
  /\ stage' = [stage EXCEPT ![q] = "open"]
  /\ anchors' = IF over THEN Tail(all) ELSE all
  /\ marked' = IF over THEN marked \ {Head(all)} ELSE marked
  /\ evicted' = IF over THEN evicted \cup {Head(all)} ELSE evicted
  /\ UNCHANGED <<deferring, pid, closings, work, workLeft, tailVars, inbox, intake,
                 laneVars, askVars, owed, writer, chain, doneVars>>

\* _on_question_closed: a fresh escalator if the last one is gone, and the
\* question on its inbox.
Close(q, p) ==
  /\ stage[q] = "open"
  /\ stage' = [stage EXCEPT ![q] = "closed"]
  /\ pid' = [pid EXCEPT ![q] = p]
  /\ closings' = Append(closings, q)
  /\ inbox' = Append(inbox, q)
  /\ \/ /\ intake # "gone"
        /\ UNCHANGED <<intake, worker, writer, laneVars, owed>>
     \/ /\ intake = "gone"
        /\ intake' = "up" /\ writer' = Up /\ owed' = <<>>
        /\ worker' = [w \in Worker |-> Up]
        /\ lanes' = [x \in Pid |-> <<>>] /\ ready' = <<>> /\ busy' = {}
        /\ lanesClosed' = FALSE
  /\ UNCHANGED <<deferring, anchorVars, work, workLeft, tailVars, acted, chain,
                 doneVars>>

\* Whoever stops the escalator puts None on the inbox, once.
StopAsked ==
  /\ Stops /\ intake = "up" /\ Sentinel \notin ToSet(inbox)
  /\ inbox' = Append(inbox, Sentinel)
  /\ UNCHANGED <<incidentVars, anchorVars, work, workLeft, tailVars, intake,
                 laneVars, askVars, owed, writer, chain, doneVars>>

-------------------------------------------------------------------------------
(* The anchors, and what is written.                                       *)

Mark(q) == marked' = IF q \in ToSet(anchors) THEN marked \cup {q} ELSE marked
\* Not the code: a question nobody has marked is taken to be in the chain.
InChainAlways(q) == TRUE
InChain(q) == q \notin ToSet(anchors) \/ q \in marked

\* _forget_question: pop, if it is there.
Forget(q) ==
  /\ \/ q \notin ToSet(anchors) /\ UNCHANGED anchors
     \/ \E n \in DOMAIN anchors :
          anchors[n] = q /\ anchors' = RemoveAt(anchors, n)
  /\ marked' = marked \ {q}

Write(kind, q) == chain' = Append(chain, Thing(kind, q))

\* _run_escalation_record: the block, then the anchor is forgotten; a block
\* that raised is logged.
WriteEscalation(q) ==
  /\ \/ Write("escalation", q) /\ UNCHANGED failed
     \/ failed' = failed \cup {q} /\ UNCHANGED chain
  /\ Forget(q)

-------------------------------------------------------------------------------
(* _drain.                                                                 *)

DrainTakes ==
  LET item == Head(work) IN
  /\ drain = Idle /\ work # <<>>
  /\ work' = Tail(work)
  /\ drain' = [item |-> item,
               st |-> IF item.kind = "detection" THEN "run"
                      ELSE IF deferring THEN "hand" ELSE "record"]
  /\ UNCHANGED <<incidentVars, anchorVars, workLeft, tail, tailer, inbox, intake,
                 laneVars, askVars, owed, writer, chain, doneVars>>

\* Not the code: a detection is marked also when its last block is deferred.
MarksAtOnce(q, handed) == Mark(q)
MarksOnlyWhenWritten(q, handed) == IF handed THEN UNCHANGED marked ELSE Mark(q)

\* _run_detection: the pipeline writes the first blocks, and either defers
\* the rest or is done; a pipeline that raised counts as done.
DrainRuns ==
  LET q == drain.item.q IN
  /\ drain.st = "run"
  /\ Write("own", q)
  /\ \/ /\ deferring
        /\ drain' = [st |-> "hand", item |-> Thing("blocks", q)]
        /\ MarksOnlyWhenWritten(q, TRUE)
        /\ UNCHANGED workLeft
     \/ /\ drain' = Idle
        /\ MarksOnlyWhenWritten(q, FALSE)
        /\ workLeft' = workLeft - 1
  /\ UNCHANGED <<incidentVars, anchors, evicted, work, tail, tailer, inbox, intake,
                 laneVars, askVars, owed, writer, doneVars>>

\* Not the code: the worker settles what it has only handed over.
SettledByDrain == workLeft' = workLeft - 1
LeftToTheTail == workLeft' = workLeft

\* _hand_to_tail, which waits while the tail is full.
DrainHands ==
  /\ drain.st = "hand" /\ Len(tail) < MaxTail
  /\ tail' = Append(tail, drain.item)
  /\ drain' = Idle
  /\ LeftToTheTail
  /\ UNCHANGED <<incidentVars, anchorVars, work, tailer, inbox, intake, laneVars,
                 askVars, owed, writer, chain, doneVars>>

DrainRecords ==
  /\ drain.st = "record"
  /\ WriteEscalation(drain.item.q)
  /\ drain' = Idle
  /\ workLeft' = workLeft - 1
  /\ UNCHANGED <<incidentVars, evicted, work, tail, tailer, inbox, intake, laneVars,
                 askVars, owed, writer, settled>>

-------------------------------------------------------------------------------
(* _run_tail.                                                              *)

TailTakes ==
  /\ tailer = Idle /\ tail # <<>>
  /\ tailer' = [st |-> "write", item |-> Head(tail)]
  /\ tail' = Tail(tail)
  /\ UNCHANGED <<incidentVars, anchorVars, work, workLeft, drain, inbox, intake,
                 laneVars, askVars, owed, writer, chain, doneVars>>

TailWrites ==
  LET item == tailer.item IN
  /\ tailer.st = "write"
  /\ tailer' = [tailer EXCEPT !.st = "settle"]
  /\ \/ /\ item.kind = "blocks"
        /\ Write("own", item.q)
        /\ UNCHANGED <<anchors, marked, failed>>
     \/ item.kind = "escalation" /\ WriteEscalation(item.q)
  /\ UNCHANGED <<incidentVars, evicted, work, workLeft, drain, tail, inbox, intake,
                 laneVars, askVars, owed, writer, settled>>

TailSettles ==
  /\ tailer.st = "settle"
  /\ tailer' = Idle
  /\ IF tailer.item.kind = "blocks" THEN Mark(tailer.item.q) ELSE UNCHANGED marked
  /\ workLeft' = workLeft - 1
  /\ UNCHANGED <<incidentVars, anchors, evicted, work, drain, tail, inbox, intake,
                 laneVars, askVars, owed, writer, chain, doneVars>>

-------------------------------------------------------------------------------
(* The escalator's intake.                                                 *)

\* _KillLanes.put: a PID is made ready when it has neither work nor a worker.
\* Not the code: the PID is made ready although a worker has it.
MadeReadyIfEmpty(p) == lanes[p] = <<>>
MadeReady(p) == lanes[p] = <<>> /\ p \notin busy

PutLane(p, q) ==
  /\ lanes' = [lanes EXCEPT ![p] = Append(@, q)]
  /\ ready' = IF MadeReady(p) THEN Append(ready, p) ELSE ready
  /\ UNCHANGED <<busy, lanesClosed>>

\* _route: a question that kills to its lane, another to the writer - which
\* waits while the writer owes too many blocks.
Route ==
  LET q == Head(inbox) IN
  /\ intake \in {"up", "draining"} /\ inbox # <<>> /\ q # Sentinel
  /\ inbox' = Tail(inbox)
  /\ \/ pid[q] # NoPid /\ PutLane(pid[q], q) /\ UNCHANGED owed
     \/ /\ pid[q] = NoPid /\ Len(owed) < MaxOwed
        /\ owed' = Append(owed, Thing("escalate", q))
        /\ UNCHANGED laneVars
  /\ UNCHANGED <<incidentVars, anchorVars, work, workLeft, tailVars, intake, askVars,
                 writer, chain, doneVars>>

SeesSentinel ==
  /\ intake = "up" /\ inbox # <<>> /\ Head(inbox) = Sentinel
  /\ inbox' = Tail(inbox)
  /\ intake' = "draining"
  /\ UNCHANGED <<incidentVars, anchorVars, work, workLeft, tailVars, laneVars, askVars,
                 owed, writer, chain, doneVars>>

\* The inbox was empty: the lanes are closed and the workers joined.
ClosesLanes ==
  /\ intake = "draining" /\ inbox = <<>>
  /\ intake' = "joining" /\ lanesClosed' = TRUE
  /\ UNCHANGED <<incidentVars, anchorVars, work, workLeft, tailVars, inbox, lanes,
                 ready, busy, askVars, owed, writer, chain, doneVars>>

WorkersGone == \A w \in Worker : worker[w] = Gone

StopsWriter ==
  /\ intake = "joining" /\ WorkersGone /\ Len(owed) < MaxOwed
  /\ intake' = "last" /\ owed' = Append(owed, Nothing)
  /\ UNCHANGED <<incidentVars, anchorVars, work, workLeft, tailVars, inbox, laneVars,
                 askVars, writer, chain, doneVars>>

IntakeEnds ==
  /\ intake = "last" /\ writer = Gone
  /\ intake' = "gone"
  /\ UNCHANGED <<incidentVars, anchorVars, work, workLeft, tailVars, inbox, laneVars,
                 askVars, owed, writer, chain, doneVars>>

-------------------------------------------------------------------------------
(* The kill workers and the writer.                                        *)

\* take; from here the terminate request is in flight.
KillTakes(w) ==
  LET p == Head(ready)
      q == Head(lanes[p])
  IN
  /\ worker[w] = Up /\ ready # <<>>
  /\ ready' = Tail(ready) /\ busy' = busy \cup {p}
  /\ lanes' = [lanes EXCEPT ![p] = Tail(@)]
  /\ worker' = [worker EXCEPT ![w] = [st |-> "act", item |-> Thing("record", q)]]
  /\ acted' = Append(acted, q)
  /\ UNCHANGED <<incidentVars, anchorVars, work, workLeft, tailVars, inbox, intake,
                 lanesClosed, owed, writer, chain, doneVars>>

\* Not the code: a released PID is not looked at again.
LeftAside(p) == ready
\* _KillLanes.done: a PID with more questions goes to the end of the line.
ReadyAgain(p) == IF lanes[p] = <<>> THEN ready ELSE Append(ready, p)

\* The action is over, or raised; either way the PID's lane is released.  A
\* question whose action raised is closed without a block.
KillReturns(w) ==
  LET q == worker[w].item.q
      p == pid[q]
  IN
  /\ worker[w].st = "act"
  /\ busy' = busy \ {p}
  /\ ready' = ReadyAgain(p)
  /\ \/ /\ worker' = [worker EXCEPT ![w].st = "hand"]
        /\ UNCHANGED doneVars
     \/ /\ worker' = [worker EXCEPT ![w] = Up]
        /\ failed' = failed \cup {q}
        /\ settled' = [settled EXCEPT ![q] = @ + 1]
  /\ UNCHANGED <<incidentVars, anchorVars, work, workLeft, tailVars, inbox, intake,
                 lanes, lanesClosed, acted, owed, writer, chain>>

KillHands(w) ==
  /\ worker[w].st = "hand" /\ Len(owed) < MaxOwed
  /\ owed' = Append(owed, worker[w].item)
  /\ worker' = [worker EXCEPT ![w] = Up]
  /\ UNCHANGED <<incidentVars, anchorVars, work, workLeft, tailVars, inbox, intake,
                 laneVars, acted, writer, chain, doneVars>>

KillExits(w) ==
  /\ worker[w] = Up /\ ready = <<>> /\ lanesClosed
  /\ worker' = [worker EXCEPT ![w] = Gone]
  /\ UNCHANGED <<incidentVars, anchorVars, work, workLeft, tailVars, inbox, intake,
                 laneVars, acted, owed, writer, chain, doneVars>>

\* Is the incident in the chain?  If not, its block goes behind it on _work.
WriterTakes ==
  LET item == Head(owed) IN
  /\ writer = Up /\ owed # <<>>
  /\ owed' = Tail(owed)
  /\ writer' = IF item = Nothing THEN Gone
               ELSE [item |-> item, st |-> IF InChain(item.q) THEN "write" ELSE "queue"]
  /\ UNCHANGED <<incidentVars, anchorVars, work, workLeft, tailVars, inbox, intake,
                 laneVars, askVars, chain, doneVars>>

\* task_done, when the question is closed.
SettleOnce(q) == settled' = [settled EXCEPT ![q] = @ + 1]

\* _escalate_one: a block that raised leaves its anchor.
EscalateOne(q) ==
  \/ Write("escalation", q) /\ Forget(q) /\ UNCHANGED failed
  \/ failed' = failed \cup {q} /\ UNCHANGED <<chain, anchors, marked>>

WriterWrites ==
  LET q == writer.item.q IN
  /\ writer.st = "write"
  /\ \/ writer.item.kind = "record" /\ WriteEscalation(q)
     \/ writer.item.kind = "escalate" /\ EscalateOne(q)
  /\ writer' = Up
  /\ SettleOnce(q)
  /\ UNCHANGED <<incidentVars, evicted, work, workLeft, tailVars, inbox, intake,
                 laneVars, askVars, owed>>

\* A question without a kill takes its (empty) action first, which may raise.
WriterQueues ==
  LET q == writer.item.q IN
  /\ writer.st = "queue"
  /\ \/ PutWork("escalation", q) /\ UNCHANGED failed
     \/ /\ writer.item.kind = "escalate"
        /\ failed' = failed \cup {q}
        /\ UNCHANGED <<work, workLeft>>
  /\ writer' = Up
  /\ SettleOnce(q)
  /\ UNCHANGED <<incidentVars, anchorVars, tailVars, inbox, intake, laneVars, askVars,
                 owed, chain>>

-------------------------------------------------------------------------------
LaneStep == \E q \in Q : Detect(q) \/ Open(q)
CloseStep == \E q \in Q, p \in Pid \cup {NoPid} : Close(q, p)
DrainStep == DrainTakes \/ DrainRuns \/ DrainHands \/ DrainRecords
TailStep == TailTakes \/ TailWrites \/ TailSettles
IntakeStep == Route \/ SeesSentinel \/ ClosesLanes \/ StopsWriter \/ IntakeEnds
KillStep(w) == KillTakes(w) \/ KillReturns(w) \/ KillHands(w) \/ KillExits(w)
WriterStep == WriterTakes \/ WriterWrites \/ WriterQueues
Next ==
  \/ LaneStep \/ CloseStep \/ StopAsked
  \/ DrainStep \/ TailStep \/ IntakeStep \/ WriterStep
  \/ \E w \in Worker : KillStep(w)

Fairness ==
  /\ WF_vars(DrainStep) /\ WF_vars(TailStep) /\ WF_vars(IntakeStep)
  /\ WF_vars(WriterStep) /\ \A w \in Worker : WF_vars(KillStep(w))
Spec == Init /\ [][Next]_vars
FairSpec == Spec /\ Fairness

-------------------------------------------------------------------------------
(* What the escalator promises.                                            *)

WrittenAs(kind, q) == \E n \in DOMAIN chain : chain[n] = Thing(kind, q)
OnItsWay(kind, q) ==
  \/ Thing(kind, q) \in ToSet(work) \cup ToSet(tail)
  \/ drain.item = Thing(kind, q) \/ tailer.item = Thing(kind, q)

\* app.py 1072-1074: an escalation block never overtakes the incident's own
\* blocks - unless the question was evicted from the anchors (1301).
EscalationFollowsIncident ==
  \A q \in Q \ evicted : \A m, n \in DOMAIN chain :
    chain[m] = Thing("escalation", q) /\ chain[n].q = q => n <= m

\* app.py 1364-1366: a process never has two terminates in flight, and its
\* questions are acted on in the order they closed; a PID waits in the ready
\* line exactly when it has a question and no worker, and once (1380-1406).
OneKillPerPid ==
  /\ \A v, w \in Worker : worker[v].st = "act" /\ worker[w].st = "act"
       /\ pid[worker[v].item.q] = pid[worker[w].item.q] => v = w
  /\ \A m, n \in DOMAIN closings : \A k \in DOMAIN acted :
       /\ m < n /\ pid[closings[m]] = pid[closings[n]] /\ acted[k] = closings[n]
       => \E j \in 1 .. k : acted[j] = closings[m]
  /\ IsInjective(ready)
  /\ ToSet(ready) = {p \in Pid : lanes[p] # <<>> /\ p \notin busy}

\* app.py 1442-1444 and 1069-1073: a question is task_done once, and only when
\* its block is written, queued or failed; _work has nothing unfinished only
\* when every block handed over has been written.  When the sentinel is
\* answered, every question taken has been acted on and settled (1442-1445).
SettledIsWritten ==
  /\ \A q \in Q :
       /\ settled[q] <= 1
       /\ settled[q] = 1 =>
            \/ q \in failed \/ WrittenAs("escalation", q) \/ OnItsWay("escalation", q)
  /\ workLeft = 0 <=>
       work = <<>> /\ tail = <<>> /\ drain = Idle /\ tailer = Idle
  /\ intake = "gone" =>
       /\ \A w \in Worker : worker[w] = Gone
       /\ writer = Gone /\ owed = <<>>
       /\ \A p \in Pid : lanes[p] = <<>>
       /\ \A q \in Q : stage[q] = "closed" => settled[q] = 1 \/ q \in ToSet(inbox)

\* Every closed question's block is written, unless its action or its write
\* raised, or the escalator was stopped.
AllWritten ==
  intake = "up" => \A q \in Q : stage[q] = "closed" =>
    WrittenAs("escalation", q) \/ q \in failed
ClosedIsWritten == []<>AllWritten
=============================================================================
