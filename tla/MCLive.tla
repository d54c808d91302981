-------------------------------- MODULE MCLive --------------------------------
(***************************************************************************)
(* Liveness for TLC: the lease table with its watchdog, three parts of     *)
(* services/monitor, and the hash chain with three calls to one object and *)
(* with two calls to two, side by side: each behaviour is one of one of    *)
(* them.  The constant or variable x of a part is written X_x here; what   *)
(* is not in play is off, or for a chain as at its start.  The fairness is *)
(* that of each module's FairSpec, guarded by which of them is in play.    *)
(***************************************************************************)
EXTENDS LeaseWatchdog, TLC

CONSTANTS
  L_Path, L_Lane, L_QueueMax, L_Controller, L_Nobody, L_MaxJob, L_MaxThread,
  I_MaxNote, I_Adder, I_Sweeper, I_Stopper, I_Stops, I_MaxPending, I_Span,
  I_MaxNow, I_Path, I_Content, I_Coalesce, I_Nobody,
  E_Pid, E_NoPid, E_Worker, E_MaxQuestion, E_MaxTail, E_MaxOwed, E_MaxAnchor,
  E_Stops,
  H_Entry, H_Forged, H_MaxBatch, H_MaxLedger, H_ColdStart, H_MaxCrash,
  H_MaxEdit, C_Entry, C_MaxBatch, C_MaxLedger, C_ColdStart, C_MaxCrash,
  C_MaxEdit

VARIABLES
  part,  \* what this behaviour is of
  L_laneOf, L_queue, L_stopping, L_worker, L_doing, L_thread, L_running,
  L_lock, L_ctl, L_obs, L_path, L_begun, L_ended, L_aside, L_late,
  I_now, I_question, I_items, I_sweep, I_toClose, I_stopping, I_escalated,
  I_epoch, I_note, I_lane, I_corr, I_openAt, I_incident, I_incLock, I_telling,
  I_says, I_tardy,
  E_deferring, E_stage, E_pid, E_anchors, E_marked, E_work, E_workLeft,
  E_drain, E_tail, E_tailer, E_inbox, E_intake, E_lanes, E_ready, E_busy,
  E_lanesClosed, E_worker, E_owed, E_writer, E_chain, E_settled, E_failed,
  E_acted, E_closings, E_evicted,
  H_disk, H_open, H_waiting, H_leading, H_rq, H_made, H_shared, H_arrived,
  H_crashes, H_edited, C_disk, C_open, C_waiting, C_leading, C_rq, C_made,
  C_shared, C_arrived, C_crashes, C_edited

L == INSTANCE CorrelationLanes WITH
  Path <- L_Path, Lane <- L_Lane, QueueMax <- L_QueueMax,
  Controller <- L_Controller, Nobody <- L_Nobody, MaxJob <- L_MaxJob,
  MaxThread <- L_MaxThread, laneOf <- L_laneOf, queue <- L_queue,
  stopping <- L_stopping, worker <- L_worker, doing <- L_doing,
  thread <- L_thread, running <- L_running, lock <- L_lock, ctl <- L_ctl,
  obs <- L_obs, path <- L_path, begun <- L_begun, ended <- L_ended,
  aside <- L_aside, late <- L_late

I == INSTANCE Incidents WITH
  MaxNote <- I_MaxNote, Adder <- I_Adder, Sweeper <- I_Sweeper,
  Stopper <- I_Stopper, Stops <- I_Stops, MaxPending <- I_MaxPending,
  Span <- I_Span, MaxNow <- I_MaxNow, Path <- I_Path, Content <- I_Content,
  Coalesce <- I_Coalesce, Nobody <- I_Nobody, now <- I_now,
  question <- I_question, items <- I_items, sweep <- I_sweep,
  toClose <- I_toClose, stopping <- I_stopping, escalated <- I_escalated,
  epoch <- I_epoch, note <- I_note, lane <- I_lane, corr <- I_corr,
  openAt <- I_openAt, incident <- I_incident, incLock <- I_incLock,
  telling <- I_telling, says <- I_says, tardy <- I_tardy

E == INSTANCE Escalation WITH
  Pid <- E_Pid, NoPid <- E_NoPid, Worker <- E_Worker,
  MaxQuestion <- E_MaxQuestion, MaxTail <- E_MaxTail, MaxOwed <- E_MaxOwed,
  MaxAnchor <- E_MaxAnchor, Stops <- E_Stops, deferring <- E_deferring,
  stage <- E_stage, pid <- E_pid, anchors <- E_anchors, marked <- E_marked,
  work <- E_work, workLeft <- E_workLeft, drain <- E_drain, tail <- E_tail,
  tailer <- E_tailer, inbox <- E_inbox, intake <- E_intake, lanes <- E_lanes,
  ready <- E_ready, busy <- E_busy, lanesClosed <- E_lanesClosed,
  worker <- E_worker, owed <- E_owed, writer <- E_writer, chain <- E_chain,
  settled <- E_settled, failed <- E_failed, acted <- E_acted,
  closings <- E_closings, evicted <- E_evicted

H == INSTANCE HashChain WITH
  Entry <- H_Entry, Forged <- H_Forged, MaxBatch <- H_MaxBatch,
  MaxLedger <- H_MaxLedger, ColdStart <- H_ColdStart, MaxCrash <- H_MaxCrash,
  MaxEdit <- H_MaxEdit, disk <- H_disk, open <- H_open, waiting <- H_waiting,
  leading <- H_leading, rq <- H_rq, made <- H_made, shared <- H_shared,
  arrived <- H_arrived, crashes <- H_crashes, edited <- H_edited

C == INSTANCE HashChain WITH
  Entry <- C_Entry, Forged <- H_Forged, MaxBatch <- C_MaxBatch,
  MaxLedger <- C_MaxLedger, ColdStart <- C_ColdStart, MaxCrash <- C_MaxCrash,
  MaxEdit <- C_MaxEdit, disk <- C_disk, open <- C_open, waiting <- C_waiting,
  leading <- C_leading, rq <- C_rq, made <- C_made, shared <- C_shared,
  arrived <- C_arrived, crashes <- C_crashes, edited <- C_edited

-------------------------------------------------------------------------------
L_vars ==
  <<L_laneOf, L_queue, L_stopping, L_worker, L_doing, L_thread, L_running,
    L_lock, L_ctl, L_obs, L_path, L_begun, L_ended, L_aside, L_late>>
I_vars ==
  <<I_now, I_question, I_items, I_sweep, I_toClose, I_stopping, I_escalated,
    I_epoch, I_note, I_lane, I_corr, I_openAt, I_incident, I_incLock,
    I_telling, I_says, I_tardy>>
E_vars ==
  <<E_deferring, E_stage, E_pid, E_anchors, E_marked, E_work, E_workLeft,
    E_drain, E_tail, E_tailer, E_inbox, E_intake, E_lanes, E_ready, E_busy,
    E_lanesClosed, E_worker, E_owed, E_writer, E_chain, E_settled, E_failed,
    E_acted, E_closings, E_evicted>>
H_vars ==
  <<H_disk, H_open, H_waiting, H_leading, H_rq, H_made, H_shared, H_arrived,
    H_crashes, H_edited>>
C_vars ==
  <<C_disk, C_open, C_waiting, C_leading, C_rq, C_made, C_shared, C_arrived,
    C_crashes, C_edited>>

Off == "off"

Table_off ==
  /\ proc = Off /\ lease = Off /\ heldBy = Off /\ th = Off /\ lock = Off
  /\ svc = Off /\ todo = Off /\ notes = Off /\ blocks = Off /\ failed = Off
  /\ child = Off /\ cur = Off /\ wdHeld = Off /\ told = Off /\ up = Off
  /\ boots = Off /\ faults = Off
L_off ==
  /\ L_laneOf = Off /\ L_queue = Off /\ L_stopping = Off /\ L_worker = Off
  /\ L_doing = Off /\ L_thread = Off /\ L_running = Off /\ L_lock = Off
  /\ L_ctl = Off /\ L_obs = Off /\ L_path = Off /\ L_begun = Off
  /\ L_ended = Off /\ L_aside = Off /\ L_late = Off
I_off ==
  /\ I_now = Off /\ I_question = Off /\ I_items = Off /\ I_sweep = Off
  /\ I_toClose = Off /\ I_stopping = Off /\ I_escalated = Off /\ I_epoch = Off
  /\ I_note = Off /\ I_lane = Off /\ I_corr = Off /\ I_openAt = Off
  /\ I_incident = Off /\ I_incLock = Off /\ I_telling = Off /\ I_says = Off
  /\ I_tardy = Off
E_off ==
  /\ E_deferring = Off /\ E_stage = Off /\ E_pid = Off /\ E_anchors = Off
  /\ E_marked = Off /\ E_work = Off /\ E_workLeft = Off /\ E_drain = Off
  /\ E_tail = Off /\ E_tailer = Off /\ E_inbox = Off /\ E_intake = Off
  /\ E_lanes = Off /\ E_ready = Off /\ E_busy = Off /\ E_lanesClosed = Off
  /\ E_worker = Off /\ E_owed = Off /\ E_writer = Off /\ E_chain = Off
  /\ E_settled = Off /\ E_failed = Off /\ E_acted = Off /\ E_closings = Off
  /\ E_evicted = Off

ChainsStart == H!Init /\ C!Init

LiveInit ==
  \/ part = "watchdog" /\ WatchInit /\ L_off /\ I_off /\ E_off /\ ChainsStart
  \/ part = "lanes" /\ L!Init /\ Table_off /\ I_off /\ E_off /\ ChainsStart
  \/ part = "incidents" /\ I!Init /\ Table_off /\ L_off /\ E_off /\ ChainsStart
  \/ part = "escalation" /\ E!Init /\ Table_off /\ L_off /\ I_off /\ ChainsStart
  \/ /\ part \in {"chain", "chains"} /\ ChainsStart
     /\ Table_off /\ L_off /\ I_off /\ E_off

\* A step of the one in play.
OfTable(A) ==
  /\ part = "watchdog" /\ A
  /\ UNCHANGED <<part, L_vars, I_vars, E_vars, H_vars, C_vars>>
OfLanes(A) ==
  /\ part = "lanes" /\ A
  /\ UNCHANGED <<part, allVars, I_vars, E_vars, H_vars, C_vars>>
OfIncidents(A) ==
  /\ part = "incidents" /\ A
  /\ UNCHANGED <<part, allVars, L_vars, E_vars, H_vars, C_vars>>
OfEscalation(A) ==
  /\ part = "escalation" /\ A
  /\ UNCHANGED <<part, allVars, L_vars, I_vars, H_vars, C_vars>>
OfChain(A) ==
  /\ part = "chain" /\ A
  /\ UNCHANGED <<part, allVars, L_vars, I_vars, E_vars, C_vars>>
OfChains(A) ==
  /\ part = "chains" /\ A
  /\ UNCHANGED <<part, allVars, L_vars, I_vars, E_vars, H_vars>>

LiveNext ==
  \/ OfTable(WatchNext)
  \/ OfLanes(L!Next)
  \/ OfIncidents(I!Next)
  \/ OfEscalation(E!Next)
  \/ OfChain(H!Next)
  \/ OfChains(C!Next)

liveVars ==
  <<part, allVars, L_vars, I_vars, E_vars, H_vars, C_vars>>

TableFairness ==
  /\ \A l \in LeaseId :
       /\ WF_liveVars(OfTable(InService(Expire(l))))
       /\ WF_liveVars(OfTable(InService(Reap(l))))
       /\ WF_liveVars(OfTable(InService(ResumeNext(l))))
  /\ \A t \in Thread : WF_liveVars(OfTable(up /\ Abort(t)))
  /\ WF_liveVars(OfTable(InService(ResumeAllDone)))
  /\ WF_liveVars(OfTable(Close))
  /\ \A g \in 1 .. MaxGen :
       /\ WF_liveVars(OfTable(g \in DOMAIN child /\ ChildRead(g)))
       /\ WF_liveVars(OfTable(g \in DOMAIN child /\ ChildEof(g)))

LanesFairness ==
  /\ \A l \in L_Lane, w \in 1 .. L_MaxThread :
       WF_liveVars(OfLanes(L!Take(l, w) \/ L!Finish(l, w)))
  /\ WF_liveVars(OfLanes(L!Offer \/ L!RunInline \/ L!InlineEnds))
  /\ \A c \in L_Controller :
       WF_liveVars(OfLanes(L!StartLane(c) \/ L!Started(c) \/ L!StopLane(c)
                           \/ L!JoinLane(c) \/ L!Stopped(c)))

IncidentsFairness ==
  /\ \A p \in I_Path : WF_liveVars(OfIncidents(I!LaneStep(p)))
  /\ \A c \in I_Path \cup {I_Sweeper, I_Stopper} :
       WF_liveVars(OfIncidents(I!CloseStep(c)))
  /\ WF_liveVars(OfIncidents(I!Sweeps))
  /\ WF_liveVars(OfIncidents(I!Ticks))
  /\ \A q \in 1 .. I_MaxNote : WF_liveVars(OfIncidents(I!ShowClosed(q)))

EscalationFairness ==
  /\ WF_liveVars(OfEscalation(E!DrainStep))
  /\ WF_liveVars(OfEscalation(E!TailStep))
  /\ WF_liveVars(OfEscalation(E!IntakeStep))
  /\ WF_liveVars(OfEscalation(E!WriterStep))
  /\ \A w \in E_Worker : WF_liveVars(OfEscalation(E!KillStep(w)))

ChainFairness ==
  /\ \A e \in H_Entry :
       WF_liveVars(OfChain(H!GetLedger(e) \/ H!AddBlock(e) \/ H!CommitBatch(e)))
  /\ \A e \in C_Entry :
       WF_liveVars(OfChains(C!GetLedger(e) \/ C!AddBlock(e) \/ C!CommitBatch(e)))

LiveSpec ==
  /\ LiveInit /\ [][LiveNext]_liveVars
  /\ TableFairness /\ LanesFairness /\ IncidentsFairness
  /\ EscalationFairness /\ ChainFairness

-------------------------------------------------------------------------------
(* What must happen, of each.                                              *)

\* The ledger implements the abstract log: a batch becomes durable as a whole
\* or not at all, no entry twice, and no call is told otherwise.
KeepsItsPromise == H!KeepsItsPromise /\ C!KeepsItsPromise

\* Every call that joins is answered, or lost in a crash: no sleeper misses its
\* wake-up and the lead is always handed on.
EveryCallReturns == []<>(H!AllAnswered /\ C!AllAnswered)

\* LeaseWatchdog.NothingStaysFrozen and LeaseTable.ExpiredEnds: whenever the
\* service dies, what is frozen runs again in the end, but for the holds the
\* child exits without reading; and the reaper ends an expired lease.
LeasesEnd ==
  []<>(part = "watchdog" =>
    /\ \A p \in Pid :
         \/ proc[p].susp = 0
         \/ Stranded(p)
         \/ \E l \in LeaseId : lease[l].pid = p /\ SameProcess(l) /\ Unread(l)
    /\ svc = "stopped" \/ \A l \in LeaseId : ~(Held(l) /\ lease[l].expired))

\* A job submitted is run, a question asked is closed and its fields say so, and
\* the block of a closed question is written.
MonitorCatchesUp ==
  []<>(/\ part = "lanes" => L!AllRun
       /\ part = "incidents" => I!AllClosed
       /\ part = "escalation" => E!AllWritten)
===============================================================================
