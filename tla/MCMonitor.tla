------------------------------ MODULE MCMonitor ------------------------------
(***************************************************************************)
(* The parts of services/monitor for TLC, side by side: each behaviour is  *)
(* one of one part, chosen at the start, on a small instance of its        *)
(* module.  The constant or variable x of a part is written X_x here; the  *)
(* variables of the other parts are off.                                   *)
(***************************************************************************)
EXTENDS Naturals, FiniteSets, TLC

CONSTANTS
  L_Path, L_Lane, L_QueueMax, L_Controller, L_Nobody, L_MaxJob, L_MaxThread,
  I_MaxNote, I_Adder, I_Sweeper, I_Stopper, I_Stops, I_MaxPending, I_Span,
  I_MaxNow, I_Path, I_Content, I_Coalesce, I_Nobody,
  E_Pid, E_NoPid, E_Worker, E_MaxQuestion, E_MaxTail, E_MaxOwed, E_MaxAnchor,
  E_Stops,
  W_Pid, W_Window, W_Competition, W_Tolerance, W_Horizon, W_MaxEntries,
  W_MaxRecord, W_MaxNow,
  K_Image, K_Tolerance, K_MaxKills, K_Attempts, K_MaxProc, K_MaxQuestion,
  K_MaxNow

VARIABLES
  part,  \* the part this behaviour is of
  L_laneOf, L_queue, L_stopping, L_worker, L_doing, L_thread, L_running,
  L_lock, L_ctl, L_obs, L_path, L_begun, L_ended, L_aside, L_late,
  I_now, I_question, I_items, I_sweep, I_toClose, I_stopping, I_escalated,
  I_epoch, I_note, I_lane, I_corr, I_openAt, I_incident, I_incLock, I_telling,
  I_says, I_tardy,
  E_deferring, E_stage, E_pid, E_anchors, E_marked, E_work, E_workLeft,
  E_drain, E_tail, E_tailer, E_inbox, E_intake, E_lanes, E_ready, E_busy,
  E_lanesClosed, E_worker, E_owed, E_writer, E_chain, E_settled, E_failed,
  E_acted, E_closings, E_evicted,
  W_maxlen, W_now, W_writes, W_evictedThrough, W_event, W_answer,
  K_now, K_proc, K_quest, K_lane, K_act, K_kills, K_unconfirmed, K_fate,
  K_hits

L == INSTANCE CorrelationLanes WITH
  Path <- L_Path, Lane <- L_Lane, QueueMax <- L_QueueMax,
  Controller <- L_Controller, Nobody <- L_Nobody, MaxJob <- L_MaxJob,
  MaxThread <- L_MaxThread, laneOf <- L_laneOf, queue <- L_queue,
  stopping <- L_stopping, worker <- L_worker, doing <- L_doing,
  thread <- L_thread, running <- L_running, lock <- L_lock, ctl <- L_ctl,
  obs <- L_obs, path <- L_path, begun <- L_begun, ended <- L_ended,
  aside <- L_aside, late <- L_late

I == INSTANCE Incidents WITH
  MaxNote <- I_MaxNote, Adder <- I_Adder, Sweeper <- I_Sweeper,
  Stopper <- I_Stopper, Stops <- I_Stops, MaxPending <- I_MaxPending,
  Span <- I_Span, MaxNow <- I_MaxNow, Path <- I_Path, Content <- I_Content,
  Coalesce <- I_Coalesce, Nobody <- I_Nobody, now <- I_now,
  question <- I_question, items <- I_items, sweep <- I_sweep,
  toClose <- I_toClose, stopping <- I_stopping, escalated <- I_escalated,
  epoch <- I_epoch, note <- I_note, lane <- I_lane, corr <- I_corr,
  openAt <- I_openAt, incident <- I_incident, incLock <- I_incLock,
  telling <- I_telling, says <- I_says, tardy <- I_tardy

E == INSTANCE Escalation WITH
  Pid <- E_Pid, NoPid <- E_NoPid, Worker <- E_Worker,
  MaxQuestion <- E_MaxQuestion, MaxTail <- E_MaxTail, MaxOwed <- E_MaxOwed,
  MaxAnchor <- E_MaxAnchor, Stops <- E_Stops, deferring <- E_deferring,
  stage <- E_stage, pid <- E_pid, anchors <- E_anchors, marked <- E_marked,
  work <- E_work, workLeft <- E_workLeft, drain <- E_drain, tail <- E_tail,
  tailer <- E_tailer, inbox <- E_inbox, intake <- E_intake, lanes <- E_lanes,
  ready <- E_ready, busy <- E_busy, lanesClosed <- E_lanesClosed,
  worker <- E_worker, owed <- E_owed, writer <- E_writer, chain <- E_chain,
  settled <- E_settled, failed <- E_failed, acted <- E_acted,
  closings <- E_closings, evicted <- E_evicted

W == INSTANCE WriteLog WITH
  Pid <- W_Pid, Window <- W_Window, Competition <- W_Competition,
  Tolerance <- W_Tolerance, Horizon <- W_Horizon, MaxEntries <- W_MaxEntries,
  MaxRecord <- W_MaxRecord, MaxNow <- W_MaxNow, maxlen <- W_maxlen,
  now <- W_now, writes <- W_writes, evictedThrough <- W_evictedThrough,
  event <- W_event, answer <- W_answer

K == INSTANCE KillMemory WITH
  Image <- K_Image, Tolerance <- K_Tolerance, MaxKills <- K_MaxKills,
  Attempts <- K_Attempts, MaxProc <- K_MaxProc, MaxQuestion <- K_MaxQuestion,
  MaxNow <- K_MaxNow, now <- K_now, proc <- K_proc, quest <- K_quest,
  lane <- K_lane, act <- K_act, kills <- K_kills, unconfirmed <- K_unconfirmed,
  fate <- K_fate, hits <- K_hits

ASSUME MonitorAssumption ==
  /\ L!LanesAssumption
  /\ I!IncidentsAssumption
  /\ E!EscalationAssumption
  /\ W!WriteLogAssumption
  /\ K!KillMemoryAssumption

-------------------------------------------------------------------------------
L_vars ==
  <<L_laneOf, L_queue, L_stopping, L_worker, L_doing, L_thread, L_running,
    L_lock, L_ctl, L_obs, L_path, L_begun, L_ended, L_aside, L_late>>
I_vars ==
  <<I_now, I_question, I_items, I_sweep, I_toClose, I_stopping, I_escalated,
    I_epoch, I_note, I_lane, I_corr, I_openAt, I_incident, I_incLock,
    I_telling, I_says, I_tardy>>
E_vars ==
  <<E_deferring, E_stage, E_pid, E_anchors, E_marked, E_work, E_workLeft,
    E_drain, E_tail, E_tailer, E_inbox, E_intake, E_lanes, E_ready, E_busy,
    E_lanesClosed, E_worker, E_owed, E_writer, E_chain, E_settled, E_failed,
    E_acted, E_closings, E_evicted>>
W_vars ==
  <<W_maxlen, W_now, W_writes, W_evictedThrough, W_event, W_answer>>
K_vars ==
  <<K_now, K_proc, K_quest, K_lane, K_act, K_kills, K_unconfirmed, K_fate,
    K_hits>>

Off == "off"

L_off ==
  /\ L_laneOf = Off /\ L_queue = Off /\ L_stopping = Off /\ L_worker = Off
  /\ L_doing = Off /\ L_thread = Off /\ L_running = Off /\ L_lock = Off
  /\ L_ctl = Off /\ L_obs = Off /\ L_path = Off /\ L_begun = Off
  /\ L_ended = Off /\ L_aside = Off /\ L_late = Off
I_off ==
  /\ I_now = Off /\ I_question = Off /\ I_items = Off /\ I_sweep = Off
  /\ I_toClose = Off /\ I_stopping = Off /\ I_escalated = Off /\ I_epoch = Off
  /\ I_note = Off /\ I_lane = Off /\ I_corr = Off /\ I_openAt = Off
  /\ I_incident = Off /\ I_incLock = Off /\ I_telling = Off /\ I_says = Off
  /\ I_tardy = Off
E_off ==
  /\ E_deferring = Off /\ E_stage = Off /\ E_pid = Off /\ E_anchors = Off
  /\ E_marked = Off /\ E_work = Off /\ E_workLeft = Off /\ E_drain = Off
  /\ E_tail = Off /\ E_tailer = Off /\ E_inbox = Off /\ E_intake = Off
  /\ E_lanes = Off /\ E_ready = Off /\ E_busy = Off /\ E_lanesClosed = Off
  /\ E_worker = Off /\ E_owed = Off /\ E_writer = Off /\ E_chain = Off
  /\ E_settled = Off /\ E_failed = Off /\ E_acted = Off /\ E_closings = Off
  /\ E_evicted = Off
W_off ==
  /\ W_maxlen = Off /\ W_now = Off /\ W_writes = Off /\ W_evictedThrough = Off
  /\ W_event = Off /\ W_answer = Off
K_off ==
  /\ K_now = Off /\ K_proc = Off /\ K_quest = Off /\ K_lane = Off
  /\ K_act = Off /\ K_kills = Off /\ K_unconfirmed = Off /\ K_fate = Off /\ K_hits = Off

MonitorInit ==
  \/ part = "lanes" /\ L!Init /\ I_off /\ E_off /\ W_off /\ K_off
  \/ part = "incidents" /\ I!Init /\ L_off /\ E_off /\ W_off /\ K_off
  \/ part = "escalation" /\ E!Init /\ L_off /\ I_off /\ W_off /\ K_off
  \/ part = "write_log" /\ W!Init /\ L_off /\ I_off /\ E_off /\ K_off
  \/ part = "kill_memory" /\ K!Init /\ L_off /\ I_off /\ E_off /\ W_off

L_others == UNCHANGED <<part, I_vars, E_vars, W_vars, K_vars>>
I_others == UNCHANGED <<part, L_vars, E_vars, W_vars, K_vars>>
E_others == UNCHANGED <<part, L_vars, I_vars, W_vars, K_vars>>
W_others == UNCHANGED <<part, L_vars, I_vars, E_vars, K_vars>>
K_others == UNCHANGED <<part, L_vars, I_vars, E_vars, W_vars>>

MonitorNext ==
  \/ part = "lanes" /\ L!Next /\ L_others
  \/ part = "incidents" /\ I!Next /\ I_others
  \/ part = "escalation" /\ E!Next /\ E_others
  \/ part = "write_log" /\ W!Next /\ W_others
  \/ part = "kill_memory" /\ K!Next /\ K_others

monitorVars == <<part, L_vars, I_vars, E_vars, W_vars, K_vars>>
MonitorSpec == MonitorInit /\ [][MonitorNext]_monitorVars

\* Processes that write are interchangeable, and workers that terminate.
Symmetry == Permutations(W_Pid) \cup Permutations(E_Worker)

-------------------------------------------------------------------------------
(* The properties of each part.                                            *)

MonitorTypeOK ==
  /\ part = "lanes" => L!TypeOK
  /\ part = "incidents" => I!TypeOK
  /\ part = "escalation" => E!TypeOK
  /\ part = "write_log" => W!TypeOK
  /\ part = "kill_memory" => K!TypeOK


\* A file's queued events are correlated in their order, one at a time, and stop
\* finishes what is queued.
LanesKeepOrder == part = "lanes" => L!QueuedInOrder /\ L!StoppedIsEmpty

\* A question closes twice only when it was taken off the list out of turn; a
\* final answer has waited for the horizon of its own window and covers the
\* reads that joined in time.
AnswerIsFinal ==
  part = "incidents" =>
    I!ClosesOnceEach /\ I!WindowHadItsHorizon /\ I!JoinedIsCovered

\* An escalation block never overtakes its incident's own, and a settled
\* question is written, on its way or failed.
BlocksFollow ==
  part = "escalation" => E!EscalationFollowsIncident /\ E!SettledIsWritten

\* A certain answer names the only writer delivered in time.
CertainIsSoleWriter == part = "write_log" => W!CertainIsSoleWriter

\* One terminate at a time per process, in the order of the closings; it hits
\* the writer, or a process no probe could tell from it; and a question closed
\* as terminated earlier is about a killed process.
KillsTheWriterOnce ==
  /\ part = "escalation" => E!OneKillPerPid
  /\ part = "kill_memory" =>
       K!OnlyTheWriterIsKilled /\ K!TerminatedEarlierWasKilled

\* An answer that may not change any more never becomes a certain one.
NeverRaised == [][part = "write_log" => W!RaisesNothing]_monitorVars
=============================================================================
