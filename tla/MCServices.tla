----------------------------- MODULE MCServices ------------------------------
(***************************************************************************)
(* The gateway and what else of the services answers, judges, records or   *)
(* undoes, for TLC, side by side: each behaviour is one of one part. The   *)
(* constant or variable x of a part is written X_x here, and is off while  *)
(* it is not in play; those of the gateway are written as they are and     *)
(* then stay as they start.                                                *)
(***************************************************************************)
EXTENDS Gateway, MCContents, TLC

CONSTANTS
  pa, pb, pm, \* numbers of processes; pm is the Monitor's
  T_Pid, T_Own, T_Image, T_System, T_Window, T_Tolerance, T_MaxInc, T_MaxTouch,
  T_MaxNow, V_Ransom, V_Threshold, V_Rise, V_RiseFloor, V_Policy, V_Path,
  V_Dir, V_DirOf, V_Reading, V_Whites, V_Watcher, V_MaxPaths, V_MaxCandidates,
  V_Dwell, V_Duration, V_MaxNow, R_Type, R_Spelling, R_None, R_MaxRows,
  R_PageSize, R_Limits, M_Call, M_MaxObs, M_Audited, D_Ransom, D_Threshold,
  D_Rise, D_RiseFloor, D_Policy, D_Real, D_Forged, D_Before, D_File,
  D_HeadSize, D_TailSize, D_MaxOpen, D_MaxLock, Y_Files, Y_MaxRun,
  Y_MaxRestore, C_Content, C_Measured, C_Flagged, C_Renamed, C_MaxEvent,
  C_MaxModel, C_MaxAlarm

VARIABLES
  part,  \* what this behaviour is of
  T_source, T_now, T_procs, T_live, T_raw, T_log, T_event, T_named, T_asked,
  T_frozen, V_floor, V_recent, V_white, V_mode, V_deadline, V_dirs, V_cand,
  V_ceiling, V_now, V_ev, V_lowest, V_kept, R_rows, R_committed, R_lookup,
  R_export, M_obs, M_cur, M_id, M_worker, M_lanes, M_paused, M_subs, M_source,
  M_call, M_overlap, M_failed, D_file, D_writing, D_locked, D_queue, D_look,
  D_event, D_opens, D_locks, Y_shape, Y_disk, Y_manifest, Y_journal, Y_copies,
  Y_runs, Y_restores, Y_proc, Y_pruner, Y_discarded, Y_result, C_trained,
  C_alarming, C_loaded, C_events, C_jobs, C_acted, C_shown, C_analyzed

T == INSTANCE Gate WITH
  Pid <- T_Pid, Own <- T_Own, Image <- T_Image, System <- T_System,
  Window <- T_Window, Tolerance <- T_Tolerance, MaxInc <- T_MaxInc,
  MaxTouch <- T_MaxTouch, MaxNow <- T_MaxNow, source <- T_source, now <- T_now,
  procs <- T_procs, live <- T_live, raw <- T_raw, log <- T_log,
  event <- T_event, named <- T_named, asked <- T_asked, frozen <- T_frozen

V == INSTANCE Governance WITH
  Ransom <- V_Ransom, Threshold <- V_Threshold, Rise <- V_Rise,
  RiseFloor <- V_RiseFloor, Policy <- V_Policy, Path <- V_Path, Dir <- V_Dir,
  DirOf <- V_DirOf, Reading <- V_Reading, Whites <- V_Whites,
  Watcher <- V_Watcher, MaxPaths <- V_MaxPaths,
  MaxCandidates <- V_MaxCandidates, Dwell <- V_Dwell, Duration <- V_Duration,
  MaxNow <- V_MaxNow, floor <- V_floor, recent <- V_recent, white <- V_white,
  mode <- V_mode, deadline <- V_deadline, dirs <- V_dirs, cand <- V_cand,
  ceiling <- V_ceiling, now <- V_now, ev <- V_ev, lowest <- V_lowest,
  kept <- V_kept

R == INSTANCE LedgerReads WITH
  Type <- R_Type, Spelling <- R_Spelling, None <- R_None, MaxRows <- R_MaxRows,
  PageSize <- R_PageSize, Limits <- R_Limits, rows <- R_rows,
  committed <- R_committed, lookup <- R_lookup, export <- R_export

M == INSTANCE MonitorLife WITH
  Call <- M_Call, MaxObs <- M_MaxObs, Audited <- M_Audited, obs <- M_obs,
  cur <- M_cur, id <- M_id, worker <- M_worker, lanes <- M_lanes,
  paused <- M_paused, subs <- M_subs, source <- M_source, call <- M_call,
  overlap <- M_overlap, failed <- M_failed

D == INSTANCE FileRead WITH
  Ransom <- D_Ransom, Threshold <- D_Threshold, Rise <- D_Rise,
  RiseFloor <- D_RiseFloor, Policy <- D_Policy, Real <- D_Real,
  Forged <- D_Forged, Before <- D_Before, File <- D_File,
  HeadSize <- D_HeadSize, TailSize <- D_TailSize, MaxOpen <- D_MaxOpen,
  MaxLock <- D_MaxLock, file <- D_file, writing <- D_writing,
  locked <- D_locked, queue <- D_queue, look <- D_look, event <- D_event,
  opens <- D_opens, locks <- D_locks

Y == INSTANCE Rehearsal WITH
  Files <- Y_Files, MaxRun <- Y_MaxRun, MaxRestore <- Y_MaxRestore,
  shape <- Y_shape, disk <- Y_disk, manifest <- Y_manifest,
  journal <- Y_journal, copies <- Y_copies, runs <- Y_runs,
  restores <- Y_restores, proc <- Y_proc, pruner <- Y_pruner,
  discarded <- Y_discarded, result <- Y_result

C == INSTANCE Scoring WITH
  Content <- C_Content, Measured <- C_Measured, Flagged <- C_Flagged,
  Renamed <- C_Renamed, MaxEvent <- C_MaxEvent, MaxModel <- C_MaxModel,
  MaxAlarm <- C_MaxAlarm, trained <- C_trained, alarming <- C_alarming,
  loaded <- C_loaded, events <- C_events, jobs <- C_jobs, acted <- C_acted,
  shown <- C_shown, analyzed <- C_analyzed

ASSUME ServicesAssumption ==
  /\ T!GateAssumption
  /\ V!DetectionAssumption
  /\ V!GovernanceAssumption
  /\ R!ReadsAssumption
  /\ M!LifeAssumption
  /\ D!DetectionAssumption
  /\ D!FileReadAssumption
  /\ Y!RehearsalAssumption
  /\ C!ScoringAssumption

-------------------------------------------------------------------------------
T_vars ==
  <<T_source, T_now, T_procs, T_live, T_raw, T_log, T_event, T_named, T_asked,
    T_frozen>>
V_vars ==
  <<V_floor, V_recent, V_white, V_mode, V_deadline, V_dirs, V_cand, V_ceiling,
    V_now, V_ev, V_lowest, V_kept>>
R_vars ==
  <<R_rows, R_committed, R_lookup, R_export>>
M_vars ==
  <<M_obs, M_cur, M_id, M_worker, M_lanes, M_paused, M_subs, M_source, M_call,
    M_overlap, M_failed>>
D_vars ==
  <<D_file, D_writing, D_locked, D_queue, D_look, D_event, D_opens, D_locks>>
Y_vars ==
  <<Y_shape, Y_disk, Y_manifest, Y_journal, Y_copies, Y_runs, Y_restores,
    Y_proc, Y_pruner, Y_discarded, Y_result>>
C_vars ==
  <<C_trained, C_alarming, C_loaded, C_events, C_jobs, C_acted, C_shown,
    C_analyzed>>

Off == "off"
T_off ==
  /\ T_source = Off /\ T_now = Off /\ T_procs = Off /\ T_live = Off
  /\ T_raw = Off /\ T_log = Off /\ T_event = Off /\ T_named = Off
  /\ T_asked = Off /\ T_frozen = Off
V_off ==
  /\ V_floor = Off /\ V_recent = Off /\ V_white = Off /\ V_mode = Off
  /\ V_deadline = Off /\ V_dirs = Off /\ V_cand = Off /\ V_ceiling = Off
  /\ V_now = Off /\ V_ev = Off /\ V_lowest = Off /\ V_kept = Off
R_off ==
  /\ R_rows = Off /\ R_committed = Off /\ R_lookup = Off /\ R_export = Off
M_off ==
  /\ M_obs = Off /\ M_cur = Off /\ M_id = Off /\ M_worker = Off
  /\ M_lanes = Off /\ M_paused = Off /\ M_subs = Off /\ M_source = Off
  /\ M_call = Off /\ M_overlap = Off /\ M_failed = Off
D_off ==
  /\ D_file = Off /\ D_writing = Off /\ D_locked = Off /\ D_queue = Off
  /\ D_look = Off /\ D_event = Off /\ D_opens = Off /\ D_locks = Off
Y_off ==
  /\ Y_shape = Off /\ Y_disk = Off /\ Y_manifest = Off /\ Y_journal = Off
  /\ Y_copies = Off /\ Y_runs = Off /\ Y_restores = Off /\ Y_proc = Off
  /\ Y_pruner = Off /\ Y_discarded = Off /\ Y_result = Off
C_off ==
  /\ C_trained = Off /\ C_alarming = Off
  /\ C_loaded = Off /\ C_events = Off /\ C_jobs = Off
  /\ C_acted = Off /\ C_shown = Off /\ C_analyzed = Off

ServicesInit ==
  \/ /\ part = "gateway" /\ Init
     /\ T_off /\ V_off /\ R_off /\ M_off /\ D_off /\ Y_off /\ C_off
  \/ /\ part = "gate" /\ T!Init /\ Init
     /\ V_off /\ R_off /\ M_off /\ D_off /\ Y_off /\ C_off
  \/ /\ part = "governance" /\ V!Init /\ Init
     /\ T_off /\ R_off /\ M_off /\ D_off /\ Y_off /\ C_off
  \/ /\ part = "reads" /\ R!Init /\ Init
     /\ T_off /\ V_off /\ M_off /\ D_off /\ Y_off /\ C_off
  \/ /\ part = "life" /\ M!Init /\ Init
     /\ T_off /\ V_off /\ R_off /\ D_off /\ Y_off /\ C_off
  \/ /\ part = "file" /\ D!Init /\ Init
     /\ T_off /\ V_off /\ R_off /\ M_off /\ Y_off /\ C_off
  \/ /\ part = "rehearsal" /\ Y!Init /\ Init
     /\ T_off /\ V_off /\ R_off /\ M_off /\ D_off /\ C_off
  \/ /\ part = "scoring" /\ C!Init /\ Init
     /\ T_off /\ V_off /\ R_off /\ M_off /\ D_off /\ Y_off

\* A step of the one in play.
ServicesNext ==
  \/ /\ part = "gateway" /\ Next
     /\ UNCHANGED <<part, T_vars, V_vars, R_vars, M_vars, D_vars, Y_vars, C_vars>>
  \/ /\ part = "gate" /\ T!Next
     /\ UNCHANGED <<part, gatewayVars, V_vars, R_vars, M_vars, D_vars, Y_vars, C_vars>>
  \/ /\ part = "governance" /\ V!Next
     /\ UNCHANGED <<part, gatewayVars, T_vars, R_vars, M_vars, D_vars, Y_vars, C_vars>>
  \/ /\ part = "reads" /\ R!Next
     /\ UNCHANGED <<part, gatewayVars, T_vars, V_vars, M_vars, D_vars, Y_vars, C_vars>>
  \/ /\ part = "life" /\ M!Next
     /\ UNCHANGED <<part, gatewayVars, T_vars, V_vars, R_vars, D_vars, Y_vars, C_vars>>
  \/ /\ part = "file" /\ D!Next
     /\ UNCHANGED <<part, gatewayVars, T_vars, V_vars, R_vars, M_vars, Y_vars, C_vars>>
  \/ /\ part = "rehearsal" /\ Y!Next
     /\ UNCHANGED <<part, gatewayVars, T_vars, V_vars, R_vars, M_vars, D_vars, C_vars>>
  \/ /\ part = "scoring" /\ C!Next
     /\ UNCHANGED <<part, gatewayVars, T_vars, V_vars, R_vars, M_vars, D_vars, Y_vars>>

ServicesVars == <<part, gatewayVars, T_vars, V_vars, R_vars, M_vars, D_vars, Y_vars, C_vars>>
ServicesSpec == ServicesInit /\ [][ServicesNext]_ServicesVars

-------------------------------------------------------------------------------
\* The numbers that are not the Monitor's are interchangeable.
Symmetry == Permutations({pa, pb})
\* Tokens that may be asked for; a bucket of each tier of one subject.
Claim(role, tier) == [sub |-> "u", role |-> role, tier |-> tier]
MCWanted ==
  {Claim("free", "free"), Claim("free", "enterprise"),
   Claim("enterprise", "enterprise")}
MCKey == {<<"u", "free">>, <<"u", "enterprise">>}
MCRate == [k \in MCKey |-> IF k[2] = "free" THEN 1 ELSE 2]
MCBurst == [k \in MCKey |-> IF k[2] = "free" THEN 2 ELSE 3]

\* What a read may find: entropy, partly encrypted, a container, its validity.
Found(e, partial, container, valid) ==
  [readable |-> TRUE, entropy |-> e, small |-> FALSE, partial |-> partial,
   container |-> container, valid |-> valid, compressed |-> "unknown",
   inner |-> FALSE]
High == Found(4, FALSE, FALSE, "unknown")
MCReading ==
  {Found(2, FALSE, FALSE, "unknown"), High,
   Found(4, FALSE, TRUE, "yes"), Found(4, FALSE, TRUE, "no"),
   Found(3, TRUE, FALSE, "unknown"),
   [Found(1, FALSE, FALSE, "unknown") EXCEPT !.readable = FALSE]}
MCDirOf == [p \in V_Path |-> "d"]
MCWhites ==
  {[paths |-> {}, hashes |-> {}], [paths |-> {"b"}, hashes |-> {High}]}

\* One name on Windows in two spellings, and one that is another file's.
Spelt(windows, upper, slash) ==
  [windows |-> windows, dir |-> "d", name |-> "n", upper |-> upper,
   slash |-> slash]
MCSpelling ==
  {Spelt(TRUE, FALSE, "b"), Spelt(TRUE, TRUE, "f"), Spelt(FALSE, TRUE, "f")}

\* A ciphertext under a name of its own, and a text under a ransom extension.
MCMeasured == [c \in C_Content |->
  IF c = "locked"
  THEN [entropy |-> 4, magic |-> FALSE, valid |-> 9, statistics |-> 4,
        blocks |-> 5]
  ELSE [entropy |-> 8, magic |-> TRUE, valid |-> 0, statistics |-> 7,
        blocks |-> 8]]

-------------------------------------------------------------------------------
(* The properties of the parts; RateLimit has WithinBudget and Gateway has *)
(* DoneIsAllowed.                                                          *)

\* Every variable of the part in play has its type.
ServicesTypeOK ==
  /\ TypeOK
  /\ part = "gate" => T!TypeOK
  /\ part = "governance" => V!TypeOK
  /\ part = "reads" => R!TypeOK
  /\ part = "life" => M!TypeOK
  /\ part = "file" => D!TypeOK
  /\ part = "rehearsal" => Y!TypeOK
  /\ part = "scoring" => C!TypeOK

\* What is suspended wrote the file, or nobody could have known that it did not.
FreezesTheWriter == part = "gate" => T!FreezesTheWriter

\* A replaced content stays an alert but for an approved hash, and a learned
\* ceiling is a reading of a path that was watched for the dwell.
RulesAreEarned ==
  part = "governance" => V!ReplacementStands /\ V!CeilingDwelled

\* A page of the ledger holds what was asked for, in any spelling, and an
\* export every block that was committed when it began.
LedgerAnswersInFull ==
  part = "reads" => R!LookupIsExact /\ R!ExportMissesNothing

\* One monitor runs, the one that can be stopped, as long as starts and stops
\* come one at a time; and one of them fails only if they did not.
OneWatch == part = "life" => M!OneWatch /\ M!ErrorsHaveCause

\* A file is said to be locked only if it was, and what has settled is judged
\* whole, whatever was read of it torn.
FileIsJudged == part = "file" => D!NoInventedLock /\ D!SettledIsJudged

\* A simulated attack killed anywhere can be undone, and its restore undoes it.
RunIsUndone == part = "rehearsal" => Y!AlwaysRestorable /\ Y!RestorePutsBack

\* One content has one score through every door, and no answer of the model
\* plays an alert down.
ScoresAgree == part = "scoring" => C!OneFileOneScore /\ C!AlertIsNeverPlayedDown
===============================================================================
