----------------------------- MODULE MCResponse ------------------------------
(***************************************************************************)
(* The lease table and what else decides or records a response, for TLC,   *)
(* side by side: each behaviour is one of one part. The constant or        *)
(* variable x of a part is written X_x here, and is off while it is not in *)
(* play; those of the lease table are written as they are and then stay as *)
(* they start.                                                             *)
(***************************************************************************)
EXTENDS LeaseTableProofs, TLC

CONSTANTS
  G_Content, G_Flagged, G_Partial, G_Gone, G_Watcher, G_Recoverer, G_Lookback,
  G_MaxChange, G_MaxAsk, G_MaxBlock, G_MaxRun, F_Incident, F_Writer, F_Other,
  F_NoPid, F_MaxGen, F_Backends, S_Copy, S_File, S_Kept, S_Asked, S_Request,
  S_RunNow, S_MaxWrite, S_MaxAsk, S_MaxRecord, S_MaxRun

VARIABLES
  part,  \* what this behaviour is of
  G_disk, G_changes, G_notes, G_run, G_seen, G_watch, G_lane, G_work, G_chain,
  G_snaps, G_asked, G_rec, G_answers, F_gen, F_alive, F_first, F_closing,
  F_ques, F_event, F_work, F_drain, F_tail, F_ended, F_trig, F_term, F_backend,
  F_rules, F_chain, S_host, S_folders, S_disk, S_writes, S_copies, S_sched,
  S_runs, S_maker, S_ledger, S_asks, S_req

G == INSTANCE GoodState WITH
  Content <- G_Content, Flagged <- G_Flagged, Partial <- G_Partial,
  Gone <- G_Gone, Watcher <- G_Watcher, Recoverer <- G_Recoverer,
  Lookback <- G_Lookback, MaxChange <- G_MaxChange, MaxAsk <- G_MaxAsk,
  MaxBlock <- G_MaxBlock, MaxRun <- G_MaxRun, disk <- G_disk,
  changes <- G_changes, notes <- G_notes, run <- G_run, seen <- G_seen,
  watch <- G_watch, lane <- G_lane, work <- G_work, chain <- G_chain,
  snaps <- G_snaps, asked <- G_asked, rec <- G_rec, answers <- G_answers

F == INSTANCE Fanout WITH
  Incident <- F_Incident, Writer <- F_Writer, Other <- F_Other,
  NoPid <- F_NoPid, MaxGen <- F_MaxGen, Backends <- F_Backends, gen <- F_gen,
  alive <- F_alive, first <- F_first, closing <- F_closing, ques <- F_ques,
  event <- F_event, work <- F_work, drain <- F_drain, tail <- F_tail,
  ended <- F_ended, trig <- F_trig, term <- F_term, backend <- F_backend,
  rules <- F_rules, chain <- F_chain

S == INSTANCE Snapshots WITH
  Copy <- S_Copy, File <- S_File, Kept <- S_Kept, Asked <- S_Asked,
  Request <- S_Request, RunNow <- S_RunNow, MaxWrite <- S_MaxWrite,
  MaxAsk <- S_MaxAsk, MaxRecord <- S_MaxRecord, MaxRun <- S_MaxRun,
  host <- S_host, folders <- S_folders, disk <- S_disk, writes <- S_writes,
  copies <- S_copies, sched <- S_sched, runs <- S_runs, maker <- S_maker,
  ledger <- S_ledger, asks <- S_asks, req <- S_req

ASSUME ResponseAssumption ==
  /\ G!GoodStateAssumption
  /\ F!FanoutAssumption
  /\ S!SnapshotsAssumption

-------------------------------------------------------------------------------
G_vars ==
  <<G_disk, G_changes, G_notes, G_run, G_seen, G_watch, G_lane, G_work,
    G_chain, G_snaps, G_asked, G_rec, G_answers>>
F_vars ==
  <<F_gen, F_alive, F_first, F_closing, F_ques, F_event, F_work, F_drain,
    F_tail, F_ended, F_trig, F_term, F_backend, F_rules, F_chain>>
S_vars ==
  <<S_host, S_folders, S_disk, S_writes, S_copies, S_sched, S_runs, S_maker,
    S_ledger, S_asks, S_req>>

Off == "off"
G_off ==
  /\ G_disk = Off /\ G_changes = Off /\ G_notes = Off /\ G_run = Off
  /\ G_seen = Off /\ G_watch = Off /\ G_lane = Off /\ G_work = Off
  /\ G_chain = Off /\ G_snaps = Off /\ G_asked = Off /\ G_rec = Off
  /\ G_answers = Off
F_off ==
  /\ F_gen = Off /\ F_alive = Off /\ F_first = Off /\ F_closing = Off
  /\ F_ques = Off /\ F_event = Off /\ F_work = Off /\ F_drain = Off
  /\ F_tail = Off /\ F_ended = Off /\ F_trig = Off /\ F_term = Off
  /\ F_backend = Off /\ F_rules = Off /\ F_chain = Off
S_off ==
  /\ S_host = Off /\ S_folders = Off /\ S_disk = Off /\ S_writes = Off
  /\ S_copies = Off /\ S_sched = Off /\ S_runs = Off /\ S_maker = Off
  /\ S_ledger = Off /\ S_asks = Off /\ S_req = Off

ResponseInit ==
  \/ /\ part = "leases" /\ Init
     /\ G_off /\ F_off /\ S_off
  \/ /\ part = "good_state" /\ G!Init /\ Init
     /\ F_off /\ S_off
  \/ /\ part = "fanout" /\ F!Init /\ Init
     /\ G_off /\ S_off
  \/ /\ part = "snapshots" /\ S!Init /\ Init
     /\ G_off /\ F_off

\* A step of the one in play.
ResponseNext ==
  \/ /\ part = "leases" /\ Next
     /\ UNCHANGED <<part, G_vars, F_vars, S_vars>>
  \/ /\ part = "good_state" /\ G!Next
     /\ UNCHANGED <<part, vars, F_vars, S_vars>>
  \/ /\ part = "fanout" /\ F!Next
     /\ UNCHANGED <<part, vars, G_vars, S_vars>>
  \/ /\ part = "snapshots" /\ S!Next
     /\ UNCHANGED <<part, vars, G_vars, F_vars>>

ResponseVars == <<part, vars, G_vars, F_vars, S_vars>>
ResponseSpec == ResponseInit /\ [][ResponseNext]_ResponseVars

-------------------------------------------------------------------------------
\* Threads are interchangeable, and leases are.
Symmetry == Permutations(Thread) \cup Permutations(LeaseId)

\* The requests, directories and names of the shadow copies' instance: a
\* Windows path and one without a drive, a copy kept under its bare name, and
\* requests that name it in either form.
MCRequest ==
  {<<[file |-> "f", drive |-> TRUE, sep |-> "\\"],
     [file |-> "f", drive |-> FALSE, sep |-> "/"]>>}
MCKept == {[copy |-> "s1", form |-> "bare"]}
MCAsked == {[copy |-> "s1", form |-> f] : f \in {"bare", "prefixed"}}

-------------------------------------------------------------------------------
(* The properties of the parts; the lease table's are its module's.        *)

\* Every variable of the part in play has its type (LeaseTable has TypeOK).
ResponseTypeOK ==
  /\ part = "good_state" => G!TypeOK
  /\ part = "fanout" => F!TypeOK
  /\ part = "snapshots" => S!TypeOK

\* A flagged content is certified only where the reference itself went wrong
\* first, and a path has one baseline in a Monitor run (GoodState).
BaselineIsSound ==
  part = "good_state" => G!CertifiedHasCause /\ G!OneBaselinePerRun

\* Whatever reads and updates of the event cross, a block or a kill request
\* names only whom a CERTAIN answer of its incident named (Fanout).
NamedIsCertain == part = "fanout" => F!NamedIsCertain
\* Every event is asked about, every request tries the isolation, and what a
\* response says was done was done (Fanout).
AnsweredInFull == part = "fanout" => F!AnsweredInFull

\* What a restore says of a file is true of the copy it was asked to use, and
\* what the ledger records of a copy leads to that copy (Snapshots).
RestoresWhatIsNamed ==
  part = "snapshots" => S!RestoresWhatIsNamed /\ S!RecordedIsMade
===============================================================================
