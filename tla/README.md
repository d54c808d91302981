# URDS in TLA+

Specifications, model-checking runs and proofs for the Unified Ransomware
Detection System: who may freeze or kill a process and who ends it, what
survives a crash, what the audit ledger promises, and how an event finds its
way from a file to a block. Source paths are relative to `src/services/`
unless they start with `scripts/`.

## 1. The system

Six services run side by side and talk over HTTP: the gateway (8000), the
Monitor (8001), the ML engine (8002), the ledger (8003), Response (8004) and a
dashboard (8501). A file event reaches the Monitor, which reads the file,
detects, asks the audit trail which process wrote it, has Response suspend that
process for a few seconds (freeze first), and asks Response to resume or to
kill it when the question is closed. Every service writes what it did to the
ledger. A recovery restores files from shadow copies and certifies them by
hashes the ledger holds.

| Component | State | Operations | What is hard |
| --- | --- | --- | --- |
| Lease table, `response/leases.py` | `_held`, `_by_id`, `_history`, `_closed`, `_notes` | acquire, release, end_for_terminate, reap, resume_all, shutdown, record | handlers, reaper and shutdown race; PIDs are reused at any step |
| Lease watchdog, `response/lease_watchdog.py` | client `_held` and pipe; child `held` | start, hold, drop, close; read, resume on EOF, on a deadline, on a dead parent | two processes, either of which may die at any step |
| Response handlers, `response/app.py`, `actions.py` | none of their own | suspend, resume, terminate, trigger, isolate | answers lost, commands that fail, a kill and its lease in two steps |
| Recovery, `response/recovery/` | shadow copies, the hashes in the ledger | snapshot, choose, restore, certify | copies come and go; what is certified depends on what was written before |
| Ledger, `ledger/hash_chain.py`, `main.py` | SQLite file, `_waiting`, `_leading`, `_ledger` | add_block (group commit), verify_chain, reads | leader hand-over, failed batches, crash before the answer, reads without the lock |
| Correlation lanes, `monitor/dispatch.py` | lanes and their threads | submit, run, start, stop | a lane thread that outlives its stop; a full lane |
| Incidents, `monitor/app.py` | open incidents, notifications, epochs | stamp, join, open, close, show | joins race closings over two locks |
| Attribution, `monitor/attribution.py` | write log, open questions, sweep | deliver, look up, open, re-ask, close, gate | late and evicted records, each question closed once |
| Suspend policy, `monitor/suspend_policy.py` | holds by PID and incident | on_first_answer, on_close, pause, release_all | answers lost, a close during a request, stale holds |
| Pipeline, `monitor/pipeline.py` | termination registry | run, escalate, terminate, retry | one kill per process, PIDs reused |
| Drain, tail, kill lanes, escalator, `monitor/app.py` | queues and threads | hand over, act, write, stop, restart | order of blocks, full queues |
| Detection, `monitor/detection.py`, `containers.py` | entropy history | read, classify | the file changes between two reads |
| Suppression, `monitor/suppression.py`, `admissibility.py` | whitelist, training mode | observe, learn, excuse | state read under the lock, used after it |
| Monitor lifecycle, `monitor/app.py` | module globals | start, stop | neither takes a lock |
| Gateway, `gateway/` | buckets | token, authenticate, limit, proxy, audit | order of the checks; timeouts |
| ML engine, `ml-engine/` | the loaded models | predict, features | three callers, one vector |
| Dashboard, `dashboard/` | none | score, export | pages read while blocks are appended |
| Simulator, `scripts/ransomware_simulator.py` | manifest, journal, saved originals | run, restore, prune | killed at any step |

The training code and the other scripts are offline tools and not modelled.
`PROJECT.json` lists every component, with what of it is left out, and every
hazard with its line.

What makes each correct is what its properties say (section 3): a process is
frozen exactly while somebody will resume it; only the writer is frozen or
killed, and once; each question is closed once and its answer is final; an
incident's blocks keep their order; the ledger is one chain, in the order of
the calls, and a call is told the truth about its own block; a restore brings
back what was asked for and certifies only what was known good.

## 2. The modules

A module models one component and has its properties. Its instance for TLC, and
the specification the proofs are about, is in an MC module. Four of those put
several modules side by side.

| Module | Models | In |
| --- | --- | --- |
| `LeaseTable` | the lease table, its handlers, the recorder, the processes | `MCResponse`, `MCLeaseTable` |
| `LeaseWatchdog` | extends it with both ends of the watchdog, crash, restart | `MCFreeze`, `MCLive` |
| `AppendLog` | what the ledger promises its callers, and nothing of how | `HashChain` |
| `HashChain` | get_ledger, group commit, transaction, verification, crash, edits | `MCFreeze`, `MCLive`, `MCHashChain` |
| `LedgerReads` | filtered and paged reads, path keys, the export | `MCServices` |
| `SuspendPolicy` | freeze-first on the Monitor's side | `MCFreeze`, `MCSuspendPolicy` |
| `WriteLog` | the bounded audit log and its anchored lookup | `MCMonitor` |
| `PendingAttribution` | the open questions, sweep and closings | `Incidents` |
| `Incidents` | notifications, joins, closings, over `PendingAttribution` | `MCMonitor`, `MCLive` |
| `Gate` | from an audit record to the process that may be suspended | `MCServices` |
| `KillMemory` | the kill a closed question authorises and the memory of kills | `MCMonitor` |
| `Escalation` | drain, tail, kill lanes, escalation writer | `MCMonitor`, `MCLive` |
| `CorrelationLanes` | correlation off the observer thread | `MCMonitor`, `MCLive` |
| `Fanout` | one incident over pipeline, Response handlers and isolation | `MCResponse` |
| `GoodState` | known-good hashes from sighting to certified restore | `MCResponse` |
| `Snapshots` | shadow copies, the scheduler, how a restore finds its copy | `MCResponse` |
| `Detection`, `Containers` | operators: the verdict on a reading; the container validators | `FileRead`, `Governance`, `MCContents` |
| `FileRead` | a file read while it is written | `MCServices`, `MCFileRead` |
| `Governance` | entropy floor, training mode, whitelist, adjudication | `MCServices` |
| `Scoring` | three ways to the model's score | `MCServices` |
| `MonitorLife` | start and stop of the Monitor | `MCServices` |
| `RateLimit`, `Gateway` | token buckets; the gateway over them | `MCServices` |
| `Rehearsal` | the simulator and its restore | `MCServices` |
| `LeaseTableProofs`, `FreezeProofs`, `PolicyProofs`, `ResponseProofs`, `MonitorProofs`, `EscalationProofs`, `ServicesProofs`, `GatewayProofs` | theorems (section 6) | |

**Side by side.** `MCResponse`, `MCFreeze`, `MCMonitor`, `MCServices` and
`MCLive` each check several modules that share no state in one run. A behaviour
belongs to one part, chosen in the initial state by the variable `part`; the
variables of the other parts are "off" (or rest in their initial states). The
constant or variable `x` of a part is called `X_x`, with one letter per part
(`H_disk` is `HashChain`'s `disk`). A property of a part reads
`part = "chain" => H!ChainUnbroken`. Nothing is lost: the reachable states of
the sum are those of its parts, each counted once. Where modules do interact in
the code, one module composes them: `LeaseWatchdog` extends `LeaseTable`,
`Incidents` instantiates `PendingAttribution`, `Gateway` extends `RateLimit`,
`FileRead` uses `Detection` and `Containers`, `Governance` uses `Detection`.

Every module's head comment says what it stands for; every definition that
models code is mapped to its lines in `PROJECT.json`. What follows is what a
reader needs in order to compare them.

### Response

**LeaseTable.** `proc` is what runs under each PID (the incarnation number
stands for the creation time); `lease` and `heldBy` are `_by_id`/`_history` and
`_held`; `th` says where each worker thread is; `lock` is the table's lock;
`svc` and `todo` the progress of `shutdown`; `notes` the recorder's queue;
`blocks` and `failed` are histories. A method that runs under the lock is one
step, except that `acquire` is cut between `vet` and `suspend`
(`AcquireArm`, then `AcquireSuspend` or `AcquireAbort`), because the operating
system honours no lock, and that `resume_all` is one step per lease. The kill
of `/response/terminate` is three steps outside the lock; a handler's ledger
block is a step of its own. psutil's check that a PID was not reused and the
signal it then sends are one step. Time is a flag per lease (`expired`). A
creation time may be unreadable (`StartReadable`): the run of the response has
readable ones, `lease_terminate` and the theorems have both. `Nests` selects
the platform: suspends count on Windows, on POSIX they do not.

**LeaseWatchdog.** `child` is the sequence of watchdog children, each with its
pipe (`inbox`), whether our end is closed (`eof`) and its table; `cur`,
`wdHeld` are the client's. Every step that ends leases sends their drops in the
same step, as `_end` does. A crash of the service may come between any two
steps and loses table, threads and queue; `Boot` starts a new one. Assumed: the
child reads a line well within its grace (50 ms against 2 s); `suspend` returns
before its own lease expires; the child's `resume` does not fail; a restarted
service suspends nothing before its predecessor's child is done. The properties
except holds that a child exits without reading (`Unread`: its parent check
does not drain the pipe first), and `RunningLeaseIsFrozen` the behaviours in
which a child is killed, after which a replacement may resume early.

**Fanout.** One incident. `pipeline.run` reads the event's fields one by one
while `_show_closed` may write the closing answer into the same dict; each POST
may be lost, refused or served after its caller gave up. `actions_taken` lists
what is planned whether it succeeds or not. Of the processes only the writer's
exits. Read from the code and kept: the second `psutil.Process` of
`terminate_process` is outside the `try` (`actions.py:156-158`), so that a
process that is gone ends the request with an error and the isolation is
skipped; the rules written for `pfctl` are never loaded and reported as
enforced.

**GoodState, Snapshots.** One path. A block of the path is a sighting, an alert
or a recovery, with the hash it carries; `last_known_hash` is the newest of a
good state. The extra blocks of joined incidents, `snapshot_created` and
`recovery_completed` carry no path and are left out. Copies are made by the
scheduler's job or a script, and made and deleted by Windows at any time; an
answer of WMI may be lost after the copy is made. `Foreign` is a Windows path
on a POSIX root, which is restored to a file of an odd name. Recovery's own
manager has no scheduler.

### Ledger

**HashChain.** A hash is the sequence of events below it (SHA-256 taken as
injective). `open[d]` is the uncommitted transaction of ledger object `d`;
`disk` the file. Threads in `_turn` take one step; the leader reads the tip,
inserts row by row, commits, settles and steps down in steps of its own. A
commit may fail at any point; a crash rolls back and leaves the calls in flight
`"lost"`. `ColdStart` starts without a ledger object, so that `get_ledger`'s
test and assignment race. `EditRow` and `RemoveRow` are what verification is
for; removing the last row cannot be noticed by a chain and is excluded from
`EditNamed`, not from the model. `AppendLog` has a log, an answer per call and
three steps; `HashChain` implements it (`KeepsItsPromise`) with `log` the
events in the file and `answer` how each call ended.

**LedgerReads.** Readers use the writer's connection without its lock: they see
uncommitted rows, and statements run between the count and the page of one
answer. One reader at a time (readers do not see each other); rows that change
during one `fetchall` are left out.

### Monitor

**CorrelationLanes.** A lane, its bounded queue, its thread. `stop` joins the
thread for a while and then forgets it, so a slow thread (`aside`) may meet its
successor; a job that cannot be queued runs inline on the observer. Left out:
the counters, and `drain`'s answer, which `stop` ignores.

**PendingAttribution, Incidents.** A question is opened by a lane, re-asked by
the sweeper, closed by whoever took it off the list (the sweeper, a lane that
found the list full, or `stop`), outside the lock. Time is a counter; what the
write log answers is abstract here. `Incidents` adds the notification's epoch,
the join and the closing under `_INCIDENTS_LOCK` and `_LOCK`, and the closing
answer written into every notification that joined. A question taken off the
list out of turn may be closed twice: `ClosesOnceEach` says only then, against
`attribution.py:1763`, which claims once.

**WriteLog.** A record has a writer, the time of the write and the time it was
delivered; the log is bounded and shared, so records of other files push out
ours. `answer` is what the last look said. One clock stands for the system
clock and the horizon clock; a stepped system clock is left out.

**Escalation.** The pipeline worker (`drain`), the tail, the intake, the kill
lanes with their workers and the writer, each with the item it works on. A
question closes once here (`Incidents` has the exception). A block is the
incident's own or its escalation; what is ordered is the attempt to write it.

**KillMemory.** One PID, given to one process after another. `act` is
`_take_action` between its probes; `lane` is the PID's kill lane, with the
questions a sweep has verified (`Close`) and whom each verification saw: a
writer's burst closes many at once, and several may wait there about one live
process before the kill worker takes the first (`Take`). `kills` and
`unconfirmed` are the registry's; `fate` and `hits` say what became of each process and why. Times
are exact, `Tolerance` is what the code allows for their error. That memory
ages is left out: its bound in number forgets the same things.

**Gate.** Processes are incarnations of a PID with an image and a birth that
may be unreadable; they read and write one watched file, and records of it
arrive late or without an image or a time. The probe is one step; the legacy
lookup without an observation time and the wording of a miss are left out.

**SuspendPolicy.** `hold`, `holds`, `link` and `handled` are the `Hold` objects,
`_holds`, `_by_incident` and `_handled`; `ask`, `th`, `closer` and `stop` say
where the threads are that call the policy; `q` is the question; `lease`,
`late` and `dead` are Response as its answers show it. What a method does under
the policy's lock is one step; a `Hold`'s lock is held over several (`Locked`).
A request and its answer are one step, except that a suspend whose answer is
lost may still be served at any later time. Time is left out: a lease may end
at any moment, a cooldown may be running or over. Left out: pruning at
`MAX_HOLDS`, the environment's switch and the lease id a kill carries.

**Detection, Containers, FileRead.** `Detection` is the order of the signals;
`Containers` validates abstract contents, sequences of units with what each
declares. `FileRead` makes every look at the file a step: the size, the magic,
the sample, the structure. A locked file costs the retry budget; if it is
locked only between the magic and the sample, its entropy reads 0.0 and it is
taken for benign (`detection.py:259-266`). A truncation and a refill between
two looks read as unreadable; the end of a lock brings no notification; a torn
reading may lower the floor under later ones. `/features` reads the same way
and records nothing.

**Governance.** The floor under a path's readings, the training mode with its
window, candidates, dwell and trim, approvals by path and hash, and the order
in which `handle_event` asks them. Entropies are levels; all paths have one
extension. The trim of learned candidates may drop a ceiling.

**MonitorLife.** `/monitor/start` and `/monitor/stop` statement by statement,
on threads of their own without a lock. Two starts that overlap can leave two
observers running although `app.py:368` says one; a start whose observer cannot
start leaves globals behind that make later calls fail. The properties say so:
one watch as long as calls come one at a time.

### Gateway, ML engine, simulator

**RateLimit, Gateway.** Tokens are counted in parts so that the refill per unit
of time is a whole number. Everything up to the first downstream call runs
without an await and is one step; a downstream call may be carried out after the
gateway has answered 503. `since`, `spent` and `done` are an observer's. Buckets
belong to subjects, so one caller is enough for the run; the theorems have any.

**Scoring.** What `handle_event` and `pipeline.run`, `/features` behind
`/analyze`, and the dashboard send to the model. What the file holds at each look
and under which name is free, and a new model may come between two requests; a
model is any set of vectors, and an ML engine that is down or has no model is
`NoAnswer` to whoever asks. A look reads the file twice, its leading bytes and its sample (`Reads`), and another
process may hold it at either: an event of a look that got no leading bytes
carries a null for the entropy, and is an alert all the same under a ransom
extension (`Suspicious`). The three doors then agree on a file that was locked
throughout. They do not on a torn look (`Torn`), where the lock was let go of
between the two reads: the pipeline scores the entropy that was read
(`app.py:822`), the dashboard the event's null as a zero (`urds_ui.py:251`). The
code does this, the properties except it, and an alert remains one at both.
A change of content inside one look is `FileRead`'s. `ember_vector`,
`features_ignored` and `file_size` are left out. For an event that is not an
alert the dashboard shows what the model says alone.

**Rehearsal.** A run of the simulator over decoys, killed anywhere, with what it
keeps on disk; a restore, which may be killed too; pruning by other runs. Kept
from the code: a second `--restore` after the copies were discarded decrypts
plaintext (`scripts/ransomware_simulator.py:818-828`); `prune_orphans` takes the
torn manifest of a run in progress for an orphan's (656-687).

## 3. The runs

The lines give what a run checks, not every bound: those are in its cfg.

| Run | Instance | Checks |
| --- | --- | --- |
| `response_safety` | `MCResponse`: 2 workers, 1 PID with 2 processes, 2 leases; one path through 2 Monitor runs; 1 incident, 2 processes; 2 shadow copies | the table and its freezes, ends and end blocks; who is named for a kill; what a restore brings back and certifies |
| `freeze_safety` | `MCFreeze`: 2 service runs, 2 watchdog children, 2 leases; 3 appends over batches of 2, a crash, an edit; 2 questions, 2 holds | somebody will resume a frozen process, nobody does early; no hold is lost; the chain and its answers |
| `monitor_safety` | `MCMonitor`: 3 jobs, 2 paths, 2 controllers; 2 notifications; 2 incidents, 2 kill workers; 2 writers, 3 records; 2 processes with one PID, 2 questions | order of lanes and blocks, finality of answers, the sole writer, one kill of the right process |
| `services_safety` | `MCServices`: `Gate`, `Governance`, `LedgerReads`, `MonitorLife`, `FileRead`, `Rehearsal`, `Scoring` and `Gateway`, with 2 or 3 processes, paths, rows, calls, decoys or contents each | the gate, learned rules, reads, lifecycle, files, the simulator, the score, the gateway |
| `live` | `MCLive`: the parts that owe somebody something | section 4, and the refinement of `AppendLog` by one and by two ledger objects |
| `lease_terminate`, `hash_fork`, `policy_forgotten`, `recovery`, `first_response`, `benefit_of_the_doubt`, `snapshots_paused` | the module's own | one claim each of a comment, doc or test that the code breaks (section 5) |

Why the bounds are enough. Every test in this code compares "the same" with
"another", so two of a kind (processes of a PID, leases, holds, children,
writers, copies) meet every case, and a third repeats one. Two workers and one
PID pair every handler with every other on one process; reaper, recorder and
shutdown are actors of their own. Three appends over batches of two give a
second batch, a leader whose call is not in its own batch, and arrivals during
a commit. Two questions about one writer pair a hold with a question of its own
and with one that joined it. Two incidents in the escalator give an overtaking;
bounds of one on the tail, the owed blocks and the anchors make each queue
full. Clocks run one or two units past the longest span. Every one of these
choices is kept honest by the mutants: each property is broken, under the same
cfg, by a plausible bug in the code. Where bounds had to stay small, the
theorems of section 6 hold for all of them.

Symmetry is used over sets of identical threads, leases, writers or questions,
never in `live`. `CHECK_DEADLOCK FALSE` is set because the instances really
stop: what is finite in them runs out, and services are shut down.

## 4. Fairness and liveness

Only what runs in a loop of its own, or holds a lock, owes a step: the reaper
(`_reap_loop`), a thread inside the table's lock, the shutdown's loop once
begun, the watchdog child's reader; in the ledger each worker thread in
`add_block`; lane threads, the sweeper and who closes what it took; the drain,
the tail, the intake, each kill worker and the writer. Callers, crashes,
starts, stops and the operating system owe nothing. An expired lease ends only
if a resume does not raise for ever (a fair `Reap` against an optional
`ReapFails`): the code retries until it succeeds. Time passes (`Expire`,
`Ticks`), and once the shutdown has resumed everything the process exits
(`Close`).

`live` checks `EveryCallReturns` (no sleeper misses its wake-up, across a
crash), `LeasesEnd` (what is frozen runs again in the end, an expired lease
ends) and `MonitorCatchesUp` (a submitted job runs, a question closes although
joins move its horizon, a closed question's block is written or failed).
`snapshots_paused` has the scheduler's thread fair and finds no snapshot.

## 5. Where the code and its comments part

* `lease_terminate`: `end_for_terminate` closes whatever lease the PID has by
  the time it gets the lock. A PID reused and suspended between the kill and
  that moment leaves a live, frozen process with no lease. The other properties
  name such a process (`Stranded`) and speak of every other one.
* `hash_fork`: the first concurrent requests can build two ledger objects, each
  with a lock of its own, and fork the chain. The safety run and the theorems
  start warm, as the service does when the healthcheck comes first.
* `policy_forgotten`: a question that froze one writer and joins another's hold
  forgets its own: the close resumes the second writer, and the first stays
  frozen until its lease expires.
* `recovery`: restoring a snapshot taken after an encryption makes the
  encrypted bytes the known-good reference for the next restore.
* `first_response`: an event still queued is overwritten with the closing
  answer, and the first response then asks for a kill that is the close's.
* `benefit_of_the_doubt`: a container that grows between two looks is judged by
  the old size and called forged.
* `snapshots_paused`: the scheduler's job is added paused and never fires. The
  scheduler has a `run_immediately` that would fire it; the service does not
  pass it.

## 6. What is proved

TLC checks small instances; the theorems hold for every value of the constants
that satisfies the named assumptions: any number of PIDs, threads, leases,
calls, events, paths, writers, buckets, any bound, any batch size. The
assumptions say that a sentinel is not an element of the set it stands apart
from, that a bound is a number, and what the code guarantees of a setting; TLC
evaluates every one on the runs. Every theorem follows one pattern: an
inductive invariant, checked by TLC first, that holds initially, is preserved
by each action (one lemma per action) and implies the property. Where a module
has several parts the invariant reads `part = ... => ...`, as the property does.

| Module | Theorem | Property |
| --- | --- | --- |
| `LeaseTableProofs` | `TypeCorrect`, `TableConsistent`, `FrozenExactlyWhenHeld`, `NothingLeftHeld`, `InductiveHolds` | `TypeOK`, `OneLeasePerPid`, `FrozenWhileHeld`, `ShutdownReleasesAll`, all of them |
| | `LeaseEndsOnce`, `SuspendFreezesTheVetted` | the action properties `EndsOnce`, `FreezesTheVetted` |
| | `EndIsRecordedOnce` | `EndRecordedOnce` |
| `FreezeProofs` | `ChainIsInOrder`, `ChainTellsTheTruth` | `ChainInOrder`, `ChainTellsTrue` |
| | `ChainKeepsItsPromise` | `HashChain` implements `AppendLog` |
| `PolicyProofs` | `HoldsAreNotLost` | `NoHoldIsLost` |
| `ResponseProofs` | `OnlyTheCertainIsNamed`, `WhatIsSaidWasDone` | `NamedIsCertain`, `AnsweredInFull` |
| | `BaselinesHold`, `RestoresHold`, `ResponseTypes` | `BaselineIsSound`, `RestoresWhatIsNamed`, `ResponseTypeOK` |
| `MonitorProofs` | `CertainNamesTheWriter`, `FinalIsNeverRaised` | `CertainIsSoleWriter`, the action property `NeverRaised` |
| | `EachKillIsTheWriters`, `EventsKeepTheirOrder` | `KillsTheWriterOnce`, `LanesKeepOrder` |
| `EscalationProofs` | `BlocksAreInOrder` | `BlocksFollow` |
| `ServicesProofs` | `TheWriterIsFrozen`, `RulesMustBeEarned` | `FreezesTheWriter`, `RulesAreEarned` |
| | `OneMonitorWatches`, `OneContentOneScore` | `OneWatch`, `ScoresAgree` |
| `GatewayProofs` | `RunsAreUndone` | `RunIsUndone` |
| | `GatewayImplementsRateLimit`, `NobodyOverspends` | the gateway implements `RateLimit`; `WithinBudget` |
| | `OnlyTheAllowedIsDone`, `GatewayTypeCorrect` | `DoneIsAllowed`, the types |

**Lease table.** The properties are not inductive by themselves. `Inductive`
adds `LockInv` (the lock is held by exactly the thread that arms a lease, or by
the shutdown while it resumes, and nobody arms once the service closes: this is
why a suspend cannot slip past `resume_all`), `ArmedInv` (a lease being armed is
in no table, its PID is free and its process satisfies the claim: it carries the
vetting over the cut in `acquire`), `RequestInv` (a handler under way has a
PID), `LeaseInv` (a lease is of a process that has existed, so that a differing
start time means another process) and `ShutdownInv` (a held lease is still to be
tried or has failed). `EndRecordedOnce` needs to know who still owes a lease its
block: a note in the queue, a handler at its log, or nobody once there is a
block. No run has a platform on which suspends do not nest: the theorems do.

**Hash chain.** `ChainKept` says where each call is: in the queue, carried by the
leader, or settled. At most one call leads (`OneLeader`); what the leader took
is the head of the order of arrival (`QueueInTurn`, `JoinedOnce`), the open
transaction is what the leader has inserted on top of the file (`Transaction`),
and a file nobody edited is one chain of the settled calls in that order
(`ChainOrder`, `Intact`). `Named` says what verification finds after an edit.
The refinement adds `PromiseInv`: a settled call's event is at the place its
answer names, and an event of a call that is not settled is not in the file;
then a commit maps to the one step that makes a group durable, an answer to an
answer, a crash to the loss of the open calls, every other step to a stutter.
Assumed: `~H_ColdStart`, the ledger object is built before the first calls, as
it is when the healthcheck comes first (`hash_fork` shows what happens
otherwise; any number of ledger objects may still be allowed), and for the
refinement `H_MaxEdit = 0`, nobody edits the file from outside.

**Suspend policy.** `PolicyInv` follows a hold from its registration: its thread
works on it exactly while it is requesting or resuming (`GoodHolds`), a hold that
may be frozen is the one its PID has (`Known`), a question's link leads to a hold
that waits for it (`Linked`), what each caller of `on_first_answer` is about to
do rests on what it has seen under the lock (`Asked`), a close that has begun has
decided what it will do (`Closings`, `Questions`), and a release still has to
visit, is visiting or has failed with whatever may be frozen and is ours
(`Releasing`).

**Response.** `FanoutInv`: the answers in the event, in the drain's copy and in
the requests agree with what attribution said, a request names only what such an
answer named (`KillsNamed`, `BlocksNamed`), and a finished event or request has
left what it owes (`RequestsKept`, `AskedFor`). `GoodInv`: every block, lookup
and file of the path is caused by a sighting, a baseline or a recovery that
recorded it before (`Caused`, `Referenced`, `BaselineOnce`). `SnapInv`: who makes
a copy knows its name (`MakersKnow`), a row of the list leads to a copy or
nowhere (`RowsLead`), and a restore that has a root has it from the name it was
asked for (`RootIsNamed`).

**Monitor.** `WriteLogInv` accounts for every delivered record that the log no
longer has (`PushedOut`) and for what the last look saw (`Asked`, `Doubted`): a
log that has lost a record of the window says so. `EscalatorInv` puts every
question in one line from its closing to its blocks (`Members`, `NoneLost`) and
shows that the lanes act (`ActsInOrder`), write (`RowsInOrder`) and hand over
(`BoxInOrder`) in the order of that line. `LanesInv` says which
controller has the lock and which lanes it has come to (`OneServes`,
`ThreadsKnown`), that a lane no stop has left behind has at most its one thread,
which ends only when told to and after its queue (`OneThread`), and that every
job is on offer, queued or begun (`OnOffer`, `InQueue`, `NoneMissing`), so that
what begins is the oldest of its lane (`BegunInOrder`). `BlocksInv` follows what an
incident has in the pipe from its detection to the tail, once and in order
(`PipeOf`), the question that closed from the inbox through a worker, the owed
blocks and the writer to its being settled, in one place at a time (`PlaceOf`),
and the anchor, which an open question keeps until its block is written and which
is marked once the incident's own blocks are (`BlockOf`). `KillMemoryInv` keeps
for every question waiting in a PID's lane that whom its verification saw is
still one that may have written (`SeenFor`, `LaneKept`), however many wait and
whatever is killed or exits before their turn, and ties the probe of a kill to
that process (`ClosedOn`, `ProbeSaw`, `OwnedAt`, `KillIsOf`). The number of kill workers is positive, as
`max(1, ...)` in `monitor/app.py:203` makes it.

**Services.** `GateInv`: a record is of a process that had been born when it
touched the file (`RecordsTrue`), one record at most names the writer
(`NamedOnce`), a question asks about that writer (`AskedRight`) and what is
frozen agrees with what was asked as far as it could be read (`FrozenRight`).
That the Monitor and its ancestors (`T_Own`) are finitely many is assumed.
`GovInv`: the floor is at most the lowest reading (`FloorsKept`), an event in
flight carries a true reading (`EventsRight`), a candidate was seen when it says
(`CandsSeen`) and a ceiling was watched (`CeilingsDwelled`). This proof found a
mistake of the model: the history of what had been seen of a candidate took the
sighting of the observer thread that came first, which is not the earliest once
there are two; it now keeps the earliest, for any number of threads. `LifeInv`
says at each statement of a start or stop what watches and what the globals name.
`ScoreInv` carries what a look measured (`Measurement`) through event, job,
request and page: unchanged to the pipeline, to the dashboard but for the null
of a look that counted as unreadable, which makes the same vector unless the
look was torn (`RequestIs`). `RunInv` says of each point of a simulator's run or restore where a
decoy's original is: as it was made, or in a copy that a journal knows of, and
that this journal is where a restore would look (`Restorable`, `Rewriting`,
`Putting`); it needs that a journal is written after its copies and a decoy
rewritten after its journal. In the gateway, a bucket looked at any time later
holds what it held, refilled, and no more than its burst; a request is at the
call of its route that comes after those done for it.

## 7. What is only model-checked, and what is not modelled

Only model-checked, on the instances of section 3:

* `EveryCallReturns`, `LeasesEnd`, `MonitorCatchesUp`: the prover has no rules
  for fairness and ENABLED.
* `FreezeIsCovered`, `FreezeIsKnown`: the watchdog, both of whose processes may
  die. Their inductive invariant has to account for every message in every pipe.
* `AnswerIsFinal` of the Monitor's threads.
* `LedgerAnswersInFull`: the filtered, paged view of a growing ledger is defined
  by a recursive selection, and what that computes takes induction over data,
  which the installed provers cannot instantiate. The same goes for what the
  container validators of `FileRead` (`FileIsJudged`) make of a content of any
  length. (`GreatestOf` and `LeastOf` get what they need of the numbers from
  their well-foundedness.)
* `FreezeTypeOK`, `ServicesTypeOK`, `MonitorTypeOK`: those of their parts that
  are proved have their types in the part's inductive invariant.

Not modelled: what the notes of section 2 name as left out; the numbers inside
the detectors and the model; WMI, vssadmin, firewall commands and the audit
subsystem, of which only the answers are modelled; the pages of the dashboard;
training code and the other scripts. One hazard has no property: the sweep
re-asks from a copy of the list, so a question already closed out of turn may
still freeze a writer. The lease then ends by its expiry; a property needs the
policy and the questions in one module, which is too large for TLC.

## 8. What comes next

Proofs, in the order of what they would add: the watchdog (`FreezeIsCovered`,
by accounting for the messages in each pipe), the finality of an answer. Models: the policy composed
with the questions it is asked about, by an abstraction of each that keeps only
the close. When the code changes, start from the map in `PROJECT.json`: it names,
for every line of the mapped files, the definition that has to change with it.
