------------------------------ MODULE LeaseTable ------------------------------
(***************************************************************************)
(* The suspensions the Response service holds: services/response/leases.py *)
(* (LeaseTable), the handlers that drive it in services/response/app.py    *)
(* and the process operations of services/response/actions.py.             *)
(*                                                                         *)
(* A suspension is a lease.  It is granted by acquire, it is ended by the  *)
(* caller (/response/resume), by the reaper once it has expired, by a kill *)
(* (/response/terminate), by the shutdown, or because the process is gone. *)
(* The handlers run on a pool of worker threads; the reaper, the recorder  *)
(* and the shutdown are threads of their own.  Everything a method does    *)
(* under LeaseTable._lock is one step, except acquire, whose lock section  *)
(* is cut before the suspend because processes exit and PIDs are reused    *)
(* whatever lock is held.  reap and resume_all end their leases one step   *)
(* each and tell the recorder in that step, not when they leave the lock.  *)
(*                                                                         *)
(* This module is the service with the watchdog switched off               *)
(* (RESPONSE_LEASE_WATCHDOG=0); LeaseWatchdog adds the watchdog.           *)
(***************************************************************************)
EXTENDS Naturals, Sequences, FiniteSets

CONSTANTS
  Pid,           \* process identifiers the operating system hands out
  Thread,        \* worker threads of the HTTP server
  LeaseId,       \* lease identifiers (uuid4: never issued twice)
  NoLease,       \* Python's None where a lease is expected
  NoPid,         \* the pid of a lease that was never issued
  Shutdown,      \* the thread that runs LeaseTable.shutdown
  Nobody,        \* the holder of a free lock
  MaxInc,        \* bound: how many processes may use one PID in turn
  Nests,         \* TRUE: NtSuspendProcess counts; FALSE: SIGSTOP does not
  StartReadable  \* the outcomes of reading a creation time: may it fail?

ASSUME NobodyAssumption == Nobody \notin Thread \cup {Shutdown}
ASSUME ShutdownAssumption == Shutdown \notin Thread
ASSUME NoLeaseAssumption == NoLease \notin LeaseId
ASSUME NoPidAssumption == NoPid \notin Pid
ASSUME MaxIncAssumption == MaxInc \in Nat \ {0}
ASSUME NestsAssumption == Nests \in BOOLEAN
ASSUME ReadableAssumption == StartReadable \subseteq BOOLEAN

VARIABLES
  proc,     \* what runs under each PID: incarnation, liveness, suspend count
  lease,    \* every lease record, held or ended (_by_id and _history)
  heldBy,   \* _held: the lease each PID is held under
  th,       \* where each worker thread is in its handler
  lock,     \* who is inside LeaseTable._lock
  svc,      \* how far LeaseTable.shutdown has come
  todo,     \* the leases resume_all has still to try
  notes,    \* _notes: ended leases the recorder has still to write
  blocks,   \* how many ledger blocks record the end of each lease
  failed    \* leases with a resume that raised (history)

osVars    == <<proc>>
tableVars == <<lease, heldBy>>
downVars  == <<svc, todo>>
noteVars  == <<notes, blocks>>
vars      == <<proc, lease, heldBy, th, lock, svc, todo, notes, blocks, failed>>

-------------------------------------------------------------------------------
(* Types.                                                                  *)

\* A PID is used by processes 1, 2, ... in turn: the number stands for the
\* creation time, which is what tells two users of one PID apart.
Process == [inc : Nat, alive : BOOLEAN, susp : Nat]

Ended == {"resumed", "terminated", "gone"}

\* "armed" is a lease built inside acquire, before the suspend; "refused" one
\* whose suspend raised; "lost" one whose service crashed (LeaseWatchdog).
\* start is started_at, 0 where it could not be read.
Lease == [state   : {"free", "armed", "held", "refused", "lost"} \cup Ended,
          pid     : Pid \cup {NoPid},
          inc     : Nat,
          start   : Nat,
          expired : BOOLEAN]

\* claim is the started_at of a suspend request (0: none given) and, in a
\* terminate, the process psutil bound the PID to.  gone is the stale lease
\* acquire closed on its way (its local `ended`).
Worker == [pc    : {"idle", "entered", "armed", "killing", "killed", "logging"},
           pid   : Pid \cup {NoPid},
           claim : Nat,
           lease : LeaseId \cup {NoLease},
           gone  : LeaseId \cup {NoLease}]

TypeOK ==
  /\ proc \in [Pid -> Process]
  /\ lease \in [LeaseId -> Lease]
  /\ heldBy \in [Pid -> LeaseId \cup {NoLease}]
  /\ th \in [Thread -> Worker]
  /\ lock \in Thread \cup {Shutdown, Nobody}
  /\ svc \in {"running", "closing", "resuming", "resumed", "stopped"}
  /\ todo \in SUBSET LeaseId
  /\ notes \in Seq(LeaseId)
  /\ blocks \in [LeaseId -> Nat]
  /\ failed \in SUBSET LeaseId

Free == [state |-> "free", pid |-> NoPid, inc |-> 0, start |-> 0,
         expired |-> FALSE]

Idle == [pc |-> "idle", pid |-> NoPid, claim |-> 0, lease |-> NoLease,
         gone |-> NoLease]

Init ==
  /\ proc = [p \in Pid |-> [inc |-> 1, alive |-> TRUE, susp |-> 0]]
  /\ lease = [l \in LeaseId |-> Free]
  /\ heldBy = [p \in Pid |-> NoLease]
  /\ th = [t \in Thread |-> Idle]
  /\ lock = Nobody
  /\ svc = "running"
  /\ todo = {}
  /\ notes = <<>>
  /\ blocks = [l \in LeaseId |-> 0]
  /\ failed = {}

-------------------------------------------------------------------------------
(* Processes, as psutil shows them.                                        *)

\* The process a lease was taken on still runs: psutil compares the creation
\* time, so a reused PID is not the same process.
SameProcess(l) ==
  /\ proc[lease[l].pid].alive
  /\ proc[lease[l].pid].inc = lease[l].inc

Suspended(n) == IF Nests THEN n + 1 ELSE 1
Resumed(n)   == IF Nests /\ n > 0 THEN n - 1 ELSE 0

Dead(q) == [q EXCEPT !.alive = FALSE, !.susp = 0]

\* resume_process through the lease's own handle: a process that is gone, or
\* whose PID was reused, is left alone.
ResumeThrough(l) ==
  IF SameProcess(l)
  THEN [proc EXCEPT ![lease[l].pid].susp = Resumed(@)]
  ELSE proc

-------------------------------------------------------------------------------
(* The ends of a lease.                                                    *)

Held(l) == lease[l].state = "held"

\* Not the code: the entry in _held is left behind.
EndKeepsEntry(l, state) ==
  /\ lease' = [lease EXCEPT ![l].state = state]
  /\ UNCHANGED heldBy

\* LeaseTable._end: the new state, and _held forgets the PID if this lease is
\* the one it names.
End(l, state) ==
  /\ lease' = [lease EXCEPT ![l].state = state]
  /\ heldBy' = [heldBy EXCEPT ![lease[l].pid] = IF @ = l THEN NoLease ELSE @]

\* Not the code: the process is resumed and the lease stays in the table.
EndByResumeOnly(l) == proc' = ResumeThrough(l) /\ UNCHANGED tableVars

\* Not the code: the lease is closed and nobody resumes its process.
EndUnresumed(l) == UNCHANGED proc /\ End(l, "resumed")

\* LeaseTable._resume_lease when the resume does not raise.
EndByResume(l) ==
  /\ proc' = ResumeThrough(l)
  /\ End(l, IF SameProcess(l) THEN "resumed" ELSE "gone")

\* ... and when it raises (access denied on a live process): the lease stays
\* held for the reaper, the shutdown and the watchdog to try again.
ResumeRaises(l) ==
  /\ SameProcess(l)
  /\ failed' = failed \cup {l}

\* Not the code: no test that there is an ended lease to report.
NoteUnchecked(l) == <<l>>

\* _notify: an ended lease nobody asked to end is queued for the recorder.
Note(l) == IF l = NoLease THEN <<>> ELSE <<l>>

-------------------------------------------------------------------------------
(* POST /response/suspend: acquire.                                        *)

\* Up to the lock: the request is valid and shutdown has not begun.
AcquireEnter(t, p, claim) ==
  /\ svc = "running"
  /\ th[t] = Idle
  /\ th' = [th EXCEPT ![t].pc = "entered", ![t].pid = p, ![t].claim = claim]
  /\ UNCHANGED <<proc, lease, heldBy, lock, svc, todo, notes, blocks, failed>>

\* The lock is free for a thread whose request has been admitted.
Admitted(t) == th[t].pc = "entered" /\ lock = Nobody

\* Refused under the lock: the shutdown has begun meanwhile, one of
\* vet_suspend's guards says no, or the state of a held PID cannot be proven.
AcquireRefused(t) ==
  /\ Admitted(t)
  /\ th' = [th EXCEPT ![t] = Idle]
  /\ UNCHANGED <<proc, lease, heldBy, lock, svc, todo, notes, blocks, failed>>

\* Not the code: the claimed creation time is not compared.
VettedByPid(p, claim, readable) == proc[p].alive

\* vet_suspend: the process exists and, where its creation time can be read
\* and one was claimed, it is not newer than the claim.
Vetted(p, claim, readable) ==
  /\ proc[p].alive
  /\ readable /\ claim # 0 => proc[p].inc <= claim

\* _identity: the creation time recorded with the lease, if it can be read.
StartOf(p, readable) == IF readable THEN proc[p].inc ELSE 0

\* The PID is held and its process runs: the existing lease is returned
\* (already_held), nothing is suspended and nothing is recorded.
AcquireAlreadyHeld(t) ==
  /\ Admitted(t)
  /\ svc = "running"
  /\ heldBy[th[t].pid] # NoLease
  /\ SameProcess(heldBy[th[t].pid])
  /\ th' = [th EXCEPT ![t] = Idle]
  /\ UNCHANGED <<proc, lease, heldBy, lock, svc, todo, notes, blocks, failed>>

\* The held handle answers that its process is gone (or raises), but the live
\* process has the lease's creation time: it is still suspended under it.
AcquireRebind(t) ==
  LET p == th[t].pid  l == heldBy[p] IN
  /\ Admitted(t)
  /\ svc = "running"
  /\ l # NoLease
  /\ \E readable \in StartReadable :
       /\ Vetted(p, th[t].claim, readable)
       /\ StartOf(p, readable) # 0
       /\ StartOf(p, readable) = lease[l].start
  /\ lease' = [lease EXCEPT ![l].inc = proc[p].inc]
  /\ th' = [th EXCEPT ![t] = Idle]
  /\ UNCHANGED <<proc, heldBy, lock, svc, todo, notes, blocks, failed>>

\* The lease acquire will close because another process has its PID.
StaleLease(p, readable) ==
  /\ heldBy[p] # NoLease
  /\ ~SameProcess(heldBy[p])
  /\ StartOf(p, readable) # 0
  /\ lease[heldBy[p]].start # 0
  /\ StartOf(p, readable) # lease[heldBy[p]].start

\* Every guard passed: close the stale lease if there is one, and build the
\* new lease.  The lock is kept.
AcquireArm(t, l) ==
  LET p == th[t].pid  old == heldBy[p] IN
  /\ Admitted(t)
  /\ svc = "running"
  /\ lease[l].state = "free"
  /\ \E readable \in StartReadable :
       /\ Vetted(p, th[t].claim, readable)
       /\ old = NoLease \/ StaleLease(p, readable)
       /\ lease' = [m \in LeaseId |->
            IF m = l
            THEN [state |-> "armed", pid |-> p, inc |-> proc[p].inc,
                  start |-> StartOf(p, readable), expired |-> FALSE]
            ELSE IF m = old THEN [lease[m] EXCEPT !.state = "gone"]
            ELSE lease[m]]
  /\ heldBy' = [heldBy EXCEPT ![p] = NoLease]
  /\ lock' = t
  /\ th' = [th EXCEPT ![t].pc = "armed", ![t].lease = l, ![t].gone = old]
  /\ UNCHANGED <<proc, svc, todo, notes, blocks, failed>>

\* Leave acquire with lease l in `state`, telling the recorder about the stale
\* lease whatever became of the new one (the finally clause).
LeaveAcquire(t, state) ==
  /\ th[t].pc = "armed"
  /\ lease' = [lease EXCEPT ![th[t].lease].state = state]
  /\ lock' = Nobody
  /\ th' = [th EXCEPT ![t] = Idle]
  /\ notes' = notes \o Note(th[t].gone)
  /\ UNCHANGED <<svc, todo, blocks, failed>>

\* suspend_process succeeds and the lease enters the table.
AcquireSuspend(t) ==
  LET l == th[t].lease IN
  /\ LeaveAcquire(t, "held")
  /\ SameProcess(l)
  /\ proc' = [proc EXCEPT ![lease[l].pid].susp = Suspended(@)]
  /\ heldBy' = [heldBy EXCEPT ![lease[l].pid] = l]

\* suspend_process raises: the process exited (or its PID was reused) since
\* it was vetted, or the operating system refuses.
AcquireAbort(t) ==
  /\ LeaveAcquire(t, "refused")
  /\ UNCHANGED <<proc, heldBy>>

-------------------------------------------------------------------------------
(* POST /response/resume: release, then the handler's own block.           *)

Release(t, l) ==
  /\ lock = Nobody
  /\ th[t] = Idle
  /\ th' = [th EXCEPT ![t].pc = "logging", ![t].lease = l]
  /\ EndByResume(l)
  /\ UNCHANGED <<lock, svc, todo, notes, blocks, failed>>

\* Not the code: the lease is found, and not asked whether it is still held.
ReleaseLeaseUnchecked(t, l) ==
  lease[l].state \notin {"free", "armed"} /\ Release(t, l)

\* By lease_id: _by_id holds it and its state is held.
ReleaseLease(t, l) == Held(l) /\ Release(t, l)

\* By process_id: whatever lease _held has for the PID, no matter whose.
ReleasePid(t, p) == heldBy[p] # NoLease /\ Release(t, heldBy[p])

\* The resume raised: 409 RESUME_FAILED and the lease stays held.
ReleaseFails(t, l) ==
  /\ lock = Nobody
  /\ th[t] = Idle
  /\ Held(l)
  /\ ResumeRaises(l)
  /\ UNCHANGED <<proc, lease, heldBy, th, lock, svc, todo, notes, blocks>>

\* log_action, outside the lock: the block of a lease this handler ended (best
\* effort: the count is of blocks sent, the ledger may be unreachable).
HandlerLogs(t) ==
  /\ th[t].pc = "logging"
  /\ blocks' = IF th[t].lease = NoLease THEN blocks
               ELSE [blocks EXCEPT ![th[t].lease] = @ + 1]
  /\ th' = [th EXCEPT ![t] = Idle]
  /\ UNCHANGED <<proc, lease, heldBy, lock, svc, todo, notes, failed>>

-------------------------------------------------------------------------------
(* POST /response/terminate: the kill, then the table.                     *)

\* guard passes and psutil.Process(pid) binds the number to whatever runs.
TerminateBind(t, p) ==
  /\ th[t] = Idle
  /\ proc[p].alive
  /\ th' = [th EXCEPT ![t].pc = "killing", ![t].pid = p,
                      ![t].claim = proc[p].inc]
  /\ UNCHANGED <<proc, lease, heldBy, lock, svc, todo, notes, blocks, failed>>

\* terminate()/kill(): the bound process dies; one that is gone already, or
\* whose PID another process has, counts as killed too ("already_exited").
TerminateKill(t) ==
  LET p == th[t].pid IN
  /\ th[t].pc = "killing"
  /\ proc' = IF proc[p].alive /\ proc[p].inc = th[t].claim
             THEN [proc EXCEPT ![p] = Dead(@)]
             ELSE proc
  /\ th' = [th EXCEPT ![t].pc = "killed"]
  /\ UNCHANGED <<lease, heldBy, lock, svc, todo, notes, blocks, failed>>

\* TerminationError: the process survives and so does its lease.
TerminateRefused(t) ==
  /\ th[t].pc = "killing"
  /\ th' = [th EXCEPT ![t] = Idle]
  /\ UNCHANGED <<proc, lease, heldBy, lock, svc, todo, notes, blocks, failed>>

\* end_for_terminate: close, without a resume, whatever lease the PID is held
\* under by now.
TerminateClose(t) ==
  LET l == heldBy[th[t].pid] IN
  /\ th[t].pc = "killed"
  /\ lock = Nobody
  /\ IF l = NoLease THEN UNCHANGED tableVars ELSE End(l, "terminated")
  /\ th' = [th EXCEPT ![t] = [Idle EXCEPT !.pc = "logging", !.lease = l]]
  /\ UNCHANGED <<proc, lock, svc, todo, notes, blocks, failed>>

\* POST /response/trigger kills without telling the table.
TriggerKill(p) ==
  /\ proc[p].alive
  /\ proc' = [proc EXCEPT ![p] = Dead(@)]
  /\ UNCHANGED <<lease, heldBy, th, lock, svc, todo, notes, blocks, failed>>

-------------------------------------------------------------------------------
(* The clock, the reaper and the recorder.                                 *)

\* The lease's deadline passes.
Expire(l) ==
  /\ Held(l) \/ lease[l].state = "armed"
  /\ ~lease[l].expired
  /\ lease' = [lease EXCEPT ![l].expired = TRUE]
  /\ UNCHANGED <<proc, heldBy, th, lock, svc, todo, notes, blocks, failed>>

\* Not the code: a lease that ended meanwhile is reaped again.
ReapDueStale(l) ==
  /\ svc # "stopped" /\ lock = Nobody
  /\ lease[l].expired /\ lease[l].state # "armed"

\* Not the code: the reaper stops when the shutdown begins, not when it ends.
ReapDueWhileOpen(l) ==
  svc = "running" /\ lock = Nobody /\ Held(l) /\ lease[l].expired

\* reap, for one of the expired leases: a failure leaves it for the next pass.
\* stop() ends the reaper.
ReapDue(l) == svc # "stopped" /\ lock = Nobody /\ Held(l) /\ lease[l].expired

Reap(l) ==
  /\ ReapDue(l)
  /\ EndByResume(l)
  /\ notes' = Append(notes, l)
  /\ UNCHANGED <<th, lock, svc, todo, blocks, failed>>

ReapFails(l) ==
  /\ ReapDue(l)
  /\ ResumeRaises(l)
  /\ UNCHANGED <<proc, lease, heldBy, th, lock, svc, todo, notes, blocks>>

\* _record_loop: one queued lease becomes one block.
Record ==
  /\ notes # <<>>
  /\ svc # "stopped"
  /\ blocks' = [blocks EXCEPT ![Head(notes)] = @ + 1]
  /\ notes' = Tail(notes)
  /\ UNCHANGED <<proc, lease, heldBy, th, lock, svc, todo, failed>>

-------------------------------------------------------------------------------
(* shutdown: close, resume every held lease, stop.                         *)

ShutdownClose ==
  /\ svc = "running"
  /\ lock = Nobody
  /\ svc' = "closing"
  /\ UNCHANGED <<proc, lease, heldBy, th, lock, todo, notes, blocks, failed>>

\* resume_all takes the lock and keeps it until every lease has been tried.
ResumeAll ==
  /\ svc = "closing"
  /\ lock = Nobody
  /\ svc' = "resuming"
  /\ lock' = Shutdown
  /\ todo' = {l \in LeaseId : Held(l)}
  /\ UNCHANGED <<proc, lease, heldBy, th, notes, blocks, failed>>

ResumeNext(l) ==
  /\ svc = "resuming"
  /\ l \in todo
  /\ EndByResume(l)
  /\ todo' = todo \ {l}
  /\ notes' = Append(notes, l)
  /\ UNCHANGED <<th, lock, svc, blocks, failed>>

\* One lease's failure does not stop the others being resumed.
ResumeNextFails(l) ==
  /\ svc = "resuming"
  /\ l \in todo
  /\ ResumeRaises(l)
  /\ todo' = todo \ {l}
  /\ UNCHANGED <<proc, lease, heldBy, th, lock, svc, notes, blocks>>

\* Not the code: the first failure ends the pass.
ResumeAllGivesUp ==
  /\ svc = "resuming"
  /\ svc' = "resumed"
  /\ lock' = Nobody
  /\ UNCHANGED <<proc, lease, heldBy, th, todo, notes, blocks, failed>>

ResumeAllDone ==
  /\ svc = "resuming"
  /\ todo = {}
  /\ svc' = "resumed"
  /\ lock' = Nobody
  /\ UNCHANGED <<proc, lease, heldBy, th, todo, notes, blocks, failed>>

\* stop: the reaper ends, and the recorder once it has written what was
\* queued.  (The join gives up after 30 s: what is left then is not written.)
Stop ==
  /\ svc = "resumed"
  /\ svc' = "stopped"
  /\ UNCHANGED <<proc, lease, heldBy, th, lock, todo, notes, blocks, failed>>

-------------------------------------------------------------------------------
(* The operating system: processes exit and their PIDs are used again.     *)

Exit(p) ==
  /\ proc[p].alive
  /\ proc' = [proc EXCEPT ![p] = Dead(@)]
  /\ UNCHANGED <<lease, heldBy, th, lock, svc, todo, notes, blocks, failed>>

Spawn(p) ==
  /\ ~proc[p].alive
  /\ proc[p].inc < MaxInc
  /\ proc' = [proc EXCEPT ![p] = [inc |-> @.inc + 1, alive |-> TRUE,
                                  susp |-> 0]]
  /\ UNCHANGED <<lease, heldBy, th, lock, svc, todo, notes, blocks, failed>>

-------------------------------------------------------------------------------
Acquire(t) ==
  \/ \E p \in Pid, claim \in 0 .. MaxInc : AcquireEnter(t, p, claim)
  \/ AcquireRefused(t)
  \/ AcquireAlreadyHeld(t)
  \/ AcquireRebind(t)
  \/ \E l \in LeaseId : AcquireArm(t, l)
  \/ AcquireSuspend(t)
  \/ AcquireAbort(t)

Resume(t) ==
  \/ \E l \in LeaseId : ReleaseLease(t, l) \/ ReleaseFails(t, l)
  \/ \E p \in Pid : ReleasePid(t, p)

Terminate(t) ==
  \/ \E p \in Pid : TerminateBind(t, p)
  \/ TerminateKill(t)
  \/ TerminateRefused(t)
  \/ TerminateClose(t)

Housekeeping ==
  \/ \E l \in LeaseId : Expire(l) \/ Reap(l) \/ ReapFails(l)
  \/ Record

ShuttingDown ==
  \/ ShutdownClose \/ ResumeAll \/ ResumeAllDone \/ Stop
  \/ \E l \in LeaseId : ResumeNext(l) \/ ResumeNextFails(l)

OperatingSystem == \E p \in Pid : Exit(p) \/ Spawn(p) \/ TriggerKill(p)

Next ==
  \/ \E t \in Thread : Acquire(t) \/ Resume(t) \/ Terminate(t) \/ HandlerLogs(t)
  \/ Housekeeping
  \/ ShuttingDown
  \/ OperatingSystem

Spec == Init /\ [][Next]_vars

-------------------------------------------------------------------------------
(* Properties.                                                             *)

\* A process closed out as killed while it was in fact alive: what
\* end_for_terminate leaves behind when the PID was reused under it.
Stranded(p) ==
  \E l \in LeaseId :
    /\ lease[l].state = "terminated"
    /\ lease[l].pid = p
    /\ SameProcess(l)

\* _held and the lease states never drift apart: a lease is held exactly when
\* its PID's entry names it, through every race of caller, reaper, kill and
\* shutdown, so one PID is never under two leases and none is forgotten.
OneLeasePerPid ==
  /\ \A l \in LeaseId : Held(l) => heldBy[lease[l].pid] = l
  /\ \A p \in Pid : heldBy[p] # NoLease =>
       Held(heldBy[p]) /\ lease[heldBy[p]].pid = p

\* A held lease whose process runs has that process frozen: nothing resumes
\* it before the lease ends.
HeldIsFrozen ==
  \A l \in LeaseId : Held(l) /\ SameProcess(l) => proc[lease[l].pid].susp > 0

\* Suspensions never nest, so the single resume of the release path is enough
\* (leases.py, "One lease per PID").  A stranded process is the exception.
NeverNested == \A p \in Pid : proc[p].susp > 1 => Stranded(p)

\* A frozen process is frozen under a lease that is still held: when a lease
\* ends, its process runs or is gone.  A stranded process is the exception.
FrozenIsHeld ==
  \A p \in Pid : proc[p].susp > 0 =>
    \/ heldBy[p] # NoLease /\ SameProcess(heldBy[p])
    \/ Stranded(p)

\* The three together: a process is frozen, and once, exactly while a lease on
\* it is held.
FrozenWhileHeld == HeldIsFrozen /\ FrozenIsHeld /\ NeverNested

\* Once resume_all is through, the only leases left are those whose resume
\* raised: a suspend racing the shutdown lands before it or is refused.
ShutdownReleasesAll ==
  svc \in {"resumed", "stopped"} => \A l \in LeaseId : Held(l) => l \in failed

\* However a lease ends, at most one ledger block says so: reaper, handler,
\* kill and shutdown never both report it.
EndRecordedOnce == \A l \in LeaseId : blocks[l] <= 1

\* A suspend freezes only the process it vetted: where the request claimed a
\* creation time and it could be read, nothing newer is frozen, even when the
\* PID changes hands between the vetting and the suspend.
FreezesTheVetted ==
  [][\A p \in Pid : proc'[p].susp > proc[p].susp =>
       \E t \in Thread :
         /\ th[t].pc = "armed" /\ th[t].pid = p
         /\ lease[th[t].lease].inc = proc[p].inc
         /\ th[t].claim # 0 /\ lease[th[t].lease].start # 0
              => proc[p].inc <= th[t].claim]_vars

\* A lease that has ended never comes back and never changes how it ended.
EndsOnce ==
  [][\A l \in LeaseId : lease[l].state \in Ended =>
       lease'[l].state = lease[l].state]_vars

\* The reaper is certain: an expired lease is ended, unless the table stopped
\* (its resume is assumed not to raise for ever).  LeaseWatchdog states the
\* fairness this needs.
ExpiredEnds ==
  \A l \in LeaseId :
    Held(l) /\ lease[l].expired ~> ~Held(l) \/ svc = "stopped"

\* "each of which leaves the process running or gone, never frozen": a lease
\* that ended terminated has no live process behind it.
TerminatedIsGone ==
  \A l \in LeaseId : lease[l].state = "terminated" => ~SameProcess(l)
===============================================================================
