---------------------------- MODULE LeaseWatchdog ----------------------------
(***************************************************************************)
(* The lease table and its watchdog: services/response/lease_watchdog.py   *)
(* composed with LeaseTable.                                               *)
(*                                                                         *)
(* The watchdog is a second process.  The service tells it about a lease   *)
(* before the suspend (hold) and when the lease ends (drop), one line each *)
(* on a pipe; the child resumes what it still holds when the pipe is       *)
(* closed, when a twice-a-second check finds the service dead, or a while  *)
(* after a lease's own expiry.  Here the service may crash and be started  *)
(* again and the child may be killed, each at any step.                    *)
(*                                                                         *)
(* Assumed: the child reads a line well within its grace period (50 ms     *)
(* against 2 s), so a deadline never overtakes a line; a suspend call      *)
(* returns before its own lease is over; the child's resume does not fail; *)
(* a restarted service suspends nothing before the child of its            *)
(* predecessor has seen the pipe close.                                    *)
(***************************************************************************)
EXTENDS LeaseTable, SequencesExt

CONSTANTS
  MaxGen,   \* bound: how many watchdog children may be started
  MaxBoot,  \* bound: how many times the service may be started
  Faults    \* what may fail in one behaviour: a choice of sets of "service" (it
            \* crashes and is started again) and "watchdog" (the child is killed)

ASSUME IdsAssumption == LeaseId \subseteq Nat
ASSUME FaultsAssumption == Faults \subseteq SUBSET {"service", "watchdog"}

VARIABLES
  child,   \* the watchdog children, in the order they were started
  cur,     \* Watchdog._pipe and _watch: the child the service talks to
  wdHeld,  \* Watchdog._held: what a respawned child is told
  told,    \* leases whose hold() returned (where acquire has got to)
  up,      \* the service runs
  boots,   \* how often it was started
  faults   \* what may fail in this behaviour; never changes

watchVars == <<child, cur, wdHeld, told>>
runVars   == <<up, boots, faults>>
allVars   == <<vars, watchVars, runVars>>

NoChild == 0

-------------------------------------------------------------------------------
\* A line on the child's stdin.
Line == [op : {"hold", "drop"}, lease : LeaseId]

\* One child: inbox is what the pipe holds for it, held its own table, boot
\* the service it watches (--parent).
Child == [st    : {"up", "done", "killed"},
          inbox : Seq(Line),
          eof   : BOOLEAN,
          held  : SUBSET LeaseId,
          boot  : Nat]

WatchTypeOK ==
  /\ TypeOK
  /\ child \in Seq(Child)
  /\ cur \in 0 .. Len(child)
  /\ wdHeld \in SUBSET LeaseId
  /\ told \in SUBSET LeaseId
  /\ up \in BOOLEAN
  /\ boots \in 1 .. MaxBoot
  /\ faults \in Faults

\* A line for every lease of a set, in some order.
Lines(op, leases) ==
  [i \in 1 .. Cardinality(leases) |-> [op |-> op, lease |-> SetToSeq(leases)[i]]]

\* Not the code: a respawned child is not told what is held.
NewChildUnarmed(b, leases) ==
  [st |-> "up", inbox |-> <<>>, eof |-> FALSE, held |-> {}, boot |-> b]

\* Watchdog.start: a new child, told about whatever is still held.
NewChild(b, leases) == [st |-> "up", inbox |-> Lines("hold", leases),
                        eof |-> FALSE, held |-> {}, boot |-> b]

\* Watchdog.alive.
Alive == cur # NoChild /\ child[cur].st = "up"

WatchInit ==
  /\ Init
  /\ child = <<NewChild(1, {})>>
  /\ cur = 1
  /\ wdHeld = {}
  /\ told = {}
  /\ up = TRUE
  /\ boots = 1
  /\ faults \in Faults

-------------------------------------------------------------------------------
(* The service's side.                                                     *)

\* Write lines to the child, if it is there to read them.
Send(lines) ==
  child' = IF Alive THEN [child EXCEPT ![cur].inbox = @ \o lines] ELSE child

\* Not the code: the child is not told that a lease ended.
DropUnsent(leases) ==
  /\ wdHeld' = wdHeld \ leases
  /\ UNCHANGED <<child, cur, told>>

\* Watchdog.drop for the leases a step ends.
Drop(leases) ==
  /\ wdHeld' = wdHeld \ leases
  /\ Send(Lines("drop", leases))
  /\ UNCHANGED <<cur, told>>

\* The leases this step ends: LeaseTable._end drops each of them.
EndedNow == {l \in LeaseId : Held(l) /\ ~Held(l)'}

\* The steps of the table that call the watchdog only from _end.
TableStep ==
  /\ \/ \E t \in Thread :
          \/ \E p \in Pid, claim \in 0 .. MaxInc : AcquireEnter(t, p, claim)
          \/ AcquireRefused(t) \/ AcquireAlreadyHeld(t) \/ AcquireRebind(t)
          \/ Resume(t) \/ Terminate(t) \/ HandlerLogs(t)
     \/ Housekeeping
     \/ ShutdownClose \/ ResumeAll \/ ResumeAllDone
     \/ \E l \in LeaseId : ResumeNext(l) \/ ResumeNextFails(l)
  /\ Drop(EndedNow)
  /\ UNCHANGED runVars

\* acquire calls start before it takes the lock: a dead child is replaced and
\* told about every lease the client still has.
Respawn(t) ==
  /\ th[t].pc = "entered"
  /\ ~Alive
  /\ Len(child) < MaxGen
  /\ child' = Append(child, NewChild(boots, wdHeld))
  /\ cur' = Len(child')
  /\ UNCHANGED <<vars, wdHeld, told, runVars>>

\* The lease ids are given out in their order.
Arm(t, l) ==
  /\ AcquireArm(t, l)
  /\ \A m \in LeaseId : m < l => lease[m].state # "free"

\* hold, inside acquire: the client remembers the lease and writes the line.
ArmTold(t, l) ==
  /\ Arm(t, l)
  /\ Alive
  /\ wdHeld' = (wdHeld \ EndedNow) \cup {l}
  /\ told' = told \cup {l}
  /\ Send(Append(Lines("drop", EndedNow), [op |-> "hold", lease |-> l]))
  /\ UNCHANGED <<cur, runVars>>

\* hold finds the child dead: the suspend will be refused.
ArmUntold(t, l) ==
  /\ Arm(t, l)
  /\ ~Alive
  /\ Drop(EndedNow)
  /\ UNCHANGED runVars

\* The child dies between hold's alive() and its write: hold raises, but the
\* client has already noted the lease in _held.
ArmBreaks(t, l) ==
  /\ "watchdog" \in faults
  /\ Arm(t, l)
  /\ Alive
  /\ wdHeld' = (wdHeld \ EndedNow) \cup {l}
  /\ child' = [child EXCEPT ![cur].st = "killed"]
  /\ UNCHANGED <<cur, told, runVars>>

\* The suspend happens only after hold returned.
SuspendTold(t) ==
  /\ AcquireSuspend(t)
  /\ th[t].lease \in told
  /\ UNCHANGED <<watchVars, runVars>>

\* A failed suspend drops the lease; a refused hold has nothing to drop.
Abort(t) ==
  /\ AcquireAbort(t)
  /\ Drop({th[t].lease} \cap told)
  /\ UNCHANGED runVars

-------------------------------------------------------------------------------
(* Crash and restart.                                                      *)

\* The service's process is gone: its table, its threads and its queue with
\* it, whatever they were doing; its end of the pipe closes.
ServiceGone ==
  /\ up
  /\ up' = FALSE
  /\ lease' = [l \in LeaseId |->
                 IF lease[l].state \in {"armed", "held"}
                 THEN [lease[l] EXCEPT !.state = "lost"] ELSE lease[l]]
  /\ heldBy' = [p \in Pid |-> NoLease]
  /\ th' = [t \in Thread |-> Idle]
  /\ lock' = Nobody
  /\ svc' = "stopped"
  /\ todo' = {}
  /\ notes' = <<>>
  /\ child' = IF cur = NoChild THEN child ELSE [child EXCEPT ![cur].eof = TRUE]
  /\ cur' = NoChild
  /\ wdHeld' = {}
  /\ told' = {}
  /\ UNCHANGED <<proc, blocks, failed, boots, faults>>

\* Killed outright, at any step.
Crash == "service" \in faults /\ ServiceGone

\* Stopped in order: stop and Watchdog.close, then the process exits.
Close == svc = "resumed" /\ ServiceGone

\* The service starts again with an empty table and a child of its own, or
\* without one if it could not be started.
Boot ==
  /\ ~up
  /\ "service" \in faults /\ boots < MaxBoot
  /\ \A g \in DOMAIN child : child[g].st # "up"
  /\ up' = TRUE
  /\ boots' = boots + 1
  /\ svc' = "running"
  /\ \/ UNCHANGED <<child, cur>>
     \/ /\ Len(child) < MaxGen
        /\ child' = Append(child, NewChild(boots', {}))
        /\ cur' = Len(child')
  /\ UNCHANGED <<proc, lease, heldBy, th, lock, todo, notes, blocks, failed,
                 wdHeld, told, faults>>

-------------------------------------------------------------------------------
(* The child's loop.                                                       *)

\* _same_process: the start time, where the service could read it.  Without
\* one the image decides, and another process may run the same image.
Matches(l) ==
  /\ proc[lease[l].pid].alive
  /\ lease[l].start # 0 => proc[lease[l].pid].inc = lease[l].start

\* Resume the process behind every entry of a set, each once.
ResumeEntries(leases) ==
  proc' = [p \in Pid |->
    LET n == Cardinality({l \in leases : lease[l].pid = p /\ Matches(l)})
        s == proc[p].susp IN
    [proc[p] EXCEPT !.susp = IF n = 0 THEN s
                             ELSE IF Nests /\ s > n THEN s - n ELSE 0]]

ChildRead(g) ==
  /\ child[g].st = "up"
  /\ child[g].inbox # <<>>
  /\ LET line == Head(child[g].inbox) IN
     child' = [child EXCEPT
       ![g].inbox = Tail(@),
       ![g].held = IF line.op = "hold" THEN @ \cup {line.lease}
                   ELSE @ \ {line.lease}]
  /\ UNCHANGED <<vars, cur, wdHeld, told, runVars>>

\* Not the code: the child exits and resumes nothing.
JustExit(g) ==
  /\ child[g].st = "up"
  /\ child' = [child EXCEPT ![g].st = "done", ![g].held = {}]
  /\ UNCHANGED <<vars, cur, wdHeld, told, runVars>>

\* The child resumes all it holds and exits.
ResumeAndExit(g) ==
  /\ child[g].st = "up"
  /\ ResumeEntries(child[g].held)
  /\ child' = [child EXCEPT ![g].st = "done", ![g].held = {}]
  /\ UNCHANGED <<lease, heldBy, th, lock, svc, todo, notes, blocks, failed,
                 cur, wdHeld, told, runVars>>

\* EOF comes after every line in the pipe.
ChildEof(g) ==
  /\ child[g].eof
  /\ child[g].inbox = <<>>
  /\ ResumeAndExit(g)

\* The parent check does not look at the pipe first.
ChildParentGone(g) ==
  /\ ~up \/ child[g].boot # boots
  /\ ResumeAndExit(g)

\* grace seconds after a lease's own expiry (counted by the child's clock
\* also for a lease the service no longer has).
ChildDeadline(g, l) ==
  /\ child[g].st = "up"
  /\ child[g].inbox = <<>>
  /\ l \in child[g].held
  /\ lease[l].state # "armed"
  /\ Held(l) => lease[l].expired
  /\ ResumeEntries({l})
  /\ child' = [child EXCEPT ![g].held = @ \ {l}]
  /\ UNCHANGED <<lease, heldBy, th, lock, svc, todo, notes, blocks, failed,
                 cur, wdHeld, told, runVars>>

ChildKilled(g) ==
  /\ "watchdog" \in faults
  /\ child[g].st = "up"
  /\ child' = [child EXCEPT ![g].st = "killed"]
  /\ UNCHANGED <<vars, cur, wdHeld, told, runVars>>

-------------------------------------------------------------------------------
ServiceStep ==
  /\ up
  /\ \/ TableStep
     \/ \E t \in Thread :
          \/ Respawn(t) \/ SuspendTold(t) \/ Abort(t)
          \/ \E l \in LeaseId : ArmTold(t, l) \/ ArmUntold(t, l) \/ ArmBreaks(t, l)

ChildStep ==
  \E g \in DOMAIN child :
    \/ ChildRead(g) \/ ChildEof(g) \/ ChildParentGone(g) \/ ChildKilled(g)
    \/ \E l \in LeaseId : ChildDeadline(g, l)

WatchNext ==
  \/ ServiceStep
  \/ Close
  \/ Crash
  \/ Boot
  \/ ChildStep
  \/ OperatingSystem /\ UNCHANGED <<watchVars, runVars>>

WatchSpec == WatchInit /\ [][WatchNext]_allVars

\* A step of the running service's table that may end leases.
InService(A) == up /\ A /\ Drop(EndedNow) /\ UNCHANGED runVars

\* Time passes; the reaper, a thread inside the lock and the child keep
\* running, in a process that is there.  Callers, faults and the shutdown owe
\* nothing.
WatchFairness ==
  /\ \A l \in LeaseId :
       /\ WF_allVars(InService(Expire(l)))
       /\ WF_allVars(InService(Reap(l)))
       /\ WF_allVars(InService(ResumeNext(l)))
  /\ \A t \in Thread : WF_allVars(up /\ Abort(t))
  /\ WF_allVars(InService(ResumeAllDone))
  /\ WF_allVars(Close)
  /\ \A g \in 1 .. MaxGen :
       /\ WF_allVars(g \in DOMAIN child /\ ChildRead(g))
       /\ WF_allVars(g \in DOMAIN child /\ ChildEof(g))

WatchFairSpec == WatchSpec /\ WatchFairness

-------------------------------------------------------------------------------
(* Properties.                                                             *)

\* Child g will resume lease l's process at the latest when its pipe closes.
Covers(g, l) ==
  LET inbox == child[g].inbox
      about == {i \in DOMAIN inbox : inbox[i].lease = l} IN
  /\ child[g].st = "up"
  /\ IF about = {} THEN l \in child[g].held
     ELSE inbox[Max(about)].op = "hold"

\* Lease l's hold was still in the pipe when its child exited.
Unread(l) ==
  \E g \in DOMAIN child :
    /\ child[g].st = "done"
    /\ [op |-> "hold", lease |-> l] \in ToSet(child[g].inbox)

\* Somebody will resume the process under PID p.
Accounted(p) ==
  \/ heldBy[p] # NoLease /\ SameProcess(heldBy[p])
  \/ \E l \in LeaseId, g \in DOMAIN child :
       lease[l].pid = p /\ SameProcess(l) /\ Covers(g, l)

\* "Nothing stays frozen because Response died": wherever the service fails, a
\* frozen process has a lease or a child that will resume it, while no child is
\* killed, and but for the holds a child exits without reading: its parent
\* check does not drain the pipe (lease_watchdog.py:346-351).
FrozenIsCoveredOnceRead == "watchdog" \notin faults =>
  \A p \in Pid : proc[p].susp > 0 =>
    \/ Stranded(p)
    \/ Accounted(p)
    \/ \E l \in LeaseId : lease[l].pid = p /\ SameProcess(l) /\ Unread(l)

\* While a lease runs, nothing but its own end resumes its process.
RunningLeaseIsFrozen ==
  \A l \in LeaseId : Held(l) /\ SameProcess(l) /\ ~lease[l].expired =>
    proc[lease[l].pid].susp > 0

\* Told before frozen, and told again: the client's table has every lease the
\* service holds, and the child that is there will resume its process - so no
\* crash leaves a frozen process to nobody, and a replacement of a killed
\* child is told about every lease that runs (start: "re-arming it").
HeldIsKnown ==
  \A l \in LeaseId : Held(l) =>
    /\ l \in wdHeld
    /\ ~lease[l].expired /\ (Alive \/ "watchdog" \notin faults) => Covers(cur, l)

\* While a service that has not crashed runs, a frozen process is one it holds,
\* however often the child dies, is replaced and resumes processes of its own
\* accord.
FrozenIsHeldWhileUp == up /\ boots = 1 => FrozenIsHeld

\* "A crash must never leave a process frozen": whenever the service dies, a
\* frozen process runs again (or is gone) in the end, but for the holds the
\* child exits without reading.
NothingStaysFrozen ==
  \A p \in Pid :
    []<>(\/ proc[p].susp = 0
         \/ Stranded(p)
         \/ \E l \in LeaseId : lease[l].pid = p /\ SameProcess(l) /\ Unread(l))
===============================================================================
