---------------------------- MODULE SuspendPolicy ----------------------------
(***************************************************************************)
(* Freeze-first, the Monitor's side: services/monitor/suspend_policy.py    *)
(* with the threads of app.py and pipeline.py that call it.                *)
(*                                                                         *)
(* A question ("who wrote this file?") is opened by a correlation lane and *)
(* re-asked by the pending thread as audit records arrive.  The first      *)
(* answer that names one writer freezes it: a Hold is registered, and a    *)
(* thread of its own asks the Response service for a lease.  When the      *)
(* question closes, a kill worker (one per PID) or the escalation writer   *)
(* calls on_close, which turns the freeze into a kill or undoes it.        *)
(* /monitor/stop and the shutdown pause the policy and release every hold. *)
(*                                                                         *)
(* Everything a method does under SuspendPolicy._lock is one step; a Hold  *)
(* is locked (Hold.lock) over several.  The Response service appears here  *)
(* as the leases it holds and the requests it may answer late: LeaseTable  *)
(* is its own model.  Time is abstract: a lease may end whenever it is     *)
(* held, and a cooldown or a backoff may be running or over.               *)
(***************************************************************************)
EXTENDS Naturals, FiniteSets

CONSTANTS
  Incident,    \* questions, by the incident they belong to
  Pid,         \* processes that write
  Hold,        \* Hold objects, numbered: bounds how many are ever created
  LeaseId,     \* bounds how many leases the Response service grants; numbered
  NoPid,       \* an answer that names nobody to kill
  NoHold,
  NoLease,
  Retires      \* may a question be closed out of turn (full queue, stop)?

\* What the constants must satisfy; MCFreeze assumes it.
PolicyAssumption ==
  /\ NoPid \notin Pid
  /\ Hold \subseteq Nat /\ NoHold \notin Hold
  /\ LeaseId \subseteq Nat /\ NoLease \notin LeaseId
  /\ Retires \in BOOLEAN

VARIABLES
  q,        \* the questions: how far each is, and the writers known to it
  ask,      \* where on_first_answer is, for each question
  closer,   \* where the closing of each question is (_close and the kill)
  hold,     \* the Hold objects
  holds,    \* _holds: the hold of each PID
  link,     \* _by_incident: the hold each question will close
  handled,  \* _handled: the (question, PID) pairs already judged
  th,       \* the suspend thread of each hold
  stop,     \* _paused (or _closing) and release_all
  lease,    \* the Response service's leases
  late,     \* suspend requests nobody waits for that may yet be served
  dead      \* processes a kill has ended

questionVars == <<q, ask, closer>>
policyVars   == <<hold, holds, link, handled>>
serviceVars  == <<lease, late, dead>>
vars == <<q, ask, closer, hold, holds, link, handled, th, stop, lease,
          late, dead>>

-------------------------------------------------------------------------------
(* Types.                                                                  *)

\* answer: the PID whose kill the closing answer authorises.
Question == [stage   : {"new", "open", "closing"},
             writers : SUBSET Pid,
             answer  : Pid \cup {NoPid}]

Asking == [pc : {"idle", "looked", "assessing"}, pid : Pid \cup {NoPid},
           sole : BOOLEAN]

\* hold: the hold the close found; busy: that hold was locked for longer than
\* a close waits.
Closer == [pc    : {"idle", "waiting", "resuming", "killing", "done"},
           hold  : Hold \cup {NoHold},
           busy  : BOOLEAN]

\* "free" is a Hold not created yet.  disp is what the disposition's record
\* says; asked and kill are close_requested and kill_decided.
HoldState == [st    : {"free", "requesting", "held", "uncertain", "refused",
                       "terminating", "ended"},
              pid   : Pid \cup {NoPid},
              lease : LeaseId \cup {NoLease},
              owned : BOOLEAN,
              disp  : {"none", "deferred", "terminate", "resumed", "failed",
                       "left", "expired"},
              asked : BOOLEAN,
              kill  : BOOLEAN]

SuspenderAt == {"idle", "sent", "replied", "resuming", "done"}

\* "idle": neither _paused nor _closing is set.
Stopping == [pc     : {"idle", "paused", "releasing", "stopped"},
             todo   : SUBSET Hold,
             cur    : Hold \cup {NoHold},
             failed : SUBSET Hold]

Lease == [st : {"free", "held", "ended"}, pid : Pid \cup {NoPid}]

TypeOK ==
  /\ q \in [Incident -> Question]
  /\ ask \in [Incident -> Asking]
  /\ closer \in [Incident -> Closer]
  /\ hold \in [Hold -> HoldState]
  /\ holds \in [Pid -> Hold \cup {NoHold}]
  /\ link \in [Incident -> Hold \cup {NoHold}]
  /\ handled \in SUBSET (Incident \X Pid)
  /\ th \in [Hold -> SuspenderAt]
  /\ stop \in Stopping
  /\ lease \in [LeaseId -> Lease]
  /\ late \in SUBSET Hold
  /\ dead \in SUBSET Pid

NotAsking  == [pc |-> "idle", pid |-> NoPid, sole |-> FALSE]

\* A Hold as its constructor leaves it.
NewHold(p) == [st |-> "requesting", pid |-> p, lease |-> NoLease,
               owned |-> TRUE, disp |-> "none", asked |-> FALSE,
               kill |-> FALSE]

Init ==
  /\ q = [i \in Incident |-> [stage |-> "new", writers |-> {},
                              answer |-> NoPid]]
  /\ ask = [i \in Incident |-> NotAsking]
  /\ closer = [i \in Incident |-> [pc |-> "idle", hold |-> NoHold,
                                   busy |-> FALSE]]
  /\ hold = [h \in Hold |-> [NewHold(NoPid) EXCEPT !.st = "free"]]
  /\ holds = [p \in Pid |-> NoHold]
  /\ link = [i \in Incident |-> NoHold]
  /\ handled = {}
  /\ th = [h \in Hold |-> "idle"]
  /\ stop = [pc |-> "idle", todo |-> {}, cur |-> NoHold, failed |-> {}]
  /\ lease = [l \in LeaseId |-> [st |-> "free", pid |-> NoPid]]
  /\ late = {}
  /\ dead = {}

-------------------------------------------------------------------------------
(* Holds.                                                                  *)

Active     == {"requesting", "held", "uncertain"}
Releasable == {"held", "uncertain", "terminating"}

\* The hold a PID's questions join, if there is one.
ActiveOn(p) == holds[p] # NoHold /\ hold[holds[p]].st \in Active

\* The suspend thread is at work: it has the hold's lock throughout.
Suspending(h) == th[h] \notin {"idle", "done"}

Running == stop.pc = "idle"

\* Hold.lock is taken: by the suspend thread, by a close or by release_all.
Locked(h) ==
  \/ Suspending(h)
  \/ \E i \in Incident : closer[i].pc = "resuming" /\ closer[i].hold = h
  \/ stop.cur = h

\* Not the code: whatever hold the PID has is removed.
ClearedAnyway(h) == [holds EXCEPT ![hold[h].pid] = NoHold]

\* _holds without h, if it is the one its PID has.
Cleared(h) == [holds EXCEPT ![hold[h].pid] = IF @ = h THEN NoHold ELSE @]

\* Hold.stale: a held lease has run out at the Response service before the
\* policy, which counts from the reply, finds it stale; of an uncertain hold
\* nobody knows.
MayBeStale(h) ==
  \/ hold[h].st = "held" /\ lease[hold[h].lease].st # "held"
  \/ hold[h].st = "uncertain"

\* _end_stale, under the lock.
EndStale(h) ==
  /\ hold' = [hold EXCEPT ![h].st = "ended",
                          ![h].disp = IF @ = "none" THEN "expired" ELSE @]
  /\ holds' = Cleared(h)

-------------------------------------------------------------------------------
(* The Response service, as its answers show it.                           *)

LeasesOn(p) == {l \in LeaseId : lease[l].st = "held" /\ lease[l].pid = p}

EndLeases(L) ==
  lease' = [l \in LeaseId |-> IF l \in L /\ lease[l].st = "held"
                              THEN [st |-> "ended", pid |-> NoPid]
                              ELSE lease[l]]

\* What a resume of hold h ends: its lease, or, when the suspend's answer was
\* lost, whatever lease its PID is held under.
ResumeTarget(h) ==
  IF hold[h].lease # NoLease THEN {hold[h].lease} ELSE LeasesOn(hold[h].pid)

Grant(l, p) ==
  /\ lease[l].st = "free" /\ \A m \in LeaseId : m < l => lease[m].st # "free"
  /\ LeasesOn(p) = {}
  /\ p \notin dead
  /\ lease' = [lease EXCEPT ![l] = [st |-> "held", pid |-> p]]

\* Another client (an operator) suspends the process.
OtherSuspends(p, l) ==
  /\ Grant(l, p)
  /\ UNCHANGED <<questionVars, policyVars, th, stop, late, dead>>

\* The lease expires, or its owner or the service ends it.
LeaseEnds(l) ==
  /\ lease[l].st = "held"
  /\ EndLeases({l})
  /\ UNCHANGED <<questionVars, policyVars, th, stop, late, dead>>

\* A suspend nobody waits for any more is, or was, carried out.
ServeLate(h, l) ==
  /\ h \in late
  /\ late' = late \ {h}
  /\ Grant(l, hold[h].pid)
  /\ UNCHANGED <<questionVars, policyVars, th, stop, dead>>

-------------------------------------------------------------------------------
(* Questions: records arrive, the lane opens, the pending thread closes.   *)

Sole(i) == Cardinality(q[i].writers) = 1

\* An audit record shows p wrote the file.
RecordArrives(i, p) ==
  /\ q[i].stage \in {"new", "open"}
  /\ q' = [q EXCEPT ![i].writers = @ \cup {p}]
  /\ UNCHANGED <<ask, closer, policyVars, th, stop, serviceVars>>

\* _correlate, once on_first_answer has returned: the question is opened.
OpenQuestion(i) ==
  /\ q[i].stage = "new"
  /\ ask[i].pc = "idle"
  /\ q' = [q EXCEPT ![i].stage = "open"]
  /\ UNCHANGED <<ask, closer, policyVars, th, stop, serviceVars>>

\* The pending thread is inside on_first_answer for some question.
SweeperBusy == \E i \in Incident : q[i].stage # "new" /\ ask[i].pc # "idle"

\* sweep: two writers, or the horizon has closed.  The kill is authorised only
\* for the one writer, and only if its identity still holds.
CloseQuestion(i) ==
  /\ q[i].stage = "open"
  /\ ~SweeperBusy
  /\ \E a \in {NoPid} \cup (IF Sole(i) THEN q[i].writers ELSE {}) :
       q' = [q EXCEPT ![i].stage = "closing", ![i].answer = a]
  /\ UNCHANGED <<ask, closer, policyVars, th, stop, serviceVars>>

\* add or stop closes the question out of turn, whatever the pending thread is
\* doing with it.
RetireQuestion(i) ==
  /\ Retires
  /\ q[i].stage = "open"
  /\ q' = [q EXCEPT ![i].stage = "closing"]
  /\ UNCHANGED <<ask, closer, policyVars, th, stop, serviceVars>>

-------------------------------------------------------------------------------
(* on_first_answer.                                                        *)

\* The checks made before the lock.  The lane asks with its first answer, the
\* pending thread with every re-ask that names a writer: of several writers,
\* the one that wrote last before the event.
Look(i, p) ==
  /\ ask[i].pc = "idle"
  /\ p \in q[i].writers
  /\ \/ q[i].stage = "new" /\ Sole(i)
     \/ q[i].stage = "open" /\ ~SweeperBusy
  /\ Running
  /\ <<i, p>> \notin handled
  /\ ask' = [ask EXCEPT ![i] = [pc |-> "looked", pid |-> p, sole |-> Sole(i)]]
  /\ UNCHANGED <<q, closer, policyVars, th, stop, serviceVars>>

Leave(i) == ask' = [ask EXCEPT ![i] = NotAsking]

Assess(i) == ask' = [ask EXCEPT ![i].pc = "assessing"]

\* The first locked section finds the writer held: the question joins.
Join(i) ==
  LET p == ask[i].pid IN
  /\ ask[i].pc = "looked"
  /\ ActiveOn(p)
  /\ link' = [link EXCEPT ![i] = holds[p]]
  /\ handled' = handled \cup {<<i, p>>}
  /\ Leave(i)
  /\ UNCHANGED <<q, closer, hold, holds, th, stop, serviceVars>>

\* ... or held under a lease that has run out: the hold is ended, and the
\* cooldown that began when the lease ran out sends this answer away or is over.
FindStale(i) ==
  LET h == holds[ask[i].pid] IN
  /\ ask[i].pc = "looked"
  /\ h # NoHold
  /\ MayBeStale(h)
  /\ EndStale(h)
  /\ Leave(i) \/ Assess(i)
  /\ UNCHANGED <<q, closer, link, handled, th, stop, serviceVars>>

\* ... or not held: sent away by a cooldown (after a resume or a refusal) or a
\* backoff (after a failure of the service); else assessed.
Consider(i) ==
  LET p == ask[i].pid IN
  /\ ask[i].pc = "looked"
  /\ ~ActiveOn(p)
  /\ Leave(i) \/ Assess(i)
  /\ UNCHANGED <<q, closer, policyVars, th, stop, serviceVars>>

\* assess_suspend says no, or the Monitor was stopped meanwhile.
Decline(i) ==
  /\ ask[i].pc = "assessing"
  /\ handled' = handled \cup {<<i, ask[i].pid>>}
  /\ Leave(i)
  /\ UNCHANGED <<q, closer, hold, holds, link, th, stop, serviceVars>>

\* assess_suspend says yes, and nothing was stopped meanwhile.
MayFreeze(i) ==
  /\ ask[i].pc = "assessing"
  /\ ask[i].sole
  /\ Running

\* Another lane has registered a hold since the first locked section.
JoinAfterAll(i) ==
  LET p == ask[i].pid IN
  /\ MayFreeze(i)
  /\ ActiveOn(p)
  /\ link' = [link EXCEPT ![i] = holds[p]]
  /\ handled' = handled \cup {<<i, p>>}
  /\ Leave(i)
  /\ UNCHANGED <<q, closer, hold, holds, th, stop, serviceVars>>

\* The hold is registered, locked, and its thread started.
Register(i, h) ==
  LET p == ask[i].pid IN
  /\ MayFreeze(i)
  /\ ~ActiveOn(p)
  /\ hold[h].st = "free" /\ \A g \in Hold : g < h => hold[g].st # "free"
  /\ hold' = [hold EXCEPT ![h] = NewHold(p)]
  /\ holds' = [holds EXCEPT ![p] = h]
  /\ link' = [link EXCEPT ![i] = h]
  /\ th' = [th EXCEPT ![h] = "sent"]
  /\ handled' = handled \cup {<<i, p>>}
  /\ Leave(i)
  /\ UNCHANGED <<q, closer, stop, serviceVars>>

-------------------------------------------------------------------------------
(* The suspend thread: _suspend_and_annotate.                              *)

Step(h, pc) == th' = [th EXCEPT ![h] = pc]

\* _failed: the horizon had closed, the service was not reached, or it refused.
\* Nothing was suspended and the thread has nothing more to do.
Failed(h) ==
  /\ th[h] = "sent"
  /\ hold' = [hold EXCEPT ![h].st = "refused"]
  /\ holds' = Cleared(h)
  /\ Step(h, "done")
  /\ UNCHANGED <<questionVars, link, handled, stop, serviceVars>>

\* _suspend: the reply names a lease, a new one or (already_held, not ours) the
\* one the process was under.
Replied(h, l, owned) ==
  /\ th[h] = "sent"
  /\ hold' = [hold EXCEPT ![h].st = "held", ![h].lease = l,
                          ![h].owned = owned]
  /\ Step(h, "replied")
  /\ UNCHANGED <<questionVars, holds, link, handled, stop, late, dead>>

Granted(h, l) == Replied(h, l, TRUE) /\ Grant(l, hold[h].pid)

AlreadyHeld(h, l) ==
  /\ Replied(h, l, FALSE)
  /\ l \in LeasesOn(hold[h].pid)
  /\ UNCHANGED lease

\* _uncertain: the request went out and no answer came.  It may have been
\* served, may yet be, or never.
SuspendTimesOut(h) ==
  /\ th[h] = "sent"
  /\ hold' = [hold EXCEPT ![h].st = "uncertain"]
  /\ late' = late \cup {h}
  /\ Step(h, "replied")
  /\ UNCHANGED <<questionVars, holds, link, handled, stop, lease, dead>>

\* Not the code: a close that is not a kill is acted on, a kill or not.
UndoDueAlways(h) == hold[h].asked /\ hold[h].st \in {"held", "uncertain"}

\* Not the code: nothing is undone when the suspend's answer was lost.
UndoDueIfHeld(h) == hold[h].asked /\ ~hold[h].kill /\ hold[h].st = "held"

\* A close that was not a kill came while the request was in flight, no kill
\* did, and the process may be frozen.
UndoDue(h) ==
  /\ hold[h].asked
  /\ ~hold[h].kill
  /\ hold[h].st \in {"held", "uncertain"}

\* _after_reply, when there is nothing to undo: a kill that came meanwhile has
\* gone out, without a lease.
AfterReply(h) ==
  /\ th[h] = "replied"
  /\ ~UndoDue(h)
  /\ hold' = IF hold[h].kill /\ hold[h].st = "held"
             THEN [hold EXCEPT ![h].st = "terminating"] ELSE hold
  /\ Step(h, "done")
  /\ UNCHANGED <<questionVars, holds, link, handled, stop, serviceVars>>

\* ... and when there is: the lease is left to expire if it is not ours.
AfterReplyUndo(h) ==
  /\ th[h] = "replied"
  /\ UndoDue(h)
  /\ IF hold[h].owned
     THEN UNCHANGED hold /\ Step(h, "resuming")
     ELSE /\ hold' = [hold EXCEPT ![h].st = "ended", ![h].disp = "left"]
          /\ Step(h, "done")
  /\ UNCHANGED <<questionVars, holds, link, handled, stop, serviceVars>>

-------------------------------------------------------------------------------
(* _resume, from its request to the disposition its caller records.        *)

ResumeSucceeds(h) ==
  /\ EndLeases(ResumeTarget(h))
  /\ hold' = [hold EXCEPT ![h].st = "ended", ![h].disp = "resumed"]
  /\ holds' = Cleared(h)

\* An error or no answer: the lease may have been ended all the same.  The
\* hold stays what it is, for release_all, unless it has gone stale.
ResumeFails(h) ==
  /\ UNCHANGED lease \/ EndLeases(ResumeTarget(h))
  /\ \/ /\ MayBeStale(h)
        /\ hold' = [hold EXCEPT ![h].st = "ended", ![h].disp = "expired"]
        /\ holds' = Cleared(h)
     \/ /\ hold' = [hold EXCEPT ![h].disp = "failed"]
        /\ UNCHANGED holds

Resume(h) == ResumeSucceeds(h) \/ ResumeFails(h)

ThreadResumes(h) ==
  /\ th[h] = "resuming"
  /\ Resume(h)
  /\ Step(h, "done")
  /\ UNCHANGED <<questionVars, link, handled, stop, late, dead>>

-------------------------------------------------------------------------------
(* on_close, on a kill worker or the escalation writer, and the kill.      *)

\* Answers that kill one PID share a lane, all others the writer: one question
\* of each is out at a time.
ThreadFree(i) ==
  \A j \in Incident :
    q[j].answer = q[i].answer => closer[j].pc \in {"idle", "done"}

Begins(i) == q[i].stage = "closing" /\ closer[i].pc = "idle" /\ ThreadFree(i)

\* Not the code: the answer's authority is not asked for.
AfterCloseKill(i) == "killing"

\* _close is over: the kill request goes out if the answer authorises one.
AfterClose(i) == IF q[i].answer = NoPid THEN "done" ELSE "killing"

\* The question holds no lease.
CloseNothing(i) ==
  /\ Begins(i)
  /\ link[i] = NoHold
  /\ closer' = [closer EXCEPT ![i].pc = AfterClose(i)]
  /\ UNCHANGED <<q, ask, policyVars, th, stop, serviceVars>>

\* The hold is popped from _by_incident.
Pop(i) == link' = [link EXCEPT ![i] = NoHold]

\* _close_kill: never waits.  A request in flight is told not to be undone and
\* the kill carries no lease; nor does it when the hold came to nothing or was
\* decided by another question.
CloseKill(i) ==
  LET h == link[i] IN
  /\ Begins(i)
  /\ h # NoHold
  /\ q[i].answer = hold[h].pid
  /\ Pop(i)
  /\ IF \/ hold[h].st = "refused"
        \/ hold[h].disp # "none" /\ hold[h].st # "requesting"
     THEN UNCHANGED hold
     ELSE IF hold[h].st = "requesting"
     THEN hold' = [hold EXCEPT ![h].kill = TRUE, ![h].disp = "terminate"]
     ELSE hold' = [hold EXCEPT ![h].st = "terminating",
                               ![h].disp = "terminate"]
  /\ closer' = [closer EXCEPT ![i].pc = "killing", ![i].hold = h]
  /\ UNCHANGED <<q, ask, holds, handled, th, stop, serviceVars>>

\* Not a kill, and the request is in flight: its thread will resume.
CloseDeferred(i) ==
  LET h == link[i] IN
  /\ Begins(i)
  /\ h # NoHold
  /\ q[i].answer # hold[h].pid
  /\ hold[h].st = "requesting"
  /\ Pop(i)
  /\ hold' = [hold EXCEPT ![h].asked = TRUE,
                          ![h].disp = IF @ = "none" THEN "deferred" ELSE @]
  /\ closer' = [closer EXCEPT ![i].pc = AfterClose(i), ![i].hold = h]
  /\ UNCHANGED <<q, ask, holds, handled, th, stop, serviceVars>>

\* Not a kill, and the request was answered: wait for the hold's lock.
CloseWaits(i) ==
  LET h == link[i] IN
  /\ Begins(i)
  /\ h # NoHold
  /\ q[i].answer # hold[h].pid
  /\ hold[h].st # "requesting"
  /\ Pop(i)
  /\ closer' = [closer EXCEPT ![i].pc = "waiting", ![i].hold = h]
  /\ UNCHANGED <<q, ask, hold, holds, handled, th, stop, serviceVars>>

\* The lock is not had in time.
CloseGivesUp(i) ==
  /\ closer[i].pc = "waiting"
  /\ Locked(closer[i].hold)
  /\ closer' = [closer EXCEPT ![i].pc = AfterClose(i), ![i].busy = TRUE]
  /\ UNCHANGED <<q, ask, policyVars, th, stop, serviceVars>>

\* The lock is had: report what became of the hold, leave what is not ours to
\* expire, or begin to undo the freeze.
CloseLocked(i) ==
  LET h == closer[i].hold
      reported == hold[h].st = "refused" \/ hold[h].disp # "none" IN
  /\ closer[i].pc = "waiting"
  /\ ~Locked(h)
  /\ IF ~reported /\ hold[h].owned
     THEN closer' = [closer EXCEPT ![i].pc = "resuming"]
     ELSE closer' = [closer EXCEPT ![i].pc = AfterClose(i)]
  /\ IF ~reported /\ ~hold[h].owned
     THEN hold' = [hold EXCEPT ![h].st = "ended", ![h].disp = "left"]
     ELSE UNCHANGED hold
  /\ UNCHANGED <<q, ask, holds, link, handled, th, stop, serviceVars>>

CloseResumes(i) ==
  /\ closer[i].pc = "resuming"
  /\ Resume(closer[i].hold)
  /\ closer' = [closer EXCEPT ![i].pc = AfterClose(i)]
  /\ UNCHANGED <<q, ask, link, handled, th, stop, late, dead>>

\* _take_action: the terminate is carried out, or is not sent, refused or
\* never arrives.
Kill(i) ==
  LET p == q[i].answer IN
  /\ closer[i].pc = "killing"
  /\ \/ EndLeases(LeasesOn(p)) /\ dead' = dead \cup {p}
     \/ UNCHANGED <<lease, dead>>
  /\ closer' = [closer EXCEPT ![i].pc = "done"]
  /\ UNCHANGED <<q, ask, policyVars, th, stop, late>>

-------------------------------------------------------------------------------
(* /monitor/stop, /monitor/start and the shutdown.                         *)

\* pause, or _closing: a shutdown is a stop that no start follows.
Pause ==
  /\ Running
  /\ stop' = [stop EXCEPT !.pc = "paused"]
  /\ UNCHANGED <<questionVars, policyVars, th, serviceVars>>

\* Not the code: requests in flight are not waited for.
OutstandingAnswered == {h \in Hold : /\ hold[h].st \in Releasable
                                     /\ holds[hold[h].pid] = h}

\* What may be frozen, requests in flight included.
Outstanding == {h \in Hold : /\ hold[h].st \in {"requesting"} \cup Releasable
                             /\ holds[hold[h].pid] = h}

\* release_all begins (a shutdown after a stop runs it again).
BeginRelease ==
  /\ stop.pc \in {"paused", "stopped"}
  /\ stop' = [stop EXCEPT !.pc = "releasing", !.todo = Outstanding,
                          !.failed = {}]
  /\ UNCHANGED <<questionVars, policyVars, th, serviceVars>>

\* The budget is spent, or the hold's lock is not had within it.
ReleaseSkips(h) ==
  /\ h \in stop.todo
  /\ stop.cur = NoHold
  /\ stop' = [stop EXCEPT !.todo = @ \ {h}, !.failed = @ \cup {h}]
  /\ UNCHANGED <<questionVars, policyVars, th, serviceVars>>

\* The lock is had: nothing to undo, not ours to undo, or a resume goes out.
ReleaseTakes(h) ==
  /\ h \in stop.todo
  /\ stop.cur = NoHold
  /\ ~Locked(h)
  /\ stop' = [stop EXCEPT !.todo = @ \ {h},
        !.cur = IF hold[h].st \in Releasable /\ hold[h].owned
                   /\ (hold[h].lease # NoLease \/ hold[h].st = "uncertain")
                THEN h ELSE NoHold]
  /\ UNCHANGED <<questionVars, policyVars, th, serviceVars>>

ReleaseSucceeds ==
  LET h == stop.cur IN
  /\ h # NoHold
  /\ EndLeases(ResumeTarget(h))
  /\ hold' = [hold EXCEPT ![h].st = "ended",
        ![h].disp = IF @ \in {"none", "terminate"} THEN "resumed" ELSE @]
  /\ holds' = Cleared(h)
  /\ stop' = [stop EXCEPT !.cur = NoHold]
  /\ UNCHANGED <<questionVars, link, handled, th, late, dead>>

ReleaseFails ==
  LET h == stop.cur IN
  /\ h # NoHold
  /\ UNCHANGED lease \/ EndLeases(ResumeTarget(h))
  /\ \/ MayBeStale(h) /\ EndStale(h)
     \/ UNCHANGED <<hold, holds>>
  /\ stop' = [stop EXCEPT !.cur = NoHold, !.failed = @ \cup {h}]
  /\ UNCHANGED <<questionVars, link, handled, th, late, dead>>

EndRelease ==
  /\ stop.pc = "releasing"
  /\ stop.todo = {}
  /\ stop.cur = NoHold
  /\ stop' = [stop EXCEPT !.pc = "stopped"]
  /\ UNCHANGED <<questionVars, policyVars, th, serviceVars>>

\* unpause: the next watch.
Unpause ==
  /\ stop.pc = "stopped"
  /\ stop' = [stop EXCEPT !.pc = "idle", !.failed = {}]
  /\ UNCHANGED <<questionVars, policyVars, th, serviceVars>>

-------------------------------------------------------------------------------

QuestionNext(i) ==
  \/ \E p \in Pid : RecordArrives(i, p) \/ Look(i, p)
  \/ OpenQuestion(i) \/ CloseQuestion(i) \/ RetireQuestion(i)
  \/ Join(i) \/ FindStale(i) \/ Consider(i) \/ Decline(i) \/ JoinAfterAll(i)
  \/ \E h \in Hold : Register(i, h)
  \/ CloseNothing(i) \/ CloseKill(i) \/ CloseDeferred(i) \/ CloseWaits(i)
  \/ CloseGivesUp(i) \/ CloseLocked(i) \/ CloseResumes(i) \/ Kill(i)

HoldNext(h) ==
  \/ Failed(h) \/ SuspendTimesOut(h)
  \/ \E l \in LeaseId : Granted(h, l) \/ AlreadyHeld(h, l) \/ ServeLate(h, l)
  \/ AfterReply(h) \/ AfterReplyUndo(h) \/ ThreadResumes(h)
  \/ ReleaseSkips(h) \/ ReleaseTakes(h)

ServiceNext ==
  \/ \E p \in Pid, l \in LeaseId : OtherSuspends(p, l)
  \/ \E l \in LeaseId : LeaseEnds(l)

StopNext ==
  \/ Pause \/ BeginRelease \/ EndRelease \/ Unpause
  \/ ReleaseSucceeds \/ ReleaseFails

Next ==
  \/ \E i \in Incident : QuestionNext(i)
  \/ \E h \in Hold : HoldNext(h)
  \/ ServiceNext
  \/ StopNext

Spec == Init /\ [][Next]_vars

-------------------------------------------------------------------------------
(* Properties.                                                             *)

\* A hold under which a process may be frozen is the one _holds names for its
\* PID: no PID has two, and release_all and the next question find it.  It is
\* registered, replaced, ended and found stale by lanes, the pending thread,
\* suspend threads, closes and release_all, most of them on a state read in
\* an earlier lock section.
ActiveIsKnown ==
  \A h \in Hold : hold[h].st \in Active => holds[hold[h].pid] = h

\* A kill decided while the suspend was in flight is not undone: neither the
\* suspend thread nor another question's close resumes the process (only
\* release_all may), whichever of the two closes came first.
KillNotUndone ==
  \A h \in Hold : hold[h].kill =>
    /\ th[h] # "resuming"
    /\ \A i \in Incident :
         closer[i].hold = h => closer[i].pc # "resuming"

\* A question that closes leaves its hold decided: once the close is over, and
\* the suspend thread it may have handed the decision to, the process is not
\* frozen under a lease of ours, unless the resume failed, the hold was busy
\* for longer than the close waits, or a kill was decided in flight and the
\* suspend's answer lost.
ClosedIsDecided ==
  \A i \in Incident :
    LET h == closer[i].hold IN
    closer[i].pc = "done" /\ h # NoHold /\ ~closer[i].busy /\ ~Suspending(h)
      => \/ hold[h].st \notin Active
         \/ hold[h].disp = "failed"
         \/ hold[h].kill /\ hold[h].st = "uncertain"
         \/ ~hold[h].owned

\* After /monitor/stop or the shutdown nothing of ours is frozen or about to
\* be, except what release_all counted as failed - whatever lanes, re-asks and
\* suspend threads were doing when it began.
StoppedIsReleased ==
  stop.pc = "stopped" =>
    \A h \in Hold : hold[h].st \in Active => h \in stop.failed \/ ~hold[h].owned

\* test_suspend_first.py:419 "a second writer during the lease resumes at once
\* and never kills": a process under a lease of ours has somebody left to end
\* it - a question still to close, a thread at work, or the release - unless
\* an attempt at it failed or the hold was busy.
FreezeIsAnswered ==
  \A h \in Hold :
    (hold[h].st = "held" /\ hold[h].owned /\ lease[hold[h].lease].st = "held")
      => \/ \E i \in Incident : link[i] = h
         \/ Locked(h)
         \/ \E i \in Incident : /\ closer[i].hold = h
                                /\ closer[i].pc = "waiting" \/ closer[i].busy
         \/ hold[h].disp = "failed"
=============================================================================
