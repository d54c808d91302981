----------------------------- MODULE MonitorLife -----------------------------
(***************************************************************************)
(* services/monitor: POST /monitor/start and /monitor/stop.  Each runs on  *)
(* a thread of its own and neither takes a lock: it reads and writes the   *)
(* module's globals one statement at a time, so that two calls may be in   *)
(* the middle of each other.                                               *)
(***************************************************************************)
EXTENDS Integers, FiniteSets

CONSTANTS
  Call,   \* calls under way at a time
  MaxObs, \* bound on the observers built
  Audited \* attribution can subscribe on this host

\* What the constants must satisfy.
LifeAssumption == MaxObs \in Nat /\ Audited \in BOOLEAN

VARIABLES
  obs,     \* each observer: none, built, watching, ending, over; or cancelled
           \* (stopped before it was started) or broken (could not start)
  cur,     \* _observer; 0 is None
  id,      \* _monitor_id: the observer it was given for; 0 is None
  worker,  \* _worker: the drain thread is none, made or alive
  lanes,   \* the correlation lanes take work
  paused,  \* freeze-first is paused
  subs,    \* subscriptions to the Security channel that are open
  source,  \* the attributor's source is one of them
  call,    \* each call: the statement it is at
  overlap, \* history: some call has been in the middle of another
  failed   \* history: some observer could not be started

lifeVars ==
  <<obs, cur, id, worker, lanes, paused, subs, source, call, overlap, failed>>

Observer == 1 .. MaxObs

-------------------------------------------------------------------------------
At(c, pc) == call[c].pc = pc
Step(c, pc) == call' = [call EXCEPT ![c].pc = pc]
\* An exception nothing catches: a 500, and the rest is left undone.
Raise(c) == call' = [call EXCEPT ![c] = [pc |-> "error", op |-> @.op]]

\* Where an observer is after stop() was called on it.
Stopped(o) ==
  CASE obs[o] = "watching" -> "ending" [] obs[o] = "built" -> "cancelled"
    [] OTHER -> obs[o]

\* _observer.stop(), of whatever _observer is by now.
StopObserver(c, next) ==
  /\ IF cur = 0
     THEN Raise(c) /\ UNCHANGED obs
     ELSE Step(c, next) /\ obs' = [obs EXCEPT ![cur] = Stopped(cur)]
  /\ UNCHANGED <<cur, id, worker, lanes, paused, subs, source, overlap, failed>>

Started(o) == obs[o] \in {"watching", "ending", "over"}

\* _observer.join(timeout=5): a thread that was never started is an error.
JoinObserver(c, next) ==
  /\ IF cur = 0 \/ ~Started(cur) THEN Raise(c) ELSE Step(c, next)
  /\ UNCHANGED <<obs, cur, id, worker, lanes, paused, subs, source, overlap,
                 failed>>

-------------------------------------------------------------------------------
(* start_monitoring.                                                       *)

\* if _observer is not None
ReplacesOld == IF cur = 0 THEN "worker" ELSE "stopOld"

\* The path is a directory; any other is a 400.
Start(c) ==
  /\ At(c, "idle")
  /\ \E pc \in {"started", "answered"} :
       call' = [call EXCEPT ![c] = [pc |-> pc, op |-> "start"]]
  /\ overlap' = (overlap \/ \E d \in Call \ {c} : ~At(d, "idle"))
  /\ UNCHANGED <<obs, cur, id, worker, lanes, paused, subs, source, failed>>

LookForOld(c) ==
  /\ At(c, "started") /\ Step(c, ReplacesOld)
  /\ UNCHANGED <<obs, cur, id, worker, lanes, paused, subs, source, overlap,
                 failed>>

\* _ensure_worker: looks, makes, starts.
MakeWorker(c) ==
  /\ At(c, "worker")
  /\ IF worker = "alive"
     THEN Step(c, "lanes") /\ UNCHANGED worker
     ELSE Step(c, "startWorker") /\ worker' = "made"
  /\ UNCHANGED <<obs, cur, id, lanes, paused, subs, source, overlap, failed>>

\* A thread another call has started by now cannot be started again.
StartWorker(c) ==
  /\ At(c, "startWorker")
  /\ IF worker = "made"
     THEN Step(c, "lanes") /\ worker' = "alive"
     ELSE Raise(c) /\ UNCHANGED worker
  /\ UNCHANGED <<obs, cur, id, lanes, paused, subs, source, overlap, failed>>

StartLanes(c) ==
  /\ At(c, "lanes") /\ Step(c, "unpause") /\ lanes' = TRUE
  /\ UNCHANGED <<obs, cur, id, worker, paused, subs, source, overlap, failed>>

Unpause(c) ==
  /\ At(c, "unpause") /\ Step(c, "build") /\ paused' = FALSE
  /\ UNCHANGED <<obs, cur, id, worker, lanes, subs, source, overlap, failed>>

Build(c) ==
  /\ At(c, "build")
  /\ \E o \in Observer :
       /\ obs[o] = "none" /\ \A p \in Observer : p < o => obs[p] # "none"
       /\ obs' = [obs EXCEPT ![o] = "built"] /\ cur' = o
  /\ Step(c, "watch")
  /\ UNCHANGED <<id, worker, lanes, paused, subs, source, overlap, failed>>

Startable == cur # 0 /\ obs[cur] \in {"built", "cancelled"}

\* schedule and start, of whatever _observer is by now.  A start fails when
\* the directory is gone or no watch can be had; one that was cancelled ends
\* as it begins, and one that was started cannot be again.
Watch(c) ==
  /\ At(c, "watch")
  /\ \/ /\ Startable
        /\ obs' = [obs EXCEPT ![cur] =
                    IF @ = "built" THEN "watching" ELSE "over"]
        /\ Step(c, "id") /\ UNCHANGED failed
     \/ /\ Startable
        /\ obs' = [obs EXCEPT ![cur] = "broken"]
        /\ failed' = TRUE /\ Raise(c)
     \/ /\ ~Startable
        /\ Raise(c) /\ UNCHANGED <<obs, failed>>
  /\ UNCHANGED <<cur, id, worker, lanes, paused, subs, source, overlap>>

Name(c) ==
  /\ At(c, "id") /\ id' = cur
  /\ Step(c, IF source THEN "answered" ELSE "subscribe")
  /\ UNCHANGED <<obs, cur, worker, lanes, paused, subs, source, overlap, failed>>

\* build_source subscribes to see whether it can; without, attribution is off.
Subscribe(c) ==
  /\ At(c, "subscribe")
  /\ IF Audited
     THEN Step(c, "attribute") /\ subs' = subs + 1
     ELSE Step(c, "answered") /\ UNCHANGED subs
  /\ UNCHANGED <<obs, cur, id, worker, lanes, paused, source, overlap, failed>>

\* Not the code any more: it subscribed again here.
Twice == 1
\* Attributor.start takes over a source that is available as it is.
Again == 0

Attribute(c) ==
  /\ At(c, "attribute") /\ Step(c, "answered")
  /\ source' = TRUE /\ subs' = subs + Again
  /\ UNCHANGED <<obs, cur, id, worker, lanes, paused, overlap, failed>>

-------------------------------------------------------------------------------
(* stop_monitoring.                                                        *)

\* The monitor_id is missing or the right one; another one is a 404.
Stop(c) ==
  /\ At(c, "idle")
  /\ \E pc \in {"pause", "answered"} :
       call' = [call EXCEPT ![c] = [pc |-> pc, op |-> "stop"]]
  /\ overlap' = (overlap \/ \E d \in Call \ {c} : ~At(d, "idle"))
  /\ UNCHANGED <<obs, cur, id, worker, lanes, paused, subs, source, failed>>

\* Not the code: there is always an observer to stop.
Unchecked == "stopIt"
\* if _observer is not None
StopsIt == IF cur = 0 THEN "stopLanes" ELSE "stopIt"

Pause(c) ==
  /\ At(c, "pause") /\ paused' = TRUE
  /\ Step(c, StopsIt)
  /\ UNCHANGED <<obs, cur, id, worker, lanes, subs, source, overlap, failed>>

Clear(c) ==
  /\ At(c, "clear") /\ cur' = 0 /\ Step(c, "stopLanes")
  /\ UNCHANGED <<obs, id, worker, lanes, paused, subs, source, overlap, failed>>

StopLanes(c) ==
  /\ At(c, "stopLanes") /\ lanes' = FALSE /\ Step(c, "unname")
  /\ UNCHANGED <<obs, cur, id, worker, paused, subs, source, overlap, failed>>

\* After release_all.
Unname(c) ==
  /\ At(c, "unname") /\ id' = 0 /\ Step(c, "answered")
  /\ UNCHANGED <<obs, cur, worker, lanes, paused, subs, source, overlap, failed>>

-------------------------------------------------------------------------------
Answer(c) ==
  /\ call[c].pc \in {"answered", "error"}
  /\ call' = [call EXCEPT ![c] = [pc |-> "idle", op |-> "none"]]
  /\ UNCHANGED <<obs, cur, id, worker, lanes, paused, subs, source, overlap,
                 failed>>

\* An observer's thread has handed over its last event.
End(o) ==
  /\ obs[o] = "ending" /\ obs' = [obs EXCEPT ![o] = "over"]
  /\ UNCHANGED <<cur, id, worker, lanes, paused, subs, source, call, overlap,
                 failed>>

Init ==
  /\ obs = [o \in Observer |-> "none"] /\ cur = 0 /\ id = 0
  /\ worker = "none" /\ lanes = FALSE /\ paused = FALSE
  /\ subs = 0 /\ source = FALSE
  /\ call = [c \in Call |-> [pc |-> "idle", op |-> "none"]]
  /\ overlap = FALSE /\ failed = FALSE

Next ==
  \/ \E c \in Call :
       \/ Start(c) \/ LookForOld(c)
       \/ At(c, "stopOld") /\ StopObserver(c, "joinOld")
       \/ At(c, "joinOld") /\ JoinObserver(c, "worker")
       \/ MakeWorker(c) \/ StartWorker(c) \/ StartLanes(c) \/ Unpause(c)
       \/ Build(c) \/ Watch(c) \/ Name(c) \/ Subscribe(c) \/ Attribute(c)
       \/ Stop(c) \/ Pause(c)
       \/ At(c, "stopIt") /\ StopObserver(c, "joinIt")
       \/ At(c, "joinIt") /\ JoinObserver(c, "clear")
       \/ Clear(c) \/ StopLanes(c) \/ Unname(c) \/ Answer(c)
  \/ \E o \in Observer : End(o)

Spec == Init /\ [][Next]_lifeVars

-------------------------------------------------------------------------------
Pc == {"idle", "started", "stopOld", "joinOld", "worker", "startWorker", "lanes",
       "unpause", "build", "watch", "id", "subscribe", "attribute", "pause",
       "stopIt", "joinIt", "clear", "stopLanes", "unname", "answered", "error"}

\* Every variable has its type.
TypeOK ==
  /\ obs \in [Observer -> {"none", "built", "watching", "ending", "over",
                           "cancelled", "broken"}]
  /\ cur \in 0 .. MaxObs /\ id \in 0 .. MaxObs
  /\ worker \in {"none", "made", "alive"}
  /\ lanes \in BOOLEAN /\ paused \in BOOLEAN /\ source \in BOOLEAN
  /\ subs \in Nat /\ overlap \in BOOLEAN /\ failed \in BOOLEAN
  /\ call \in [Call -> [pc : Pc, op : {"none", "start", "stop"}]]

Watching == {o \in Observer : obs[o] = "watching"}
Rest == \A c \in Call : At(c, "idle")

\* "Only one monitor runs per process": as long as starts and stops came one
\* at a time, the observer that watches is the one that can be stopped, with
\* its lanes, its drain and freeze-first on; there is one subscription; and
\* the id that is shown is that of the watch, unless a start failed.
OneWatch ==
  Rest /\ ~overlap =>
    /\ Watching \subseteq {cur}
    /\ Watching # {} => lanes /\ ~paused /\ worker = "alive"
    /\ subs <= 1
    /\ ~failed => id = cur /\ (cur # 0 => cur \in Watching)

\* A start or a stop ends in an error only when it met another one, or when
\* an observer could not be started (after which every one of them does).
ErrorsHaveCause == \A c \in Call : At(c, "error") => overlap \/ failed
=============================================================================
