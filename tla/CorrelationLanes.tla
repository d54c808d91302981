-------------------------- MODULE CorrelationLanes --------------------------
(***************************************************************************)
(* Correlation off the observer thread: services/monitor/dispatch.py.      *)
(*                                                                         *)
(* The observer thread submits one job per suspicious event.  A path has a *)
(* lane, a lane has a bounded queue and a thread.  A job that cannot be    *)
(* queued runs inline, on the observer.  /monitor/start and /monitor/stop  *)
(* run on threads of their own; stop joins each lane's thread for a while  *)
(* and then forgets it, so that a slow thread may meet its successor.      *)
(*                                                                         *)
(* Left out: the counters; _busy and drain's answer, which stop ignores.   *)
(***************************************************************************)
EXTENDS Naturals, Sequences, FiniteSets, SequencesExt

CONSTANTS
  Path,        \* file paths
  Lane,        \* lane indices, in the order start and stop visit them
  QueueMax,    \* jobs one lane holds
  Controller,  \* threads that serve /monitor/start and /monitor/stop
  Nobody,      \* _lock is free
  MaxJob,      \* bound: jobs submitted
  MaxThread    \* bound: threads started per lane

\* What the constants must satisfy; MCMonitor assumes it.
LanesAssumption ==
  /\ IsFiniteSet(Lane) /\ Lane = 1 .. Cardinality(Lane)
  /\ QueueMax \in Nat \ {0}
  /\ Nobody \notin Controller

VARIABLES
  laneOf,    \* lane_for: which lane owns a path; never changes
  queue,     \* _Lane._items
  stopping,  \* _Lane._stopping
  worker,    \* the threads of each lane: not started, up, gone
  doing,     \* the job each thread runs, 0 while it waits
  thread,    \* _Lane._thread: the one stop would join, 0 for None
  running,   \* CorrelationLanes._running
  lock,      \* CorrelationLanes._lock
  ctl,       \* what each controller does, and at which lane
  obs,       \* the observer: what it does, with which job
  path,      \* the path of each job submitted; its length is their number
  begun,     \* history: jobs in the order they began to run
  ended,     \* history: jobs that have run
  aside,     \* history: jobs that ran inline
  late       \* history: lanes whose thread outlived a join

laneVars == <<queue, stopping, worker, doing, thread>>
runVars  == <<begun, ended>>
lanesVars == <<laneOf, laneVars, running, lock, ctl, obs, path, runVars,
               aside, late>>

-------------------------------------------------------------------------------
Job == 1 .. MaxJob
Worker == 1 .. MaxThread
Live(l) == {w \in Worker : worker[l][w] = "up"}
Free(l, w) == worker[l][w] = "up" /\ doing[l][w] = 0
Idle == [op |-> "idle", lane |-> 0]
Resting == [op |-> "idle", job |-> 0]

TypeOK ==
  /\ laneOf \in [Path -> Lane]
  /\ queue \in [Lane -> Seq(Job)] /\ \A l \in Lane : Len(queue[l]) <= QueueMax
  /\ stopping \in [Lane -> BOOLEAN]
  /\ worker \in [Lane -> [Worker -> {"none", "up", "gone"}]]
  /\ doing \in [Lane -> [Worker -> 0 .. MaxJob]]
  /\ thread \in [Lane -> 0 .. MaxThread]
  /\ running \in BOOLEAN
  /\ lock \in Controller \cup {Nobody}
  /\ ctl \in [Controller -> [op : {"idle", "start", "drain", "tell", "join"},
                             lane : 0 .. Cardinality(Lane) + 1]]
  /\ obs \in [op : {"idle", "offer", "note", "run", "inline"}, job : 0 .. MaxJob]
  /\ path \in Seq(Path) /\ Len(path) <= MaxJob
  /\ begun \in Seq(Job) /\ ended \in SUBSET Job /\ aside \in SUBSET Job
  /\ late \in SUBSET Lane

Init ==
  /\ laneOf \in [Path -> Lane]
  /\ queue = [l \in Lane |-> <<>>]
  /\ stopping = [l \in Lane |-> FALSE]
  /\ worker = [l \in Lane |-> [w \in Worker |-> "none"]]
  /\ doing = [l \in Lane |-> [w \in Worker |-> 0]]
  /\ thread = [l \in Lane |-> 0]
  /\ running = FALSE
  /\ lock = Nobody
  /\ ctl = [c \in Controller |-> Idle]
  /\ obs = Resting
  /\ path = <<>>
  /\ begun = <<>> /\ ended = {} /\ aside = {} /\ late = {}

-------------------------------------------------------------------------------
(* The observer: submit.                                                   *)

\* A new job; _running is read before the lane is asked.
Submit(p) ==
  /\ obs = Resting /\ Len(path) < MaxJob
  /\ path' = Append(path, p)
  /\ obs' = [op |-> IF running THEN "offer" ELSE "note", job |-> Len(path')]
  /\ UNCHANGED <<laneOf, laneVars, running, lock, ctl, runVars, aside, late>>

\* Not the code: a lane that is stopping still accepts.
RefusesIfFull(l) == Len(queue[l]) >= QueueMax

\* _Lane.offer.
Refuses(l) == stopping[l] \/ Len(queue[l]) >= QueueMax

Offer ==
  LET l == laneOf[path[obs.job]] IN
  /\ obs.op = "offer"
  /\ \/ /\ ~Refuses(l)
        /\ queue' = [queue EXCEPT ![l] = Append(@, obs.job)]
        /\ obs' = Resting
     \/ /\ Refuses(l)
        /\ obs' = [obs EXCEPT !.op = "note"]
        /\ UNCHANGED queue
  /\ UNCHANGED <<laneOf, stopping, worker, doing, thread, running, lock, ctl,
                 path, runVars, aside, late>>

\* The overflow is noted under _lock if the lanes are running; the job then
\* begins on the observer.
RunInline ==
  /\ obs.op = "note"
  /\ running => lock = Nobody
  /\ obs' = [obs EXCEPT !.op = "inline"]
  /\ begun' = Append(begun, obs.job)
  /\ aside' = aside \cup {obs.job}
  /\ UNCHANGED <<laneOf, laneVars, running, lock, ctl, path, ended, late>>

InlineEnds ==
  /\ obs.op = "inline"
  /\ obs' = Resting
  /\ ended' = ended \cup {obs.job}
  /\ UNCHANGED <<laneOf, laneVars, running, lock, ctl, path, begun, aside, late>>

-------------------------------------------------------------------------------
(* A lane's thread: _run.                                                  *)

\* Not the code: pop() instead of popleft().
PoppedLast(q) == <<Last(q), Front(q)>>
Popped(q) == <<Head(q), Tail(q)>>

Take(l, w) ==
  /\ Free(l, w) /\ queue[l] # <<>>
  /\ LET job == Popped(queue[l])[1] IN
     /\ doing' = [doing EXCEPT ![l][w] = job]
     /\ begun' = Append(begun, job)
  /\ queue' = [queue EXCEPT ![l] = Popped(queue[l])[2]]
  /\ UNCHANGED <<laneOf, stopping, worker, thread, running, lock, ctl, obs, path,
                 ended, aside, late>>

\* The job returns or raises; the thread goes on either way.
Finish(l, w) ==
  /\ doing[l][w] # 0
  /\ ended' = ended \cup {doing[l][w]}
  /\ doing' = [doing EXCEPT ![l][w] = 0]
  /\ UNCHANGED <<laneOf, queue, stopping, worker, thread, running, lock, ctl, obs,
                 path, begun, aside, late>>

\* Not the code: a stopping thread leaves its queue.
MayExitAtOnce(l) == stopping[l]
MayExit(l) == stopping[l] /\ queue[l] = <<>>

Exit(l, w) ==
  /\ Free(l, w) /\ MayExit(l)
  /\ worker' = [worker EXCEPT ![l][w] = "gone"]
  /\ UNCHANGED <<laneOf, queue, stopping, doing, thread, running, lock, ctl, obs,
                 path, runVars, aside, late>>

-------------------------------------------------------------------------------
(* start and stop.                                                         *)

Starts(c) == ~running

Start(c) ==
  /\ ctl[c] = Idle /\ lock = Nobody /\ Starts(c)
  /\ lock' = c
  /\ ctl' = [ctl EXCEPT ![c] = [op |-> "start", lane |-> 1]]
  /\ UNCHANGED <<laneOf, laneVars, running, obs, path, runVars, aside, late>>

\* _Lane.start, after which start goes to the next lane.
StartLane(c) ==
  LET l == ctl[c].lane IN
  /\ ctl[c].op = "start" /\ l \in Lane
  /\ \E w \in Worker :
       /\ worker[l][w] = "none" /\ \A v \in 1 .. w - 1 : worker[l][v] # "none"
       /\ worker' = [worker EXCEPT ![l][w] = "up"]
       /\ thread' = [thread EXCEPT ![l] = w]
  /\ stopping' = [stopping EXCEPT ![l] = FALSE]
  /\ ctl' = [ctl EXCEPT ![c].lane = l + 1]
  /\ UNCHANGED <<laneOf, queue, doing, running, lock, obs, path, runVars, aside,
                 late>>

Started(c) ==
  /\ ctl[c].op = "start" /\ ctl[c].lane \notin Lane
  /\ running' = TRUE
  /\ lock' = Nobody
  /\ ctl' = [ctl EXCEPT ![c] = Idle]
  /\ UNCHANGED <<laneOf, laneVars, obs, path, runVars, aside, late>>

\* stop waits in drain, without the lock, for as long as it pleases.
Stop(c) ==
  /\ ctl[c] = Idle
  /\ ctl' = [ctl EXCEPT ![c].op = "drain"]
  /\ UNCHANGED <<laneOf, laneVars, running, lock, obs, path, runVars, aside, late>>

StopLocks(c) ==
  /\ ctl[c].op = "drain" /\ lock = Nobody
  /\ lock' = c
  /\ ctl' = [ctl EXCEPT ![c] = [op |-> "tell", lane |-> 1]]
  /\ UNCHANGED <<laneOf, laneVars, running, obs, path, runVars, aside, late>>

\* _Lane.stop: the flag, then the join.
StopLane(c) ==
  LET l == ctl[c].lane IN
  /\ ctl[c].op = "tell" /\ l \in Lane
  /\ stopping' = [stopping EXCEPT ![l] = TRUE]
  /\ ctl' = [ctl EXCEPT ![c].op = "join"]
  /\ UNCHANGED <<laneOf, queue, worker, doing, thread, running, lock, obs, path,
                 runVars, aside, late>>

\* The join ends because the thread has, or because its time is up.
JoinLane(c) ==
  LET l == ctl[c].lane
      outlives == thread[l] \in Live(l)
  IN
  /\ ctl[c].op = "join"
  /\ thread' = [thread EXCEPT ![l] = 0]
  /\ ctl' = [ctl EXCEPT ![c] = [op |-> "tell", lane |-> l + 1]]
  /\ late' = IF outlives THEN late \cup {l} ELSE late
  /\ UNCHANGED <<laneOf, queue, stopping, worker, doing, running, lock, obs, path,
                 runVars, aside>>

Stopped(c) ==
  /\ ctl[c].op = "tell" /\ ctl[c].lane \notin Lane
  /\ running' = FALSE
  /\ lock' = Nobody
  /\ ctl' = [ctl EXCEPT ![c] = Idle]
  /\ UNCHANGED <<laneOf, laneVars, obs, path, runVars, aside, late>>

-------------------------------------------------------------------------------
ObserverNext == (\E p \in Path : Submit(p)) \/ Offer \/ RunInline \/ InlineEnds
WorkerNext == \E l \in Lane, w \in Worker : Take(l, w) \/ Finish(l, w) \/ Exit(l, w)
StartNext == \E c \in Controller : Start(c) \/ StartLane(c) \/ Started(c)
StopNext == \E c \in Controller :
  Stop(c) \/ StopLocks(c) \/ StopLane(c) \/ JoinLane(c) \/ Stopped(c)
Next == ObserverNext \/ WorkerNext \/ StartNext \/ StopNext

\* Threads that are running owe a step: the lanes' own, the observer once it
\* has a job, and a start or stop that holds the lock.
Fairness ==
  /\ \A l \in Lane, w \in Worker : WF_lanesVars(Take(l, w) \/ Finish(l, w))
  /\ WF_lanesVars(Offer \/ RunInline \/ InlineEnds)
  /\ \A c \in Controller :
       WF_lanesVars(StartLane(c) \/ Started(c) \/ StopLane(c) \/ JoinLane(c)
                    \/ Stopped(c))

Spec == Init /\ [][Next]_lanesVars
FairSpec == Spec /\ Fairness

-------------------------------------------------------------------------------
(* What the lanes promise.                                                 *)

Running(j) == \E l \in Lane, w \in Worker : doing[l][w] = j
Before(s, j, k) == \E m, n \in DOMAIN s : m < n /\ s[m] = j /\ s[n] = k

\* dispatch.py 24-26: a file's events are correlated one after the other, in
\* order.  It holds for the jobs that were queued, on a lane whose thread no
\* stop has left behind.
QueuedInOrder ==
  \A j, k \in Job :
    /\ j < k /\ k <= Len(path) /\ path[j] = path[k]
    /\ {j, k} \cap aside = {} /\ laneOf[path[k]] \notin late
    => /\ ~(Running(j) /\ Running(k))
       /\ ~Before(begun, k, j)

\* stop finishes what is queued: while the lanes are stopped, only a thread it
\* gave up on still has work.
StoppedIsEmpty ==
  ~running /\ lock = Nobody =>
    \A l \in Lane : l \notin late => queue[l] = <<>> /\ Live(l) = {}

\* dispatch.py 237 and 249: submit never drops a job, and a queued one is
\* never left behind, whatever start and stop do meanwhile.
AllRun == \A j \in Job : j <= Len(path) => j \in ended
EveryJobRuns == []<>AllRun
=============================================================================
