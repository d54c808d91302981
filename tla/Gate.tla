-------------------------------- MODULE Gate --------------------------------
(***************************************************************************)
(* Which process freeze-first may suspend: the source of audit records,    *)
(* Attributor.resolve, Attributor.assess_suspend (services/monitor/        *)
(* attribution.py) and the Response service's own look at the process      *)
(* (services/response/actions.py, vet_suspend).                            *)
(*                                                                         *)
(* Windows reuses process ids, so a number may by now belong to a process  *)
(* that did not write.  A process is an incarnation of a pid, with an      *)
(* image and a time of birth, either of which may be unreadable to who     *)
(* asks.  Processes read and write one watched file; the records of that   *)
(* arrive late, or never, possibly without an image or a time.  One event  *)
(* is looked up, assessed and its suspension asked for, while processes    *)
(* come and go.                                                            *)
(*                                                                         *)
(* The lookup is WriteLog's, here without eviction or the horizon, and     *)
(* with one window; the requests, holds and leases are SuspendPolicy's and *)
(* LeaseTable's, which also has what may happen between Response's look    *)
(* and its suspension.  The watched path is inside the watched roots, and  *)
(* the guard Response shares with terminate is left out.                   *)
(***************************************************************************)
EXTENDS Integers, Sequences, FiniteSets

CONSTANTS
  Pid,
  Own,         \* the pids of the Monitor and its ancestors, all excluded
  Image,
  System,      \* the images that run from a system directory
  Window, Tolerance,
  MaxInc,      \* bound: processes ever
  MaxTouch,    \* bound: accesses recorded, and one at a time is on its way
  MaxNow       \* bound: the clock

\* What the constants must satisfy.
GateAssumption ==
  /\ Own \subseteq Pid /\ IsFiniteSet(Own) /\ System \subseteq Image
  /\ "unread" \notin Image
  /\ Window \in Nat /\ Tolerance \in Nat
  /\ MaxInc \in Nat /\ MaxTouch \in Nat /\ MaxNow \in Nat

VARIABLES
  source,  \* the attributor's source: the security channel, or none
  now,
  procs,   \* every process there has been: its pid, image and birth
  live,    \* the live process of each pid, 0 if none
  raw,     \* records on their way
  log,     \* the WriteLog's records of the file
  event,   \* when the event was observed and when its grace ends
  named,   \* the record the first answer is of, if it names a sole writer
  asked,   \* the suspend request: what it claims of the process
  frozen   \* the process suspended, and what Response could read of it

vars == <<source, now, procs, live, raw, log, event, named, asked, frozen>>

-------------------------------------------------------------------------------
None == -1
Unread == "unread"
Time == 0 .. MaxNow
Nothing == {}  \* no record, no request, no process

\* An access: by a process, as the image the record shows, when, and whether
\* it is a write of the file's bytes whose record shows that time.
Access ==
  [by : 1 .. MaxInc, image : Image \cup {Unread}, at : Time,
   kind : {"write", "other", "untimed"}]

TypeOK ==
  /\ source \in {"security", "none"}
  /\ now \in Time
  /\ procs \in Seq([pid : Pid, image : Image, born : Time])
  /\ Len(procs) <= MaxInc
  /\ live \in [Pid -> 0 .. Len(procs)]
  /\ raw \subseteq Access /\ log \subseteq Access
  /\ event \in [state : {"none", "looking", "assessed", "over"},
                read : Time \cup {None}]
  /\ \A set \in {named, asked, frozen} : Cardinality(set) <= 1
  /\ named \subseteq log
  /\ asked \subseteq [pid : Pid, image : Image \cup {Unread},
                      started : Time \cup {None}]
  /\ frozen \subseteq [proc : 1 .. MaxInc, sawImage : BOOLEAN,
                       sawBirth : BOOLEAN]

\* build_source: a host that is not Windows, whose Monitor may not subscribe,
\* or whose operator asks for none or for something unknown, has no source.
Source(mode, windows, subscribes) ==
  IF mode \in {"auto", "security"} /\ windows /\ subscribes
  THEN "security" ELSE "none"

\* Every own process is there, and stays.
IsOwn(seq) ==
  /\ Len(seq) = Cardinality(Own)
  /\ {seq[i].pid : i \in DOMAIN seq} = Own

Init ==
  /\ \E mode \in {"auto", "security", "off", "unknown"},
        windows \in BOOLEAN, subscribes \in BOOLEAN :
       source = Source(mode, windows, subscribes)
  /\ now = 0
  /\ \E image \in Image \ System :
       procs \in {seq \in [1 .. Cardinality(Own) ->
                             [pid : Own, image : {image}, born : {0}]] :
                    IsOwn(seq)}
  /\ live = [p \in Pid |->
       IF p \in Own THEN CHOOSE i \in DOMAIN procs : procs[i].pid = p ELSE 0]
  /\ raw = {} /\ log = {}
  /\ event = [state |-> "none", read |-> None]
  /\ named = Nothing /\ asked = Nothing /\ frozen = Nothing

-------------------------------------------------------------------------------
(* The host.                                                               *)

\* Bounds: the host is followed until the event is over, if there is a source
\* that reports from it, and its accesses until the log is looked up.
Followed == source = "security" /\ event.state # "over"
Audited == source = "security" /\ event.state \in {"none", "looking"}

Tick ==
  /\ Followed /\ now < MaxNow
  /\ now' = now + 1
  /\ UNCHANGED <<source, procs, live, raw, log, event, named, asked, frozen>>

Spawn(p, image) ==
  /\ Followed /\ live[p] = 0 /\ Len(procs) < MaxInc
  /\ procs' = Append(procs, [pid |-> p, image |-> image, born |-> now])
  /\ live' = [live EXCEPT ![p] = Len(procs) + 1]
  /\ UNCHANGED <<source, now, raw, log, event, named, asked, frozen>>

Exit(p) ==
  /\ Followed /\ p \notin Own /\ live[p] # 0
  /\ live' = [live EXCEPT ![p] = 0]
  /\ UNCHANGED <<source, now, procs, raw, log, event, named, asked, frozen>>

\* A process touches the file, or its directory; the access is audited.
Touch(p, kind, image) ==
  /\ Audited /\ live[p] # 0 /\ raw = {} /\ Cardinality(log) < MaxTouch
  /\ image = procs[live[p]].image \/ (image = Unread /\ kind = "write")
  /\ raw' = raw \cup
       {[by |-> live[p], image |-> image, at |-> now, kind |-> kind]}
  /\ UNCHANGED <<source, now, procs, live, log, event, named, asked, frozen>>

-------------------------------------------------------------------------------
(* The source.                                                             *)

\* Not the code: parse_4663 without its tests of the access mask and the
\* object's type.
AnyAccess(r) == r.kind # "untimed"
\* parse_4663 and accept: a timed write of a file by a process.
Recorded(r) == r.kind = "write"

\* _on_event.
Deliver(r) ==
  /\ Audited
  /\ raw' = raw \ {r}
  /\ log' = IF Recorded(r) THEN log \cup {r} ELSE log
  /\ UNCHANGED <<source, now, procs, live, event, named, asked, frozen>>

-------------------------------------------------------------------------------
(* The Monitor.                                                            *)

\* The detector has read the file's bytes; watchdog reported it a while ago.
Observe ==
  /\ event.state = "none"
  /\ event' = [state |-> "looking", read |-> now]
  /\ UNCHANGED <<source, now, procs, live, raw, log, named, asked, frozen>>

PidOf(r) == procs[r.by].pid
Relevant ==
  {r \in log : /\ event.read - Window <= r.at /\ r.at <= event.read + Tolerance
               /\ PidOf(r) \notin Own}
Newest(r) == \A other \in Relevant : other.at <= r.at

\* resolve: it waits for a first record until the grace is over (which may be
\* any time), and answers with the newest.  _first_answer goes on with an
\* answer of a live source that names the only writer.
Look ==
  /\ event.state = "looking"
  /\ IF source = "none" \/ Relevant = {} THEN
       event' = [event EXCEPT !.state = "over"] /\ named' = Nothing
     ELSE \E r \in Relevant :
       /\ Newest(r)
       /\ IF Cardinality({PidOf(o) : o \in Relevant}) = 1
          THEN event' = [event EXCEPT !.state = "assessed"] /\ named' = {r}
          ELSE event' = [event EXCEPT !.state = "over"] /\ named' = Nothing
  /\ UNCHANGED <<source, now, procs, live, raw, log, asked, frozen>>

\* _check_identity.  Not the code: the birth is not compared with the write.
ImageAlone(r, image, birth) ==
  /\ image # Unread /\ r.image # Unread => image = r.image
  /\ (image # Unread /\ r.image # Unread) \/ birth # None
IsTheWriter(r, image, birth) ==
  /\ birth # None => birth <= r.at + Tolerance
  /\ image # Unread /\ r.image # Unread => image = r.image
  /\ (image # Unread /\ r.image # Unread) \/ birth # None

\* Not the code: only what the probe sees is looked up.
LiveAlone(r, image) == image \notin System
\* under_system_directory, of the record's image and of the live one.
Ordinary(r, image) == r.image \notin System /\ image \notin System

\* suspend_authorised: neither the Monitor's own nor gone by number, and the
\* writer by its identity.
Authorised(r, image, birth) ==
  /\ PidOf(r) \notin Own
  /\ live[PidOf(r)] # 0
  /\ IsTheWriter(r, image, birth)
  /\ Ordinary(r, image)

\* assess_suspend: a probe of the live process may read both its image and its
\* birth, either, or neither.
Assess(seesImage, seesBirth) ==
  /\ event.state = "assessed" /\ asked = Nothing
  /\ \E r \in named :
       LET it == procs[live[PidOf(r)]]
           image == IF seesImage THEN it.image ELSE Unread
           birth == IF seesBirth THEN it.born ELSE None
       IN IF Authorised(r, image, birth)
          THEN /\ asked' = {[pid |-> PidOf(r), image |-> r.image, started |-> birth]}
               /\ UNCHANGED event
          ELSE /\ event' = [event EXCEPT !.state = "over"]
               /\ UNCHANGED asked
  /\ UNCHANGED <<source, now, procs, live, raw, log, named, frozen>>

-------------------------------------------------------------------------------
(* The Response service.                                                   *)

\* Not the code: the claimed start is not compared.
ImageOfClaim(c, it, sawImage, sawBirth) ==
  /\ c.image # Unread /\ sawImage => it.image = c.image
  /\ (c.image # Unread /\ sawImage) \/ (c.started # None /\ sawBirth)
\* _check_identity of actions.py, of what it can read of the live process.
Vetted(c, it, sawImage, sawBirth) ==
  /\ c.started # None /\ sawBirth => it.born <= c.started + Tolerance
  /\ c.image # Unread /\ sawImage => it.image = c.image
  /\ (c.image # Unread /\ sawImage) \/ (c.started # None /\ sawBirth)

\* The suspend request reaches Response, now or later.
Suspend(sawImage, sawBirth) ==
  /\ event.state = "assessed"
  /\ \E c \in asked :
       IF live[c.pid] # 0 /\ Vetted(c, procs[live[c.pid]], sawImage, sawBirth)
       THEN frozen' = {[proc |-> live[c.pid],
                        sawImage |-> sawImage, sawBirth |-> sawBirth]}
       ELSE UNCHANGED frozen
  /\ event' = [event EXCEPT !.state = "over"]
  /\ UNCHANGED <<source, now, procs, live, raw, log, named, asked>>

-------------------------------------------------------------------------------
Next ==
  \/ Tick \/ Observe \/ Look
  \/ \E p \in Pid :
       \/ Exit(p)
       \/ \E image \in Image : Spawn(p, image)
       \/ \E kind \in {"write", "other", "untimed"},
             image \in Image \cup {Unread} : Touch(p, kind, image)
  \/ \E r \in raw : Deliver(r)
  \/ \E sees, sawBirth \in BOOLEAN :
       Assess(sees, sawBirth) \/ Suspend(sees, sawBirth)

Spec == Init /\ [][Next]_vars

-------------------------------------------------------------------------------
\* What is suspended wrote the file.  It may be another process of the same
\* pid only if nobody could have known: it was born within the tolerances of
\* the two services, or its birth was unreadable to one of them.  Either way
\* it is not the Monitor, and where image and record can be read it has the
\* writer's image, which is none of the system's.
FreezesTheWriter ==
  \A f \in frozen, c \in asked, r \in named :
    LET it == procs[f.proc] IN
    /\ r.kind = "write" /\ it.pid \notin Own
    /\ \/ f.proc = r.by
       \/ c.started = None \/ ~ f.sawBirth
       \/ it.born <= r.at + 2 * Tolerance
    /\ f.sawImage /\ r.image # Unread =>
         it.image = procs[r.by].image /\ it.image \notin System
=============================================================================
