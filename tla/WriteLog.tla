------------------------------ MODULE WriteLog ------------------------------
(***************************************************************************)
(* What the audit trail says of one file: class WriteLog of                *)
(* services/monitor/attribution.py, its anchored lookup, and the source    *)
(* that delivers records late and out of order.                            *)
(*                                                                         *)
(* A record says which process wrote, and when.  It is stamped with the    *)
(* horizon clock when it is delivered, and appended once its thread has    *)
(* the log's lock.  The log is bounded and shared with every other file,   *)
(* so records are pushed out.  An event about the file is observed, its    *)
(* bytes are read, and the log is asked who wrote them, as often as one    *)
(* likes; the clock is read before the log is.                             *)
(*                                                                         *)
(* One clock stands for both the system clock, on which writes are stamped *)
(* and matched, and the monotonic one that times the horizon: a stepped    *)
(* system clock is left out.  The source is a live kernel-grade one with a *)
(* delivery lag.  _normalise, the rename's second name and the exclusions  *)
(* are abstracted to whether a record is of this file and counts.          *)
(***************************************************************************)
EXTENDS Integers, Sequences, FiniteSets

CONSTANTS
  Pid,
  Window, Competition, Tolerance, Horizon,  \* the spans of the lookup
  MaxEntries,  \* bound: WriteLog's maxlen
  MaxRecord,   \* bound: records
  MaxNow       \* bound: the clock

\* What the constants must satisfy; MCMonitor assumes it.
WriteLogAssumption ==
  /\ Window \in Nat /\ Tolerance \in Nat /\ Horizon \in Nat \ {0}
  /\ Competition \in Nat /\ Competition >= Window
  /\ MaxEntries \in Nat \ {0} /\ MaxRecord \in Nat /\ MaxNow \in Nat

VARIABLES
  maxlen,          \* WriteLog's maxlen; never changes
  now,
  writes,          \* every record appended so far, in that order
  evictedThrough,  \* _evicted_through
  event,           \* when the event was observed and its bytes read
  answer           \* the last answer, when it was given, how much was logged

vars == <<maxlen, now, writes, evictedThrough, event, answer>>

-------------------------------------------------------------------------------
None == -1
Long == -1000   \* float("-inf")
Time == 0 .. MaxNow
WriteTime == -1 .. MaxNow   \* also before the clock was started
Unasked == [conf |-> "unknown", pid |-> None, pending |-> TRUE, at |-> None,
            seen |-> 0]

\* _writes, a deque with a maxlen: the newest records.
Log == {w \in DOMAIN writes : w > Len(writes) - maxlen}

TypeOK ==
  /\ maxlen \in 1 .. MaxEntries
  /\ now \in Time
  /\ writes \in Seq([pid : Pid \cup {None}, at : WriteTime, stamp : Time])
  /\ Len(writes) <= MaxRecord
  /\ evictedThrough \in {Long} \cup WriteTime
  /\ event \in [observed : Time \cup {None}, read : Time \cup {None}]
  /\ answer \in [conf : {"unknown", "probable", "certain"}, pid : Pid \cup {None},
                 pending : BOOLEAN, at : Time \cup {None}, seen : 0 .. MaxRecord]

Init ==
  /\ maxlen \in 1 .. MaxEntries
  /\ now = 0
  /\ writes = <<>>
  /\ evictedThrough = Long
  /\ event = [observed |-> None, read |-> None]
  /\ answer = Unasked

Tick ==
  /\ now < MaxNow
  /\ now' = now + 1
  /\ UNCHANGED <<maxlen, writes, evictedThrough, event, answer>>

-------------------------------------------------------------------------------
\* Not the code: the last write time evicted, not the newest.
LastEvicted(w) == writes[w].at
NewestEvicted(w) ==
  IF writes[w].at > evictedThrough THEN writes[w].at ELSE evictedThrough

\* record: a write of this file by a process, or of another file by anybody
\* (None), stamped no later than it is appended.  A full log loses its oldest.
\* (Nobody asks for the stamp of another file's record.)
Record(p, at, stamp) ==
  LET oldest == Len(writes) - maxlen + 1 IN
  /\ Len(writes) < MaxRecord
  /\ at <= stamp /\ stamp <= now /\ (p = None => stamp = now)
  /\ writes' = Append(writes, [pid |-> p, at |-> at, stamp |-> stamp])
  /\ evictedThrough' = IF oldest \in Log THEN NewestEvicted(oldest) ELSE evictedThrough
  /\ UNCHANGED <<maxlen, now, event, answer>>

\* The event: watchdog reports a change, then the detector reads the bytes.
Observe(observed) ==
  /\ event.read = None /\ observed <= now
  /\ event' = [observed |-> observed, read |-> now]
  /\ UNCHANGED <<maxlen, now, writes, evictedThrough, answer>>

-------------------------------------------------------------------------------
(* _lookup_anchored.                                                       *)

LoMatch == event.observed - Window
LoCompete == event.observed - Competition
Hi == event.read + Tolerance
Settle == event.read + Tolerance + Horizon

InCompetition(w) ==
  writes[w].pid # None /\ LoCompete <= writes[w].at /\ writes[w].at <= Hi
Relevant == {w \in Log : InCompetition(w)}
Overflowed == evictedThrough >= LoCompete

\* Not the code: a record delivered after the horizon may still match.
MatchingEver(w) == writes[w].at >= LoMatch
Matching(w) == writes[w].at >= LoMatch /\ writes[w].stamp <= Settle
Matches == {w \in Relevant : Matching(w)}

\* The newest match; of equals, the first delivered.
Newest == CHOOSE w \in Matches : \A v \in Matches :
  \/ writes[v].at < writes[w].at
  \/ writes[v].at = writes[w].at /\ w <= v
Writers == {writes[w].pid : w \in Relevant}

Says(conf, pid, pending) ==
  [conf |-> conf, pid |-> pid, pending |-> pending, at |-> now,
   seen |-> Len(writes)]

\* The clock was read at moment, the log is read now.
Look(moment) ==
  LET arriving == moment < Settle
      named == writes[Newest].pid
  IN
  /\ event.read # None /\ event.read <= moment /\ moment <= now
  /\ answer' =
       IF Matches = {} THEN Says("unknown", None, arriving)
       ELSE IF Cardinality(Writers) > 1 THEN Says("probable", None, FALSE)
       ELSE IF Overflowed THEN Says("probable", named, FALSE)
       ELSE IF arriving THEN Says("probable", named, TRUE)
       ELSE Says("certain", named, FALSE)
  /\ UNCHANGED <<maxlen, now, writes, evictedThrough, event>>

-------------------------------------------------------------------------------
Next ==
  \/ Tick
  \/ \E p \in Pid \cup {None}, at \in WriteTime, stamp \in Time : Record(p, at, stamp)
  \/ \E observed \in Time : Observe(observed)
  \/ \E moment \in Time : Look(moment)
Spec == Init /\ [][Next]_vars

-------------------------------------------------------------------------------
(* What an answer promises.                                                *)

\* attribution.py 600-617: CERTAIN names the only process that wrote the file
\* in the competition window, among all the records logged by then that were
\* delivered before the horizon closed, those pushed out since included, and
\* it is given when the horizon is over.  (A record whose thread has its stamp
\* and not yet the lock is not logged.)
CertainIsSoleWriter ==
  answer.conf = "certain" =>
    /\ answer.at >= Settle
    /\ \A w \in 1 .. answer.seen :
         InCompetition(w) /\ writes[w].stamp <= Settle => writes[w].pid = answer.pid

\* attribution.py 771-776: an answer that may not change any more never turns
\* into one that authorises a kill, however late a record comes - unless the
\* record was stamped by the time the answer was given and appended after it.
RaisesNothing ==
  /\ answer.conf # "certain" /\ ~answer.pending
  /\ \A w \in DOMAIN writes : w > answer.seen => writes[w].stamp > answer.at
  => answer'.conf # "certain"
NeverRaised == [][RaisesNothing]_vars
=============================================================================
