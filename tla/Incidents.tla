----------------------------- MODULE Incidents ------------------------------
(***************************************************************************)
(* From a notification to the incident that answers for it: the part of    *)
(* services/monitor/app.py between handle_event and the escalator,         *)
(* composed with PendingAttribution.                                       *)
(*                                                                         *)
(* The observer stamps each notification with its file's epoch and queues  *)
(* it on the lane of its path.  The lane folds it into the open incident   *)
(* for the file or opens one of its own; the closing answer is then        *)
(* written into every notification that joined.  The locks are those of    *)
(* the code: _INCIDENTS_LOCK around joining and closing, _LOCK around the  *)
(* fields of events - and a join takes one after the other.                *)
(***************************************************************************)
EXTENDS PendingAttribution

CONSTANTS
  Path,      \* file paths; each has its lane thread
  Content,   \* what a file's bytes hash to
  Coalesce,  \* COALESCE_MS: how old an incident may be joined
  Nobody     \* _INCIDENTS_LOCK is free

\* What the constants must satisfy; MCMonitor assumes it.
IncidentsAssumption ==
  /\ PendingAssumption
  /\ Adder = Path /\ Coalesce < Span

VARIABLES
  epoch,     \* _FILE_EPOCHS: new-file notifications so far, by path
  note,      \* the notifications, as handle_event stamped them
  lane,      \* the notifications queued on each path's lane
  corr,      \* where each lane's thread is in _correlate
  openAt,    \* _OPEN_INCIDENTS: the newest open incident of a path, 0 if none
  incident,  \* the incident each question belongs to: who joined, is it closed
  incLock,   \* _INCIDENTS_LOCK
  telling,   \* notifications a closing thread is about to write the answer to
  says,      \* what a notification's fields say of its attribution
  tardy      \* history: joined when the incident's horizon was already over

incVars == <<epoch, note, lane, corr, openAt, incident, incLock, telling, says,
             tardy>>
allVars == <<pendingVars, incVars>>

-------------------------------------------------------------------------------
Note == [path : Path, new : BOOLEAN, hash : Content, epoch : Nat, read : Nat]
AtRest == [st |-> "idle", note |-> 0, q |-> 0, settle |-> 0]

TypeOK ==
  /\ PendingTypeOK
  /\ epoch \in [Path -> 0 .. MaxNote]
  /\ note \in Seq(Note) /\ Len(note) <= MaxNote
  /\ lane \in [Path -> Seq(Q)]
  /\ corr \in [Path -> [st : {"idle", "read", "settle", "copy", "close"},
                        note : 0 .. MaxNote, q : 0 .. MaxNote, settle : Times]]
  /\ openAt \in [Path -> 0 .. MaxNote]
  /\ incident \in [Q -> [joined : SUBSET Q, closed : BOOLEAN]]
  /\ incLock \in Path \cup {Nobody}
  /\ telling \in [Closer -> SUBSET Q]
  /\ says \in [Q -> {"queued", "open", "closed"}]
  /\ tardy \in SUBSET Q

Init ==
  /\ PendingInit
  /\ epoch = [p \in Path |-> 0]
  /\ note = <<>>
  /\ lane = [p \in Path |-> <<>>]
  /\ corr = [p \in Path |-> AtRest]
  /\ openAt = [p \in Path |-> 0]
  /\ incident = [q \in Q |-> [joined |-> {}, closed |-> FALSE]]
  /\ incLock = Nobody
  /\ telling = [c \in Closer |-> {}]
  /\ says = [n \in Q |-> "queued"]
  /\ tardy = {}

-------------------------------------------------------------------------------
\* _new_file_at: nothing seen from now on joins an incident of the old file.
NewFileAt(p) == [epoch EXCEPT ![p] = @ + 1]

\* handle_event: a created or renamed file starts an epoch; the notification
\* carries the epoch of its arrival and the time of its read.  (Reads end one
\* Span before the clock does.)
Notify(p, new, hash) ==
  /\ Len(note) < MaxNote /\ incLock = Nobody
  /\ now + Span <= MaxNow
  /\ epoch' = IF new THEN NewFileAt(p) ELSE epoch
  /\ note' = Append(note, [path |-> p, new |-> new, hash |-> hash,
                          epoch |-> epoch'[p], read |-> now])
  /\ lane' = [lane EXCEPT ![p] = Append(@, Len(note) + 1)]
  /\ UNCHANGED <<pendingVars, corr, openAt, incident, incLock, telling, says, tardy>>

\* _join_open_incident: may notification n join the open incident of its path?
SameFile(n, q) == note[q].epoch = note[n].epoch

Joins(n) ==
  LET q == openAt[note[n].path] IN
  /\ ~note[n].new
  /\ q # 0
  /\ ~incident[q].closed
  /\ SameFile(n, q)
  /\ note[q].hash = note[n].hash
  /\ note[n].read - note[q].read <= Coalesce

\* Not the code: the window moves, and its horizon does not.
WindowMoves(q, t) == [question EXCEPT ![q].read = IF @ < t THEN t ELSE @]
HorizonMoves(q, t) == [question EXCEPT ![q].from = IF @ < t THEN t ELSE @]

\* The horizon moves first ...
JoinHorizon(p) ==
  LET n == Head(lane[p])
      q == openAt[p]
  IN
  /\ corr[p] = AtRest /\ lane[p] # <<>> /\ incLock = Nobody /\ Joins(n)
  /\ incLock' = p
  /\ corr' = [corr EXCEPT ![p] = [st |-> "read", note |-> n, q |-> q,
                                  settle |-> question[q].settle]]
  /\ lane' = [lane EXCEPT ![p] = Tail(@)]
  /\ question' = HorizonMoves(q, note[n].read)
  /\ UNCHANGED <<now, items, sweep, toClose, stopping, escalated, epoch, note,
                 openAt, incident, telling, says, tardy>>

\* Not the code: the window is left where the opener's read put it.
ReadStays(q) == question
ReadFollows(q) == [question EXCEPT ![q].read = IF @ < question[q].from
                                               THEN question[q].from ELSE @]

\* ... then the read time ...
JoinRead(p) ==
  LET q == corr[p].q IN
  /\ corr[p].st = "read"
  /\ corr' = [corr EXCEPT ![p].st = "settle"]
  /\ question' = ReadFollows(q)
  /\ UNCHANGED <<now, items, sweep, toClose, stopping, escalated, epoch, note, lane,
                 openAt, incident, incLock, telling, says, tardy>>

\* ... then when it settles; the notification is on the incident's list.
JoinSettle(p) ==
  LET n == corr[p].note
      q == corr[p].q
  IN
  /\ corr[p].st = "settle"
  /\ corr' = [corr EXCEPT ![p].st = "copy"]
  /\ question' = [question EXCEPT ![q].settle = question[q].from + Span]
  /\ incident' = [incident EXCEPT ![q].joined = @ \cup {n}]
  /\ incLock' = Nobody
  /\ tardy' = IF now >= corr[p].settle THEN tardy \cup {n} ELSE tardy
  /\ UNCHANGED <<now, items, sweep, toClose, stopping, escalated, epoch, note, lane,
                 openAt, telling, says>>

\* The opener's attribution fields are copied under the other lock.
JoinCopies(p) ==
  /\ corr[p].st = "copy"
  /\ says' = [says EXCEPT ![corr[p].note] = says[corr[p].q]]
  /\ corr' = [corr EXCEPT ![p] = AtRest]
  /\ UNCHANGED <<pendingVars, epoch, note, lane, openAt, incident, incLock, telling,
                 tardy>>

-------------------------------------------------------------------------------
\* _correlate goes on alone: the first answer may be final at once.
Resolve(p) ==
  /\ corr[p] = AtRest /\ lane[p] # <<>> /\ incLock = Nobody /\ ~Joins(Head(lane[p]))
  /\ lane' = [lane EXCEPT ![p] = Tail(@)]

Answered(p) ==
  /\ Resolve(p)
  /\ says' = [says EXCEPT ![Head(lane[p])] = "closed"]
  /\ UNCHANGED <<pendingVars, epoch, note, corr, openAt, incident, incLock, telling,
                 tardy>>

\* _open_question: the question and its incident, then the list; only from
\* there can anybody take it.
OpenQuestion(p) ==
  LET n == Head(lane[p]) IN
  /\ Resolve(p)
  /\ Ask(n, note[n].read)
  /\ Add(p, n)
  /\ openAt' = [openAt EXCEPT ![p] = n]
  /\ corr' = [corr EXCEPT ![p].st = "close"]
  /\ says' = [says EXCEPT ![n] = "open"]
  /\ UNCHANGED <<epoch, note, incident, incLock, telling, tardy>>

Correlated(p) ==
  /\ corr[p].st = "close" /\ toClose[p] = <<>>
  /\ corr' = [corr EXCEPT ![p] = AtRest]
  /\ UNCHANGED <<pendingVars, epoch, note, lane, openAt, incident, incLock, telling,
                 says, tardy>>

-------------------------------------------------------------------------------
\* _close_incident: nothing joins any more; the list is copied under its lock.
CloseIncident(c) ==
  LET q == Head(toClose[c]).q
      p == note[q].path
  IN
  /\ toClose[c] # <<>> /\ incLock = Nobody /\ ~incident[q].closed
  /\ incident' = [incident EXCEPT ![q].closed = TRUE]
  /\ openAt' = IF openAt[p] = q THEN [openAt EXCEPT ![p] = 0] ELSE openAt
  /\ telling' = [telling EXCEPT ![c] = incident[q].joined]
  /\ UNCHANGED <<pendingVars, epoch, note, lane, corr, incLock, says, tardy>>

\* The answer is written to the copy, and the question handed to the escalator.
HandOn(c) ==
  /\ toClose[c] # <<>> /\ incident[Head(toClose[c]).q].closed
  /\ Closed(c)
  /\ says' = [n \in Q |-> IF n \in telling[c] THEN "closed" ELSE says[n]]
  /\ telling' = [telling EXCEPT ![c] = {}]
  /\ UNCHANGED <<epoch, note, lane, corr, openAt, incident, incLock, tardy>>

\* _show_closed, on the escalator's threads: the opener has the answer too.
ShowClosed(q) ==
  /\ escalated[q] # <<>> /\ says[q] # "closed"
  /\ says' = [says EXCEPT ![q] = "closed"]
  /\ UNCHANGED <<pendingVars, epoch, note, lane, corr, openAt, incident, incLock,
                 telling, tardy>>

-------------------------------------------------------------------------------
ObserverNext == \E p \in Path, new \in BOOLEAN, h \in Content : Notify(p, new, h)
LaneStep(p) ==
  \/ JoinHorizon(p) \/ JoinRead(p) \/ JoinSettle(p) \/ JoinCopies(p)
  \/ Answered(p) \/ OpenQuestion(p) \/ Correlated(p)
CloseStep(c) == CloseIncident(c) \/ HandOn(c)
SweepStep == SweepStarts \/ SweepChecks \/ SweepReads \/ SweepLooks \/ SweepEnds
PendingStep == SweepStep \/ StopBegins \/ StopTakes
Sweeps == SweepStep /\ UNCHANGED incVars
Ticks == Tick /\ UNCHANGED incVars
Next ==
  \/ ObserverNext
  \/ \E p \in Path : LaneStep(p)
  \/ \E c \in Closer : CloseStep(c)
  \/ (PendingStep \/ Tick) /\ UNCHANGED incVars
  \/ \E q \in Q : ShowClosed(q)

\* The lanes, the sweeper and time go on; nobody has to stop the attribution.
Fairness ==
  /\ \A p \in Path : WF_allVars(LaneStep(p))
  /\ \A c \in Closer : WF_allVars(CloseStep(c))
  /\ WF_allVars(Sweeps)
  /\ WF_allVars(Ticks)
  /\ \A q \in Q : WF_allVars(ShowClosed(q))

Spec == Init /\ [][Next]_allVars
FairSpec == Spec /\ Fairness

-------------------------------------------------------------------------------
(* What an incident promises.                                              *)

\* attribution.py 1763: "Every question closes exactly once".
ClosesOnce == \A q \in Q : Len(escalated[q]) <= 1

\* What is true of it: two closings are never of one kind, and one of them is
\* the answer of somebody who did not wait for the sweep.
ClosesOnceEach ==
  \A q \in Q :
    /\ Cardinality(Outcomes(q)) = Len(escalated[q])
    /\ Len(escalated[q]) > 1 => Outcomes(q) \cap {"dropped", "stopped"} # {}

\* app.py 1208-1211: a closing answer never uses the window of a later
\* notification with the horizon of an earlier one.
WindowHadItsHorizon ==
  \A q \in Q : \A i \in DOMAIN escalated[q] :
    escalated[q][i].how = "final" => escalated[q][i].at >= escalated[q][i].window + Span

\* app.py 1200-1206: the final answer of an incident covers the read of every
\* notification that joined while the question was not yet due.
JoinedIsCovered ==
  \A q \in Q : incident[q].joined \cap tardy = {} =>
    \A n \in incident[q].joined : \A i \in DOMAIN escalated[q] :
      escalated[q][i].how = "final" => escalated[q][i].window >= note[n].read

\* Every question is closed and the fields of its notification say so, unless
\* the attribution is stopped.
AllClosed ==
  stopping = "no" =>
    \A q \in Q : question[q].asked => escalated[q] # <<>> /\ says[q] = "closed"
EveryQuestionCloses == []<>AllClosed
=============================================================================
