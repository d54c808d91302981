----------------------------- MODULE KillMemory -----------------------------
(***************************************************************************)
(* The kill a closed question authorises: Attributor.verify, and           *)
(* escalation_action with its TerminationRegistry (attribution.py and      *)
(* pipeline.py of services/monitor).                                       *)
(*                                                                         *)
(* One PID, which the system gives to one process after another, and the   *)
(* questions whose CERTAIN answer names it.  A question is verified when   *)
(* it closes and waits in the PID's kill lane; a writer's burst closes     *)
(* many at once, and all of them may be verified before anything is done   *)
(* about the first.  A kill worker takes them one at a time                *)
(* (Escalation.OneKillPerPid), checks each against the kills already made, *)
(* looks at the PID's owner once more, and asks the Response service,      *)
(* which kills whoever has the PID when the request arrives; its answer    *)
(* may be lost.  Processes come and go between any two of these steps.     *)
(*                                                                         *)
(* One clock stands for the system clock and the horizon clock.  Times are *)
(* exact; Tolerance is what the code allows for their error.  That the     *)
(* memory ages is left out: its bound in number forgets the same things.   *)
(***************************************************************************)
EXTENDS Integers, Sequences, FiniteSets, SequencesExt

CONSTANTS
  Image,      \* executables; a process runs one
  Tolerance,  \* CLOCK_TOLERANCE_MS
  MaxKills,   \* TerminationRegistry.max_entries
  Attempts,   \* UNCONFIRMED_ATTEMPTS
  MaxProc,    \* bound: processes that get the PID
  MaxQuestion, MaxNow  \* bounds: questions, the clock

\* What the constants must satisfy; MCMonitor assumes it.
KillMemoryAssumption ==
  /\ Tolerance \in Nat /\ MaxKills \in Nat \ {0} /\ Attempts \in Nat \ {0}
  /\ MaxProc \in Nat /\ MaxQuestion \in Nat /\ MaxNow \in Nat

VARIABLES
  now,
  proc,         \* the processes that have had the PID, in order
  quest,        \* the questions: who wrote when, when was it read, what became of it
  lane,         \* the PID's kill lane: verified questions, each with whom verify saw
  act,          \* _take_action: its question, its step, what its probe saw
  kills,        \* _items: confirmed kills, oldest first
  unconfirmed,  \* _unconfirmed: attempts by start time, the newest last
  fate,         \* history: how each process ended
  hits          \* history: the kills, each with its question and what was seen

vars == <<now, proc, quest, lane, act, kills, unconfirmed, fate, hits>>

-------------------------------------------------------------------------------
Time == 0 .. MaxNow
Unread == -1   \* a start time that could not be read
Gone == 0      \* nobody has the PID
Proc == 1 .. MaxProc
I == DOMAIN proc
Alive == Len(proc) > 0 /\ fate[Len(proc)] = "alive"
Owner == IF Alive THEN Len(proc) ELSE Gone

Result == {"open", "not_escalated", "queued", "asked", "terminated_earlier",
           "pid_reused_before_kill", "termination_unconfirmed_earlier"}
Waiting == [q : 1 .. MaxQuestion, closed : Proc]
Entry == [created : Time \cup {Unread}, image : Image, at : Time]
Resting == [st |-> "idle", q |-> 0, closed |-> Gone, saw |-> Gone,
            started |-> Unread, at |-> 0]

TypeOK ==
  /\ now \in Time
  /\ proc \in Seq([born : Time, image : Image]) /\ Len(proc) <= MaxProc
  /\ fate \in [Proc -> {"none", "alive", "exited", "killed"}]
  /\ quest \in Seq([by : Proc, written : Time, read : Time, result : Result])
  /\ lane \in Seq(Waiting)
  /\ act \in [st : {"idle", "probe", "ask", "asked", "lost", "confirmed"},
              q : 0 .. MaxQuestion, closed : 0 .. MaxProc, saw : 0 .. MaxProc,
              started : Time \cup {Unread}, at : Time]
  /\ kills \in Seq(Entry) /\ Len(kills) <= MaxKills
  /\ unconfirmed \in [Time -> Seq(Entry)]
  /\ \A t \in Time : Len(unconfirmed[t]) <= Attempts
  /\ hits \in SUBSET [q : 1 .. MaxQuestion, who : Proc, closed : 0 .. MaxProc,
                      saw : 0 .. MaxProc, started : Time \cup {Unread}]

Init ==
  /\ now = 0
  /\ proc = <<>> /\ quest = <<>> /\ lane = <<>> /\ act = Resting
  /\ kills = <<>> /\ unconfirmed = [t \in Time |-> <<>>]
  /\ fate = [i \in Proc |-> "none"] /\ hits = {}

-------------------------------------------------------------------------------
(* The outside.                                                            *)

Tick ==
  /\ now < MaxNow
  /\ now' = now + 1
  /\ UNCHANGED <<proc, quest, lane, act, kills, unconfirmed, fate, hits>>

Spawn(image) ==
  /\ ~Alive /\ Len(proc) < MaxProc
  /\ proc' = Append(proc, [born |-> now, image |-> image])
  /\ fate' = [fate EXCEPT ![Len(proc')] = "alive"]
  /\ UNCHANGED <<now, quest, lane, act, kills, unconfirmed, hits>>

Exit ==
  /\ Alive
  /\ fate' = [fate EXCEPT ![Owner] = "exited"]
  /\ UNCHANGED <<now, proc, quest, lane, act, kills, unconfirmed, hits>>

\* A write by the PID's owner; its bytes are read at the same time.
WriteFile ==
  /\ Alive /\ Len(quest) < MaxQuestion
  /\ quest' = Append(quest,
       [by |-> Owner, written |-> now, read |-> now, result |-> "open"])
  /\ UNCHANGED <<now, proc, lane, act, kills, unconfirmed, fate, hits>>

-------------------------------------------------------------------------------
(* The identity check and the kill memory.                                 *)

\* The answer names the image the audit record of the write named.
ImageOf(q) == proc[quest[q].by].image
\* The start time a probe of the PID may read.
Starts(i) == {proc[i].born, Unread}

\* Not the code: a start time proves nothing.
AfterNever(started, q) == FALSE
\* _started_after_write.
StartedAfter(started, q) == started # Unread /\ started > quest[q].written + Tolerance

\* _check_identity: what a look at the PID's owner says when the question
\* closes; neither the image nor the start time need be readable.
Verified(q) ==
  /\ Owner # Gone
  /\ \E started \in Starts(Owner), imageRead \in BOOLEAN :
       /\ ~StartedAfter(started, q)
       /\ imageRead => proc[Owner].image = ImageOf(q)
       /\ imageRead \/ started # Unread

\* Not the code: a kill covers every write of the PID.
WroteAnything(e, q) == TRUE
\* Termination.wrote, on both clocks.
Wrote(e, q) ==
  /\ e.created # Unread
  /\ e.image = ImageOf(q)
  /\ e.created <= quest[q].written + Tolerance
  /\ quest[q].written + Tolerance < e.at
  /\ quest[q].read + Tolerance < e.at

\* The newest kill that covers the question decides alone.
Covering(q) == {k \in DOMAIN kills : Wrote(kills[k], q)}
KilledEarlier(q, started) ==
  /\ Covering(q) # {}
  /\ LET e == kills[CHOOSE k \in Covering(q) : \A j \in Covering(q) : j <= k] IN
     \/ Owner = Gone
     \/ started # Unread /\ started # e.created /\ StartedAfter(started, q)

\* _unconfirmed_earlier: of the process the probe sees, or of any if the PID
\* is gone; an owner whose start time is unread or too late has none.
Spent(t, q) == Cardinality({k \in DOMAIN unconfirmed[t] : Wrote(unconfirmed[t][k], q)})
             >= Attempts
UnconfirmedEarlier(q, started) ==
  IF Owner = Gone THEN \E t \in Time : Spent(t, q)
  ELSE started # Unread /\ ~StartedAfter(started, q) /\ Spent(started, q)

-------------------------------------------------------------------------------
(* Closing, and _take_action.                                              *)

Closes(q, result) == quest' = [quest EXCEPT ![q].result = result]

\* sweep closes a question with its final answer.  One that is verified goes to
\* its PID's lane; an answer that is not certain, a failed check, or a question
\* closed without a final answer goes to the writer, without a kill.
Close(q) ==
  /\ quest[q].result = "open"
  /\ \/ /\ Verified(q)
        /\ Closes(q, "queued")
        /\ lane' = Append(lane, [q |-> q, closed |-> Owner])
     \/ Closes(q, "not_escalated") /\ UNCHANGED lane
  /\ UNCHANGED <<now, proc, act, kills, unconfirmed, fate, hits>>

\* A kill worker takes the lane's next question.
Take ==
  /\ act = Resting /\ lane # <<>>
  /\ act' = [Resting EXCEPT !.st = "probe", !.q = Head(lane).q,
                            !.closed = Head(lane).closed]
  /\ lane' = Tail(lane)
  /\ UNCHANGED <<now, proc, quest, kills, unconfirmed, fate, hits>>

\* First the kills already made.  A probe that fails reads like an unread
\* start time.
Earlier ==
  /\ act.st = "probe"
  /\ \E started \in IF Owner = Gone THEN {Unread} ELSE Starts(Owner) :
       IF KilledEarlier(act.q, started)
       THEN Closes(act.q, "terminated_earlier") /\ act' = Resting
       ELSE act' = [act EXCEPT !.st = "ask"] /\ UNCHANGED quest
  /\ UNCHANGED <<now, proc, lane, kills, unconfirmed, fate, hits>>

\* The probe just before the request; then the request goes out.
Ask ==
  LET q == act.q IN
  /\ act.st = "ask"
  /\ \E started \in IF Owner = Gone THEN {Unread} ELSE Starts(Owner) :
       IF StartedAfter(started, q)
       THEN Closes(q, "pid_reused_before_kill") /\ act' = Resting
       ELSE IF UnconfirmedEarlier(q, started)
       THEN Closes(q, "termination_unconfirmed_earlier") /\ act' = Resting
       ELSE /\ Closes(q, "asked")
            /\ act' = [act EXCEPT !.st = "asked", !.saw = Owner, !.started = started,
                                  !.at = now]
  /\ UNCHANGED <<now, proc, lane, kills, unconfirmed, fate, hits>>

\* The Response service kills whoever has the PID, or refuses; it answers
\* "terminated" for a kill, unless the answer is lost.
Serve ==
  /\ act.st = "asked"
  /\ \/ /\ Alive
        /\ fate' = [fate EXCEPT ![Owner] = "killed"]
        /\ hits' = hits \cup {[q |-> act.q, who |-> Owner, closed |-> act.closed,
                               saw |-> act.saw, started |-> act.started]}
        /\ \E st \in {"confirmed", "lost"} : act' = [act EXCEPT !.st = st]
     \/ /\ act' = [act EXCEPT !.st = "lost"]
        /\ UNCHANGED <<fate, hits>>
  /\ UNCHANGED <<now, proc, quest, lane, kills, unconfirmed>>

ThisAttempt == [created |-> act.started, image |-> ImageOf(act.q), at |-> act.at]
LastN(s, n) == IF Len(s) > n THEN SubSeq(s, Len(s) - n + 1, Len(s)) ELSE s

\* Not the code: a request that was not confirmed counts as a kill.
AlwaysAKill == TRUE
IsAKill == act.st = "confirmed"

\* remember; one entry per process, the oldest forgotten.
Popped(started) ==
  LET at == {k \in DOMAIN kills : kills[k].created = started} IN
  IF at = {} THEN kills ELSE RemoveAt(kills, CHOOSE k \in at : TRUE)
Remember ==
  /\ IsAKill
  /\ kills' = LastN(Append(Popped(act.started), ThisAttempt), MaxKills)
  /\ UNCHANGED unconfirmed

\* remember_unconfirmed, if the start time is known.
RememberUnconfirmed ==
  /\ ~IsAKill
  /\ unconfirmed' = IF act.started = Unread THEN unconfirmed
       ELSE [unconfirmed EXCEPT ![act.started] = LastN(Append(@, ThisAttempt), Attempts)]
  /\ UNCHANGED kills

Answered ==
  /\ act.st \in {"confirmed", "lost"}
  /\ Remember \/ RememberUnconfirmed
  /\ act' = Resting
  /\ UNCHANGED <<now, proc, quest, lane, fate, hits>>

-------------------------------------------------------------------------------
Next ==
  \/ Tick \/ Exit \/ WriteFile \/ \E image \in Image : Spawn(image)
  \/ \E q \in DOMAIN quest : Close(q)
  \/ Take \/ Earlier \/ Ask \/ Serve \/ Answered
Spec == Init /\ [][Next]_vars

-------------------------------------------------------------------------------
(* What the kill path promises.                                            *)

\* A process that started by the question's write, as far as the clocks tell.
OldEnough(i, q) == proc[i].born <= quest[q].written + Tolerance

\* attribution.py 1554-1573 and pipeline.py 660-668: a process killed for a
\* question wrote what the question is about, or had already started then; or
\* it took the PID after the last probe; or that probe could not read its start
\* time, and it took the PID after the question closed or runs the same image.
OnlyTheWriterIsKilled ==
  \A hit \in hits :
    \/ OldEnough(hit.who, hit.q)
    \/ hit.who # hit.saw
    \/ /\ hit.started = Unread
       /\ hit.who # hit.closed \/ proc[hit.who].image = ImageOf(hit.q)

\* pipeline.py 314-320 and 764-766: a question closed as terminated earlier is
\* about a process this Monitor had killed - unless a request met another
\* process than its probe, or the clocks cannot tell a later one from it.
TerminatedEarlierWasKilled ==
  \A q \in DOMAIN quest :
    /\ quest[q].result = "terminated_earlier"
    /\ \A hit \in hits : hit.who = hit.saw
    /\ \A i \in I : i > quest[q].by => ~OldEnough(i, q)
    => fate[quest[q].by] = "killed"
=============================================================================
