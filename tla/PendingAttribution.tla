------------------------- MODULE PendingAttribution -------------------------
(***************************************************************************)
(* The open attribution questions: class PendingAttribution and what it    *)
(* asks of Attributor, services/monitor/attribution.py.                    *)
(*                                                                         *)
(* A question is opened by a correlation lane (add), re-asked by the       *)
(* sweeper until it is final, and closed by whoever took it off the list:  *)
(* the sweeper, a lane that found the list full, or stop.  Each of these   *)
(* closes outside the lock what it took under it.                          *)
(*                                                                         *)
(* Time is a counter.  A question is due one Span after its read.  What    *)
(* the write log answers is abstract here: a second writer may be known at *)
(* any look; without one the answer is final once the horizon is over.     *)
(***************************************************************************)
EXTENDS Naturals, Sequences, FiniteSets, SequencesExt

CONSTANTS
  MaxNote,     \* bound: notifications; a question is named by the one that opened it
  Adder,       \* the lane threads that open questions
  Sweeper, Stopper,
  Stops,       \* may the attribution be stopped?
  MaxPending,  \* PendingAttribution.max_pending
  Span,        \* _settle_span_s: tolerance and delivery horizon
  MaxNow       \* bound: the clock

\* What the constants must satisfy; MCMonitor assumes it.
PendingAssumption ==
  /\ MaxPending \in Nat \ {0} /\ Span \in Nat \ {0} /\ MaxNow \in Nat
  /\ Sweeper # Stopper /\ {Sweeper, Stopper} \cap Adder = {}

VARIABLES
  now,       \* the horizon clock
  question,  \* the Question objects: read time, horizon start, when it settles
  items,     \* PendingAttribution._items
  sweep,     \* where the sweep is
  toClose,   \* questions each thread has taken off the list and not closed
  stopping,  \* PendingAttribution._stopping
  escalated  \* history: the outcomes handed to the escalator, per question

pendingVars == <<now, question, items, sweep, toClose, stopping, escalated>>

-------------------------------------------------------------------------------
Q == 1 .. MaxNote
Closer == Adder \cup {Sweeper, Stopper}
Times == 0 .. MaxNow + Span
NoQuestion == [asked |-> FALSE, read |-> 0, from |-> 0, settle |-> 0]
Outcome == {"final", "ambiguous", "dropped", "stopped"}
\* What a closing answer saw: the end of its window and the time of the look.
Closing == [q : Q, how : Outcome, window : Times, at : Times]
Resting == [st |-> "idle", todo |-> <<>>, done |-> <<>>, moment |-> 0,
            due |-> FALSE, read |-> 0]

PendingTypeOK ==
  /\ now \in 0 .. MaxNow
  /\ question \in [Q -> [asked : BOOLEAN, read : Times, from : Times, settle : Times]]
  /\ items \in Seq(Q) /\ Len(items) <= MaxPending
  /\ sweep \in [st : {"idle", "ask", "read", "look"}, todo : Seq(Q),
                done : Seq(Closing), moment : Times, due : BOOLEAN, read : Times]
  /\ toClose \in [Closer -> Seq(Closing)]
  /\ stopping \in {"no", "begun", "done"}
  /\ escalated \in [Q -> Seq(Closing)]

PendingInit ==
  /\ now = 0
  /\ question = [q \in Q |-> NoQuestion]
  /\ items = <<>>
  /\ sweep = Resting
  /\ toClose = [c \in Closer |-> <<>>]
  /\ stopping = "no"
  /\ escalated = [q \in Q |-> <<>>]

Unanswered(q, how) ==
  [q |-> q, how |-> how, window |-> question[q].read, at |-> now]

Tick ==
  /\ now < MaxNow
  /\ now' = now + 1
  /\ UNCHANGED <<question, items, sweep, toClose, stopping, escalated>>

-------------------------------------------------------------------------------
\* Attributor.question, with the read time of the event.
Ask(q, read) ==
  question' = [question EXCEPT ![q] =
    [asked |-> TRUE, read |-> read, from |-> read, settle |-> read + Span]]

\* Not the code: a full list grows.
Unbounded(list) == list
Room(list) == IF Len(list) >= MaxPending THEN Tail(list) ELSE list

\* add: append, and take the oldest off a full list.
Add(a, q) ==
  /\ items' = Append(Room(items), q)
  /\ toClose' = [toClose EXCEPT ![a] =
       IF Room(items) = items THEN <<>> ELSE <<Unanswered(Head(items), "dropped")>>]
  /\ UNCHANGED <<now, sweep, stopping, escalated>>

-------------------------------------------------------------------------------
(* sweep.                                                                  *)

SweepStarts ==
  /\ sweep.st = "idle" /\ stopping = "no" /\ items # <<>>
  /\ toClose[Sweeper] = <<>>
  /\ sweep' = [Resting EXCEPT !.st = "ask", !.todo = items, !.moment = now]
  /\ UNCHANGED <<now, question, items, toClose, stopping, escalated>>

\* Is the next question due?  Only then may its answer close it as final.
SweepChecks ==
  /\ sweep.st = "ask" /\ sweep.todo # <<>>
  /\ sweep' = [sweep EXCEPT !.st = "read",
                 !.due = sweep.moment >= question[Head(sweep.todo)].settle]
  /\ UNCHANGED <<now, question, items, toClose, stopping, escalated>>

\* recheck reads the question's read time ...
SweepReads ==
  /\ sweep.st = "read"
  /\ sweep' = [sweep EXCEPT !.st = "look", !.read = question[Head(sweep.todo)].read]
  /\ UNCHANGED <<now, question, items, toClose, stopping, escalated>>

\* ... then its horizon, and looks.
\* Not the code: an answer is final although its horizon is not over.
PendingNever(q, second) == FALSE
\* Not the code: only a second writer ends the wait.
PendingForever(q, second) == ~second
Pending(q, second) == ~second /\ now < question[q].from + Span

\* How the question closes, if it does: at any look when two processes wrote,
\* otherwise only when it is due and the answer is settled.
Verdict(q, second) ==
  IF Pending(q, second) THEN {}
  ELSE IF second THEN {"ambiguous"}
  ELSE IF sweep.due THEN {"final"} ELSE {}

SweepLooks ==
  LET q == Head(sweep.todo) IN
  /\ sweep.st = "look"
  /\ \E second \in BOOLEAN :
       sweep' = [sweep EXCEPT !.st = "ask", !.todo = Tail(@), !.read = 0, !.due = FALSE,
         !.done = @ \o SetToSeq({[q |-> q, how |-> v, window |-> sweep.read,
                                  at |-> now] : v \in Verdict(q, second)})]
  /\ UNCHANGED <<now, question, items, toClose, stopping, escalated>>

\* Not the code: what is final stays on the list.
Kept(finished) == items
Remaining(finished) == SelectSeq(items, LAMBDA q : q \notin finished)

\* What is final leaves the list.
SweepEnds ==
  LET finished == {sweep.done[i].q : i \in DOMAIN sweep.done} IN
  /\ sweep.st = "ask" /\ sweep.todo = <<>>
  /\ items' = Remaining(finished)
  /\ toClose' = [toClose EXCEPT ![Sweeper] = sweep.done]
  /\ sweep' = Resting
  /\ UNCHANGED <<now, question, stopping, escalated>>

\* stop takes everything, once its join of the sweeper is over.
StopBegins ==
  /\ Stops /\ stopping = "no"
  /\ stopping' = "begun"
  /\ UNCHANGED <<now, question, items, sweep, toClose, escalated>>

StopTakes ==
  /\ stopping = "begun"
  /\ stopping' = "done"
  /\ toClose' = [toClose EXCEPT ![Stopper] =
       @ \o [i \in DOMAIN items |-> Unanswered(items[i], "stopped")]]
  /\ items' = <<>>
  /\ UNCHANGED <<now, question, sweep, escalated>>

\* _close: the callback has the question and its answer.
Closed(c) ==
  /\ toClose[c] # <<>>
  /\ escalated' = [escalated EXCEPT ![Head(toClose[c]).q] =
       Append(@, Head(toClose[c]))]
  /\ toClose' = [toClose EXCEPT ![c] = Tail(@)]
  /\ UNCHANGED <<now, question, items, sweep, stopping>>

Outcomes(q) == {escalated[q][i].how : i \in DOMAIN escalated[q]}
=============================================================================
