------------------------------ MODULE FileRead ------------------------------
(***************************************************************************)
(* How services/monitor reads a file that is being written: handle_event   *)
(* (app.py), the reads of detection.py and the structure of containers.py, *)
(* up to the verdict and the hash recorded beside it.  A request for the   *)
(* features of a file reads it the same way, and records nothing.          *)
(*                                                                         *)
(* One path.  A writer creates or truncates the file and appends one unit  *)
(* at a time; the file may be deleted; another process may hold it locked, *)
(* longer than READ_RETRY_BUDGET_SECONDS if a read finds it so and returns *)
(* nothing.  Every look at the file is a step of its own.  One observer    *)
(* thread takes the notifications in order (watchdog queues no two equal   *)
(* ones in a row).  The floor under earlier readings is Governance's.      *)
(***************************************************************************)
EXTENDS Detection, Containers, FiniteSets

CONSTANTS
  Real,      \* contents that are what their header says
  Forged,    \* and contents that are not
  Before,    \* what may be at the path from the start
  File,      \* the path
  HeadSize,  \* ENTROPY_SAMPLE_BYTES
  TailSize,  \* CONTAINER_TAIL_BYTES
  MaxOpen, MaxLock  \* bounds: writes begun, locks taken

\* What the constants must satisfy.
FileReadAssumption ==
  /\ Real \cup Forged \subseteq Seq(Unit) \ {<<>>}
  /\ Real \cap Forged = {} /\ Before \subseteq Real
  /\ {HeadSize, TailSize} \subseteq Nat \ {0}
  /\ {MaxOpen, MaxLock} \subseteq Nat
  /\ DetectionAssumption

VARIABLES
  file,     \* [there, holds]: what is at the path
  writing,  \* what a writer still has to append, <<>> if none writes
  locked,   \* another process has the file open and shares it with nobody
  queue,    \* notifications the observer has not taken
  look,     \* the reading in progress
  event,    \* the event recorded last
  opens, locks

bounds == <<opens, locks>>
vars == <<file, writing, locked, queue, look, event, bounds>>

-------------------------------------------------------------------------------
NoEvent == [verdict |-> "none", status |-> "unread", signal |-> "none",
            head |-> <<>>, readable |-> TRUE, size |-> 0, moved |-> FALSE,
            during |-> {}]

\* size and magic are the first look; during: what befell the file since.
Idle == [at |-> "idle", size |-> 0, magic |-> <<>>,
         head |-> <<>>, tail |-> <<>>, during |-> {}]

Init ==
  /\ \/ file = [there |-> FALSE, holds |-> <<>>]
     \/ \E c \in Before : file = [there |-> TRUE, holds |-> c]
  /\ writing = <<>> /\ locked = FALSE /\ queue = <<>>
  /\ look = Idle /\ event = NoEvent
  /\ opens = 0 /\ locks = 0

Notified(kind) ==
  queue' = IF queue # <<>> /\ Last(queue) = kind THEN queue
           ELSE Append(queue, kind)
Befalls(what) ==
  look' = IF look.at = "idle" THEN look
          ELSE [look EXCEPT !.during = @ \cup {what}]

-------------------------------------------------------------------------------
(* The other processes.                                                    *)

Open(content) ==
  /\ opens < MaxOpen /\ opens' = opens + 1
  /\ writing = <<>> /\ ~locked
  /\ file' = [there |-> TRUE, holds |-> <<>>] /\ writing' = content
  /\ Notified(IF file.there THEN "modified" ELSE "created")
  /\ Befalls("empty")
  /\ UNCHANGED <<locked, event, locks>>

Write ==
  /\ writing # <<>>
  /\ file' = [file EXCEPT !.holds = Append(@, Head(writing))]
  /\ writing' = Tail(writing)
  /\ Notified("modified") /\ Befalls("fill")
  /\ UNCHANGED <<locked, event, bounds>>

Delete ==
  /\ file.there /\ writing = <<>> /\ ~locked
  /\ file' = [there |-> FALSE, holds |-> <<>>]
  /\ Notified("deleted") /\ Befalls("empty")
  /\ UNCHANGED <<writing, locked, event, bounds>>

Lock ==
  /\ locks < MaxLock /\ locks' = locks + 1
  /\ file.there /\ ~locked /\ locked' = TRUE
  /\ Befalls("lock")
  /\ UNCHANGED <<file, writing, queue, event, opens>>

Unlock ==
  /\ locked /\ locked' = FALSE
  /\ UNCHANGED <<file, writing, queue, look, event, bounds>>

-------------------------------------------------------------------------------
(* What a read returns.                                                    *)

Least(a, b) == IF a < b THEN a ELSE b
From(s, m) == SubSeq(s, 1, Least(m, Len(s)))

\* open_for_read and a read of it: nothing if the file is gone, or if it is
\* locked for as long as the read is retried.
Read == IF file.there /\ ~locked THEN file.holds ELSE <<>>

\* read_sample
HeadRead == From(Read, HeadSize)

\* Not the code: the end of what was sampled of the start.
TailOfSample(size) ==
  LET s == HeadRead IN SubSeq(s, Len(s) - Least(TailSize, Len(s)) + 1, Len(s))
\* read_tail: from where the tail of a file of that size starts.
TailRead(size) ==
  LET start == IF size > TailSize THEN size - TailSize ELSE 0
      to == Least(start + TailSize, Len(Read))
  IN IF start >= to THEN <<>> ELSE SubSeq(Read, start + 1, to)

\* measure: the entropy of the whole, and of its blocks.
Dense(s) == {i \in DOMAIN s : s[i].k \in {"media", "cipher"}}
EntropyOf(s) ==
  IF s = <<>> THEN 0
  ELSE IF 2 * Cardinality(Dense(s)) >= Len(s) THEN Top
  ELSE IF Dense(s) = {} THEN 1 ELSE 2
LooksPartial(s) == EntropyOf(s) = 2

\* looks_unreadable
Unreadable(l) == l.magic = <<>> /\ l.size > 0

\* What the measurements of one head and tail come to.
ReadingOf(l) ==
  LET format == Format(l.magic)
      status == ContainerStatus(l.head, l.tail, format, l.size)
  IN [readable |-> ~Unreadable(l), entropy |-> EntropyOf(l.head),
      small |-> FALSE, partial |-> LooksPartial(l.head),
      container |-> format # "none", valid |-> Tristate(status),
      compressed |-> Compressed(l.head, l.tail, format),
      inner |-> Policy = "inner" /\ InnerExplains(l.head, format)]
StatusOf(l) == ContainerStatus(l.head, l.tail, Format(l.magic), l.size)

\* The event of a reading and of the size recorded beside it.
EventOf(l, size, moved) ==
  LET signal == Signal(File, ReadingOf(l), 0)
  IN [verdict |-> IF signal # "none" THEN "suspicious"
                  ELSE IF Unreadable(l) THEN "unreadable" ELSE "benign",
      status |-> StatusOf(l), signal |-> signal, head |-> l.head,
      readable |-> ~Unreadable(l), size |-> size, moved |-> moved,
      during |-> l.during]

-------------------------------------------------------------------------------
(* The observer takes a notification.                                      *)

Drops == look' = Idle

Begun ==
  [Idle EXCEPT !.at = "magic", !.size = Len(file.holds),
               !.during = IF locked THEN {"lock"} ELSE {}]

\* handle_event: a deletion is recorded, a file that is not there is not.
Take ==
  /\ look.at = "idle" /\ queue # <<>>
  /\ queue' = Tail(queue)
  /\ IF Head(queue) = "deleted"
     THEN event' = [NoEvent EXCEPT !.verdict = "deleted"] /\ UNCHANGED look
     ELSE look' = (IF file.there THEN Begun ELSE Idle) /\ UNCHANGED event
  /\ UNCHANGED <<file, writing, locked, bounds>>

\* Not the code: the first size is believed.
NeverAgain(magic) == FALSE
\* _size_then_magic: an empty read of a file with bytes is checked once more.
LooksAgain(magic) == magic = <<>> /\ look.size > 0

ReadMagic ==
  /\ look.at = "magic"
  /\ LET magic == From(Read, 1)
     IN look' = [look EXCEPT !.magic = magic,
                             !.at = IF LooksAgain(magic) THEN "again" ELSE "head"]
  /\ UNCHANGED <<file, writing, locked, queue, event, bounds>>

SecondLook ==
  /\ look.at = "again"
  /\ IF file.there
     THEN look' = [look EXCEPT !.size = Len(file.holds), !.at = "head"]
     ELSE Drops
  /\ UNCHANGED <<file, writing, locked, queue, event, bounds>>

\* sample_file: one read for both if the file is no longer than it.
SampleHead ==
  /\ look.at = "head"
  /\ LET head == HeadRead
     IN look' = IF look.size <= Len(head)
                THEN [look EXCEPT !.head = head, !.tail = head, !.at = "hash"]
                ELSE [look EXCEPT !.head = head, !.at = "tail"]
  /\ UNCHANGED <<file, writing, locked, queue, event, bounds>>

SampleTail ==
  /\ look.at = "tail"
  /\ look' = [look EXCEPT !.tail = TailRead(look.size), !.at = "hash"]
  /\ UNCHANGED <<file, writing, locked, queue, event, bounds>>

\* The size recorded: of what was hashed, or else the size after the read.
Recorded(l) ==
  IF ~Unreadable(l) /\ file.there /\ ~locked THEN Len(file.holds)
  ELSE IF file.there THEN Len(file.holds) ELSE l.size

\* hash_file, and the event is recorded.
Judge ==
  /\ look.at = "hash"
  /\ event' = EventOf(look, Recorded(look), Recorded(look) # look.size)
  /\ Drops
  /\ UNCHANGED <<file, writing, locked, queue, bounds>>

-------------------------------------------------------------------------------
Next ==
  \/ \E c \in Real \cup Forged : Open(c)
  \/ Write \/ Delete \/ Lock \/ Unlock
  \/ Take \/ ReadMagic \/ SecondLook
  \/ SampleHead \/ SampleTail \/ Judge

Spec == Init /\ [][Next]_vars

-------------------------------------------------------------------------------
\* Every variable has its type.
TypeOK ==
  LET kinds == {"lock", "empty", "fill"}
  IN /\ file.there \in BOOLEAN /\ file.holds \in Seq(Unit)
     /\ ~file.there => file.holds = <<>>
     /\ writing \in Seq(Unit) /\ locked \in BOOLEAN
     /\ queue \in Seq({"created", "modified", "deleted"})
     /\ look.at \in {"idle", "magic", "again", "head", "tail", "hash"}
     /\ look.size \in Nat
     /\ Len(look.magic) <= 1 /\ Len(look.head) <= HeadSize
     /\ look.tail \in Seq(Unit) /\ look.during \subseteq kinds
     /\ event.verdict \in {"none", "deleted", "unreadable", "benign",
                           "suspicious"}
     /\ event.status \in {"valid", "forged", "incomplete", "unvalidated",
                          "unreadable", "unread"}
     /\ event.size \in Nat /\ event.during \subseteq kinds

\* A file reads as locked only if somebody had it locked, or emptied and
\* filled it, while it was read (app.py:435-457): one merely truncated, or
\* just created and filled, is not.
NoInventedLock ==
  event.verdict = "unreadable" =>
    \/ "lock" \in event.during
    \/ {"empty", "fill"} \subseteq event.during

\* When all notifications have been taken and nobody writes, the event
\* recorded last judges what is at the path, whole: a container that is what
\* it says is benign, one that is not is suspicious and its status forged,
\* whatever was read torn on the way; unless it was locked meanwhile.
SettledIsJudged ==
  /\ file.there /\ writing = <<>> /\ ~locked
  /\ look.at = "idle" /\ queue = <<>>
  /\ event.verdict # "none" /\ "lock" \notin event.during
  => /\ event.readable /\ event.size = Len(file.holds) /\ ~event.moved
     /\ file.holds \in Real =>
          event.verdict = "benign" /\ event.status \in {"valid", "unvalidated"}
     /\ file.holds \in Forged =>
          event.verdict = "suspicious" /\ event.status = "forged"

\* What containers.py:34-46 says of a file that is still being written: it
\* gets the benefit of the doubt and is not called a forgery with ciphertext
\* in it.  (Not so: the size of the first look is held against a head that
\* was read later.)
BenefitOfTheDoubt ==
  event.signal = "structural_mismatch" =>
    ~\E c \in Real : IsPrefix(event.head, c)
=============================================================================
