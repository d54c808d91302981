------------------------------ MODULE AppendLog ------------------------------
(***************************************************************************)
(* What the ledger promises whoever calls POST /ledger/log: an append-only *)
(* log of entries, and one answer per call.  Entries enter the log in      *)
(* groups; an entry is answered "ok" only once it is in the log, "error"   *)
(* only if it is not and never will be; a call whose service dies is       *)
(* "lost", and its entry may be in the log or not.                         *)
(***************************************************************************)
EXTENDS Naturals, Sequences

CONSTANTS
  Entry,     \* the calls, each with its own event
  MaxGroup   \* the most entries that become durable at once

VARIABLES
  log,      \* the entries that are durable, in order
  answer    \* what each call was told

TypeOK ==
  /\ log \in Seq(Entry)
  /\ answer \in [Entry -> {"none", "ok", "error", "lost"}]

Logged(e) == \E i \in DOMAIN log : log[i] = e

Init ==
  /\ log = <<>>
  /\ answer = [e \in Entry |-> "none"]

\* A group of entries nobody has been answered about becomes durable at once.
Commit ==
  /\ \E n \in 1 .. MaxGroup : \E group \in [1 .. n -> Entry] :
       /\ \A i, j \in 1 .. n : group[i] = group[j] => i = j
       /\ \A i \in 1 .. n : ~Logged(group[i]) /\ answer[group[i]] = "none"
       /\ log' = log \o group
  /\ UNCHANGED answer

Answer(e) ==
  /\ answer[e] = "none"
  /\ answer' = [answer EXCEPT ![e] = IF Logged(e) THEN "ok" ELSE "error"]
  /\ UNCHANGED log

\* The service dies: the open calls are never answered.
Lose ==
  /\ \E open \in SUBSET {e \in Entry : answer[e] = "none"} :
       answer' = [e \in Entry |-> IF e \in open THEN "lost" ELSE answer[e]]
  /\ UNCHANGED log

Next == Commit \/ Lose \/ \E e \in Entry : Answer(e)

Spec == Init /\ [][Next]_<<log, answer>>
===============================================================================
