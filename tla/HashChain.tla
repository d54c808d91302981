------------------------------ MODULE HashChain ------------------------------
(***************************************************************************)
(* The ledger: services/ledger/hash_chain.py (HashChainLedger), the SQLite *)
(* file below it and the get_ledger dependency of services/ledger/main.py  *)
(* above it.                                                               *)
(*                                                                         *)
(* Every call of POST /ledger/log runs on a worker thread of its own.      *)
(* Appends that overlap share a commit: a caller joins the waiting list,   *)
(* and whoever finds nobody leading commits the oldest MaxBatch of them    *)
(* while the others sleep on the condition variable.  The threads inside   *)
(* `with self._turn` take one step; the leader's work on the connection    *)
(* takes several, because other threads join and read meanwhile.           *)
(*                                                                         *)
(* A hash is the sequence of events it commits to, so two hashes are equal *)
(* exactly when the chains below them are (SHA-256 taken as injective).    *)
(***************************************************************************)
EXTENDS Naturals, Sequences, FiniteSets, SequencesExt

CONSTANTS
  Entry,      \* the calls of add_block, each with its own event
  Forged,     \* an event nobody logged
  MaxBatch,   \* MAX_BATCH: the most appends one commit carries
  MaxLedger,  \* bound: how many HashChainLedger objects may be built (one
              \* less after each crash)
  ColdStart,  \* TRUE: the first calls find no ledger object and build one
  MaxCrash,   \* bound: how often the service may die
  MaxEdit     \* bound: how often someone edits the file outside the service

\* What the constants must satisfy.
HashAssumption ==
  /\ Forged \notin Entry
  /\ MaxBatch \in Nat \ {0}
  /\ MaxLedger \in Nat \ {0}
  /\ ColdStart \in BOOLEAN
  /\ MaxCrash \in Nat /\ MaxEdit \in Nat

VARIABLES
  disk,     \* the rows of the database file
  open,     \* the rows of each connection's open transaction
  waiting,  \* _waiting of each ledger object
  leading,  \* _leading of each ledger object
  rq,       \* where each call is
  made,     \* how many ledger objects this process has built
  shared,   \* main._ledger; 0 stands for None
  arrived,  \* the order the calls joined a waiting list (history)
  crashes,  \* how often the service died (history)
  edited    \* what was done to the file from outside (history)

vars == <<disk, open, waiting, leading, rq, made, shared, arrived, crashes,
          edited>>

-------------------------------------------------------------------------------
(* Types.                                                                  *)

Ledger == 1 .. MaxLedger
Event  == Entry \cup {Forged}
Hash   == Seq(Event)
Row    == [id : Nat, event : Event, prev : Hash, hash : Hash]

\* batch, tip and blocks are locals of the leader's _commit (blocks is empty if
\* it raised); done and row are the fields of the call's _Append, where an
\* append that is done and has no row carries the error.
Call == [pc     : {"new", "making", "made", "ready", "loop", "asleep", "tip",
                   "insert", "settle", "settled", "returned", "failed", "lost"},
         ledger : Ledger \cup {0},
         batch  : Seq(Entry),
         tip    : Hash,
         blocks : Seq(Row),
         done   : BOOLEAN,
         row    : Seq(Row)]

\* at is the id of the block verification must name, 0 if it cannot tell.
Edit == [kind : {"none", "row", "removed"}, at : Nat]

TypeOK ==
  /\ disk \in Seq(Row)
  /\ open \in [Ledger -> Seq(Row)]
  /\ waiting \in [Ledger -> Seq(Entry)]
  /\ leading \in [Ledger -> BOOLEAN]
  /\ rq \in [Entry -> Call]
  /\ \A e \in Entry : Len(rq[e].batch) <= MaxBatch
  /\ made \in 0 .. MaxLedger
  /\ shared \in 0 .. made
  /\ arrived \in Seq(Entry)
  /\ crashes \in 0 .. MaxCrash
  /\ edited \in Edit

\* Either the healthcheck has built the ledger object before the first call, or
\* the calls find none.
Start == IF ColdStart THEN 0 ELSE 1

Fresh == [pc |-> "new", ledger |-> 0, batch |-> <<>>, tip |-> <<>>,
          blocks |-> <<>>, done |-> FALSE, row |-> <<>>]

Init ==
  /\ disk = <<>>
  /\ open = [d \in Ledger |-> <<>>]
  /\ waiting = [d \in Ledger |-> <<>>]
  /\ leading = [d \in Ledger |-> FALSE]
  /\ rq = [e \in Entry |-> Fresh]
  /\ made = Start
  /\ shared = Start
  /\ arrived = <<>>
  /\ crashes = 0
  /\ edited = [kind |-> "none", at |-> 0]

-------------------------------------------------------------------------------
(* The chain.                                                              *)

Genesis == <<>>

\* compute_hash.
ComputeHash(event, prev) == Append(prev, event)

\* Not the code: the first row is taken for the last.
TipOldest(rows) == IF rows = <<>> THEN Genesis ELSE Head(rows).hash

\* SELECT current_hash ... ORDER BY id DESC LIMIT 1.
TipOf(rows) == IF rows = <<>> THEN Genesis ELSE Last(rows).hash

\* An INTEGER PRIMARY KEY is one more than the largest id in the table.
NextId(rows) == IF rows = <<>> THEN 1 ELSE Last(rows).id + 1

\* Not the code: the link to the row before is not tested.
BrokenInItself(rows, i) ==
  ComputeHash(rows[i].event, rows[i].prev) # rows[i].hash

\* verify_chain's test of one row.
Broken(rows, i) ==
  \/ ComputeHash(rows[i].event, rows[i].prev) # rows[i].hash
  \/ rows[i].prev # (IF i = 1 THEN Genesis ELSE rows[i - 1].hash)

\* verify_chain, on a fresh connection: it sees the file, never a transaction
\* that is still open.  0 stands for no invalid block.
VerifyChain ==
  LET bad == {i \in DOMAIN disk : Broken(disk, i)} IN
  [valid   |-> bad = {},
   checked |-> IF bad = {} THEN Len(disk) ELSE Min(bad),
   invalid |-> IF bad = {} THEN 0 ELSE disk[Min(bad)].id]

-------------------------------------------------------------------------------
(* get_ledger.                                                             *)

\* `if _ledger is None`: the test and the assignment are not one step.
Arrive(e) ==
  /\ rq[e].pc = "new"
  /\ rq' = [rq EXCEPT ![e].pc = IF shared = 0 THEN "making" ELSE "ready",
                      ![e].ledger = shared]
  /\ UNCHANGED <<disk, open, waiting, leading, made, shared, arrived, crashes,
                 edited>>

\* Each thread that found none builds one; the last assignment stays.
Make(e) ==
  /\ rq[e].pc = "making"
  /\ made + crashes < MaxLedger
  /\ made' = made + 1
  /\ shared' = made + 1
  /\ rq' = [rq EXCEPT ![e].pc = "made"]
  /\ UNCHANGED <<disk, open, waiting, leading, arrived, crashes, edited>>

\* `return _ledger` reads the global again.
TakeShared(e) ==
  /\ rq[e].pc = "made"
  /\ rq' = [rq EXCEPT ![e].pc = "ready", ![e].ledger = shared]
  /\ UNCHANGED <<disk, open, waiting, leading, made, shared, arrived, crashes,
                 edited>>

-------------------------------------------------------------------------------
(* add_block.                                                              *)

\* Not the code: the newest call is taken first.
JoinInFront(e) ==
  /\ rq[e].pc = "ready"
  /\ waiting' = [waiting EXCEPT ![rq[e].ledger] = <<e>> \o @]
  /\ arrived' = Append(arrived, e)
  /\ rq' = [rq EXCEPT ![e].pc = "loop"]
  /\ UNCHANGED <<disk, open, leading, made, shared, crashes, edited>>

Join(e) ==
  /\ rq[e].pc = "ready"
  /\ waiting' = [waiting EXCEPT ![rq[e].ledger] = Append(@, e)]
  /\ arrived' = Append(arrived, e)
  /\ rq' = [rq EXCEPT ![e].pc = "loop"]
  /\ UNCHANGED <<disk, open, leading, made, shared, crashes, edited>>

\* Somebody else is committing: wait for notify_all.
Sleep(e) ==
  /\ rq[e].pc = "loop"
  /\ leading[rq[e].ledger]
  /\ ~rq[e].done
  /\ rq' = [rq EXCEPT ![e].pc = "asleep"]
  /\ UNCHANGED <<disk, open, waiting, leading, made, shared, arrived, crashes,
                 edited>>

\* _outcome.
Return(e) ==
  /\ rq[e].pc = "loop"
  /\ rq[e].done
  /\ rq' = [rq EXCEPT ![e].pc = IF rq[e].row = <<>> THEN "failed" ELSE "returned"]
  /\ UNCHANGED <<disk, open, waiting, leading, made, shared, arrived, crashes,
                 edited>>

\* Not the code: one commit takes all that wait.
TakenAll(d) == Len(waiting[d])

\* How many of those waiting one commit takes.
Taken(d) == Min({Len(waiting[d]), MaxBatch})

\* Take the oldest appends; this call's own may not be among them.
Lead(e) ==
  LET d == rq[e].ledger
      n == Taken(d) IN
  /\ rq[e].pc = "loop"
  /\ ~leading[d]
  /\ ~rq[e].done
  /\ leading' = [leading EXCEPT ![d] = TRUE]
  /\ waiting' = [waiting EXCEPT ![d] = SubSeq(@, n + 1, Len(@))]
  /\ rq' = [rq EXCEPT ![e].pc = "tip", ![e].blocks = <<>>,
                      ![e].batch = SubSeq(waiting[d], 1, n)]
  /\ UNCHANGED <<disk, open, made, shared, arrived, crashes, edited>>

-------------------------------------------------------------------------------
(* _commit.                                                                *)

ReadTip(e) ==
  /\ rq[e].pc = "tip"
  /\ rq' = [rq EXCEPT ![e].pc = "insert",
                      ![e].tip = TipOf(disk \o open[rq[e].ledger])]
  /\ UNCHANGED <<disk, open, waiting, leading, made, shared, arrived, crashes,
                 edited>>

\* One INSERT.  The first takes SQLite's write lock, which another connection's
\* open transaction keeps.
Insert(e) ==
  LET d == rq[e].ledger
      event == rq[e].batch[Len(rq[e].blocks) + 1]
      row == [id |-> NextId(disk \o open[d]), event |-> event,
              prev |-> rq[e].tip, hash |-> ComputeHash(event, rq[e].tip)] IN
  /\ rq[e].pc = "insert"
  /\ Len(rq[e].blocks) < Len(rq[e].batch)
  /\ \A other \in Ledger \ {d} : open[other] = <<>>
  /\ open' = [open EXCEPT ![d] = Append(@, row)]
  /\ rq' = [rq EXCEPT ![e].tip = row.hash, ![e].blocks = Append(@, row)]
  /\ UNCHANGED <<disk, waiting, leading, made, shared, arrived, crashes, edited>>

Commit(e) ==
  LET d == rq[e].ledger IN
  /\ rq[e].pc = "insert"
  /\ Len(rq[e].blocks) = Len(rq[e].batch)
  /\ disk' = disk \o open[d]
  /\ open' = [open EXCEPT ![d] = <<>>]
  /\ rq' = [rq EXCEPT ![e].pc = "settle"]
  /\ UNCHANGED <<waiting, leading, made, shared, arrived, crashes, edited>>

\* Not the code: the batch fails without a rollback.
CommitFailsOpen(e) ==
  /\ rq[e].pc \in {"tip", "insert"}
  /\ rq' = [rq EXCEPT ![e].pc = "settle", ![e].blocks = <<>>]
  /\ UNCHANGED <<disk, open, waiting, leading, made, shared, arrived, crashes,
                 edited>>

\* The tip, an INSERT or the commit raises: roll back, and fail the batch.
CommitFails(e) ==
  /\ rq[e].pc \in {"tip", "insert"}
  /\ open' = [open EXCEPT ![rq[e].ledger] = <<>>]
  /\ rq' = [rq EXCEPT ![e].pc = "settle", ![e].blocks = <<>>]
  /\ UNCHANGED <<disk, waiting, leading, made, shared, arrived, crashes, edited>>

\* Not the code: nobody is notified.
WokenNobody(calls, d) == calls

\* notify_all: the sleepers of ledger d look again.
Woken(calls, d) ==
  [e \in Entry |-> IF calls[e].pc = "asleep" /\ calls[e].ledger = d
                   THEN [calls[e] EXCEPT !.pc = "loop"] ELSE calls[e]]

\* Not the code: every call of the batch is given its first block.
BlockOfFirst(e, c) == IF rq[e].blocks = <<>> THEN <<>> ELSE <<Head(rq[e].blocks)>>

\* zip(batch, blocks): a call's block is the one at its own place, or none.
BlockOf(e, c) ==
  IF rq[e].blocks = <<>> THEN <<>>
  ELSE <<rq[e].blocks[CHOOSE k \in DOMAIN rq[e].batch : rq[e].batch[k] = c]>>

\* Every entry of the batch is settled, win or lose.
Settled(e) ==
  [c \in Entry |->
     IF Contains(rq[e].batch, c)
     THEN [rq[c] EXCEPT !.done = TRUE, !.row = BlockOf(e, c)]
     ELSE rq[c]]

Settle(e) ==
  /\ rq[e].pc = "settle"
  /\ rq' = [Woken(Settled(e), rq[e].ledger) EXCEPT ![e].pc = "settled"]
  /\ UNCHANGED <<disk, open, waiting, leading, made, shared, arrived, crashes,
                 edited>>

\* The finally clause: the lead is free again.
StepDown(e) ==
  LET d == rq[e].ledger IN
  /\ rq[e].pc = "settled"
  /\ leading' = [leading EXCEPT ![d] = FALSE]
  /\ rq' = [Woken(rq, d) EXCEPT ![e].pc = "loop", ![e].batch = <<>>,
                                ![e].blocks = <<>>]
  /\ UNCHANGED <<disk, open, waiting, made, shared, arrived, crashes, edited>>

-------------------------------------------------------------------------------
(* The world around the service.                                           *)

\* The process dies and is started again: SQLite rolls the open transaction
\* back from its journal, and the calls in flight are never answered.
Crash ==
  /\ crashes < MaxCrash
  /\ crashes' = crashes + 1
  /\ open' = [d \in Ledger |-> <<>>]
  /\ waiting' = [d \in Ledger |-> <<>>]
  /\ leading' = [d \in Ledger |-> FALSE]
  /\ made' = Start
  /\ shared' = Start
  /\ rq' = [e \in Entry |->
              IF rq[e].pc \in {"new", "returned", "failed"} THEN rq[e]
              ELSE [Fresh EXCEPT !.pc = "lost"]]
  /\ UNCHANGED <<disk, arrived, edited>>

\* The file is edited outside the service, between two transactions.
Editable(i) ==
  /\ MaxEdit > 0
  /\ edited.kind = "none"
  /\ i \in DOMAIN disk
  /\ \A d \in Ledger : open[d] = <<>>

\* One column of one row is overwritten.
EditRow(i) ==
  /\ Editable(i)
  /\ \E row \in {[disk[i] EXCEPT !.event = Forged],
                 [disk[i] EXCEPT !.prev = <<Forged>>],
                 [disk[i] EXCEPT !.hash = <<Forged>>]} :
       disk' = [disk EXCEPT ![i] = row]
  /\ edited' = [kind |-> "row", at |-> disk[i].id]
  /\ UNCHANGED <<open, waiting, leading, rq, made, shared, arrived, crashes>>

\* One row is deleted: the row after it no longer links to the one before.
RemoveRow(i) ==
  /\ Editable(i)
  /\ disk' = RemoveAt(disk, i)
  /\ edited' = [kind |-> "removed",
                at |-> IF i = Len(disk) THEN 0 ELSE disk[i + 1].id]
  /\ UNCHANGED <<open, waiting, leading, rq, made, shared, arrived, crashes>>

-------------------------------------------------------------------------------
GetLedger(e) == Make(e) \/ TakeShared(e)

AddBlock(e) == Join(e) \/ Sleep(e) \/ Lead(e) \/ Return(e)

CommitBatch(e) ==
  ReadTip(e) \/ Insert(e) \/ Commit(e) \/ CommitFails(e) \/ Settle(e) \/ StepDown(e)

Next ==
  \/ \E e \in Entry : Arrive(e) \/ GetLedger(e) \/ AddBlock(e) \/ CommitBatch(e)
  \/ Crash
  \/ \E i \in DOMAIN disk : EditRow(i) \/ RemoveRow(i)

\* Each worker thread keeps running; nobody owes the service a request.
Fairness ==
  \A e \in Entry : WF_vars(GetLedger(e) \/ AddBlock(e) \/ CommitBatch(e))

Spec == Init /\ [][Next]_vars
FairSpec == Spec /\ Fairness

-------------------------------------------------------------------------------
(* Properties.                                                             *)

\* A file only the service has written verifies, and its ids are contiguous:
\* no two appends chain to the same tip (hash_chain.py, HashChainLedger).
ChainUnbroken ==
  edited.kind = "none" =>
    /\ VerifyChain.valid
    /\ \A i \in DOMAIN disk : disk[i].id = i

\* Blocks are in the order the calls were taken, across batches, failed
\* batches and restarts (add_block: "in the order the calls arrived").
ArrivalOrder ==
  edited.kind = "none" =>
    \A i, j \in DOMAIN disk : i < j =>
      \E m, n \in DOMAIN arrived :
        m < n /\ arrived[m] = disk[i].event /\ arrived[n] = disk[j].event

\* A call returns only its own block, and only once the block is in the file.
ReturnsItsBlock ==
  edited.kind = "none" =>
    \A e \in Entry : rq[e].pc = "returned" =>
      /\ Head(rq[e].row).event = e
      /\ Contains(disk, Head(rq[e].row))

\* verify_chain finds a changed row, or a row removed from inside the chain,
\* and names the first block that no longer fits, whatever is appended later.
EditNamed ==
  edited.at # 0 => ~VerifyChain.valid /\ VerifyChain.invalid = edited.at

\* Every call that joins is answered: no sleeper misses its wake-up and the
\* lead is always handed on (or the service died).
AllAnswered ==
  \A e \in Entry :
    rq[e].pc \notin {"loop", "asleep", "tip", "insert", "settle", "settled"}
EveryCallReturns == []<>AllAnswered

\* The abstract log: what is durable, and what each call was told.
Promise == INSTANCE AppendLog WITH
  MaxGroup <- MaxBatch,
  log <- [i \in DOMAIN disk |-> disk[i].event],
  answer <- [e \in Entry |-> CASE rq[e].pc = "returned" -> "ok"
                               [] rq[e].pc = "failed"   -> "error"
                               [] rq[e].pc = "lost"     -> "lost"
                               [] OTHER -> "none"]

\* The ledger implements the abstract log: a batch becomes durable as a whole
\* or not at all, no entry twice, and no call is told otherwise.
KeepsItsPromise == Promise!Spec
===============================================================================
