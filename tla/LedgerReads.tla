----------------------------- MODULE LedgerReads -----------------------------
(***************************************************************************)
(* services/ledger: the reads (get_blocks, path_keys) and the two readers  *)
(* that page through the whole chain or one file's blocks, while the       *)
(* writer's batches are inserted, committed or rolled back.                *)
(*                                                                         *)
(* Readers use the writer's connection without its lock: they see rows of  *)
(* a transaction that is not committed yet, and another statement may run  *)
(* between the count and the page of one answer.  How batches are formed   *)
(* and hashed is HashChain's subject.  A reader changes nothing another    *)
(* reader could see, so there is one at a time; nothing that happens after  *)
(* its answer is complete can change it, so the writer waits until it is    *)
(* taken.                                                                  *)
(***************************************************************************)
EXTENDS Integers, SequencesExt

CONSTANTS
  Type,     \* event types
  Spelling, \* paths as they are written, see PathKey
  None,     \* no path in a block, or no filter
  MaxRows,  \* bound on the rows a chain grows to
  PageSize, \* blocks the export asks for at a time
  Limits    \* page sizes other readers ask for

\* What the constants must satisfy.
ReadsAssumption ==
  /\ \A s \in Spelling :
       /\ s.windows \in BOOLEAN /\ s.upper \in BOOLEAN
       /\ {"dir", "name", "slash"} \subseteq DOMAIN s
  /\ None \notin Spelling
  /\ MaxRows \in Nat /\ PageSize \in Nat \ {0} /\ Limits \subseteq Nat \ {0}

VARIABLES
  rows,      \* the blocks table, in the order of id
  committed, \* how many of them are committed
  lookup,    \* a GET /ledger/blocks: its question, count and page
  export     \* the dashboard's full_export

readVars == <<rows, committed, lookup, export>>

-------------------------------------------------------------------------------
(* How a path matches.                                                     *)

\* path_key: a Windows path in any case and with any separator, a POSIX path
\* as it is written.
PathKey(s) ==
  IF s.windows THEN <<s.dir, s.name>> ELSE <<s.dir, s.name, s.upper, s.slash>>
SameFile(stored, asked) == stored # None /\ PathKey(stored) = PathKey(asked)

\* Not the code: LIKE of the path as it is written.
Literal(stored, asked) == stored = asked
\* prefilter: the name, in any case, is what every spelling shares.
Prefilter(stored, asked) == stored # None /\ stored.name = asked.name

\* The WHERE of the SELECT.
Where(q, block) ==
  /\ q.type \in {None, block.type}
  /\ q.path # None => Prefilter(block.path, q.path)
\* What same_file leaves of it.
Keep(q, block) == q.path # None => SameFile(block.path, q.path)

Ordered(q, blocks) == IF q.newest THEN Reverse(blocks) ELSE blocks
\* LIMIT and OFFSET.
Slice(blocks, offset, n) ==
  SubSeq(blocks, offset + 1,
         IF offset + n <= Len(blocks) THEN offset + n ELSE Len(blocks))
Page(q, blocks) == Slice(blocks, q.offset, q.limit)

Found(q, table) == Ordered(q, SelectSeq(table, LAMBDA b : Where(q, b)))

\* Not the code any more: LIMIT and OFFSET in the SELECT.
CutFirst(q, found) == SelectSeq(Page(q, found), LAMBDA b : Keep(q, b))
\* The page is cut after matching.
CutPage(q, found) == Page(q, SelectSeq(found, LAMBDA b : Keep(q, b)))

-------------------------------------------------------------------------------
(* The writer, as a reader sees it.                                        *)

Block == [type : Type, path : Spelling \cup {None}]

\* No reader has its answer yet.
Unanswered == lookup.at # "answered" /\ export.at # "done"

Insert(b) ==
  /\ Unanswered
  /\ Len(rows) < MaxRows
  /\ rows' = Append(rows, b)
  /\ UNCHANGED <<committed, lookup, export>>

Commit ==
  /\ Unanswered
  /\ committed < Len(rows)
  /\ committed' = Len(rows)
  /\ UNCHANGED <<rows, lookup, export>>

\* The batch failed, or the service died and was started again.
Rollback ==
  /\ Unanswered
  /\ committed < Len(rows)
  /\ rows' = SubSeq(rows, 1, committed)
  /\ export' = [export EXCEPT !.undone = export.at # "idle"]
  /\ UNCHANGED <<committed, lookup>>

-------------------------------------------------------------------------------
(* GET /ledger/blocks.                                                     *)

Question ==
  [type : Type \cup {None}, path : Spelling \cup {None},
   offset : 0 .. 1, limit : Limits, newest : BOOLEAN]

Alone == lookup.at = "idle" /\ export.at = "idle"
Unasked == [at |-> "idle", table |-> <<>>, page |-> <<>>, total |-> 0]

\* A lookup by path is one SELECT; it counts what it kept.
Match(q) ==
  /\ Alone /\ q.path # None
  /\ LET found == Found(q, rows)
     IN lookup' =
          [at |-> "answered", q |-> q, table |-> rows,
           page |-> CutPage(q, found),
           total |-> Len(SelectSeq(found, LAMBDA b : Keep(q, b)))]
  /\ UNCHANGED <<rows, committed, export>>

\* Any other is a COUNT and a SELECT.
Count(q) ==
  /\ Alone /\ q.path = None
  /\ lookup' = [at |-> "counted", q |-> q, table |-> <<>>, page |-> <<>>,
                total |-> Len(Found(q, rows))]
  /\ UNCHANGED <<rows, committed, export>>

Select ==
  /\ lookup.at = "counted"
  /\ lookup' = [lookup EXCEPT !.at = "answered",
                              !.page = Page(lookup.q, Found(lookup.q, rows))]
  /\ UNCHANGED <<rows, committed, export>>

Forget ==
  /\ lookup.at = "answered" /\ lookup' = Unasked
  /\ UNCHANGED <<rows, committed, export>>

-------------------------------------------------------------------------------
(* full_export: oldest first, until the offset has passed the total.       *)

NotAsked ==
  [at |-> "idle", offset |-> 0, out |-> <<>>, total |-> 0, first |-> 0,
   undone |-> FALSE]

Begin ==
  /\ Alone
  /\ export' = [NotAsked EXCEPT !.at = "count", !.first = committed]
  /\ UNCHANGED <<rows, committed, lookup>>

CountPage ==
  /\ export.at = "count"
  /\ export' = [export EXCEPT !.at = "page", !.total = Len(rows)]
  /\ UNCHANGED <<rows, committed, lookup>>

\* Not the code: an offset too early.
EndsEarly(page, next) == next + 1 >= export.total \/ page = <<>>
\* When the walk is over: the page was empty, or the total is reached.
WasLast(page, next) == next >= export.total \/ page = <<>>

TakePage ==
  /\ export.at = "page"
  /\ LET page == Slice(rows, export.offset, PageSize)
         next == export.offset + PageSize
     IN export' =
          [export EXCEPT !.out = @ \o page, !.offset = next,
                         !.at = IF WasLast(page, next) THEN "done" ELSE "count"]
  /\ UNCHANGED <<rows, committed, lookup>>

Download ==
  /\ export.at = "done" /\ export' = NotAsked
  /\ UNCHANGED <<rows, committed, lookup>>

-------------------------------------------------------------------------------
Init ==
  /\ rows = <<>> /\ committed = 0
  /\ lookup = Unasked /\ export = NotAsked

Next ==
  \/ \E b \in Block : Insert(b)
  \/ Commit \/ Rollback
  \/ \E q \in Question : Match(q) \/ Count(q)
  \/ Select \/ Forget
  \/ Begin \/ CountPage \/ TakePage \/ Download

Spec == Init /\ [][Next]_readVars

-------------------------------------------------------------------------------
\* Every variable has its type.
TypeOK ==
  /\ rows \in BoundedSeq(Block, MaxRows) /\ committed \in 0 .. Len(rows)
  /\ lookup.at \in {"idle", "counted", "answered"} /\ lookup.total \in Nat
  /\ export.at \in {"idle", "count", "page", "done"}
  /\ export.offset \in Nat /\ export.first \in 0 .. committed

\* A lookup by path returns what it was asked for: the n-th of the blocks that
\* name the file, in whatever spelling, and all of them are counted.
LookupIsExact ==
  lookup.at = "answered" /\ lookup.q.path # None =>
    LET q == lookup.q
        about == SelectSeq(lookup.table, LAMBDA b :
                   q.type \in {None, b.type} /\ SameFile(b.path, q.path))
    IN /\ lookup.total = Len(about)
       /\ lookup.page = Page(q, Ordered(q, about))

\* The export has every block that was committed when it began, in order and
\* once; unless a batch was rolled back meanwhile it is a prefix of the chain.
ExportMissesNothing ==
  export.at = "done" =>
    /\ IsPrefix(SubSeq(rows, 1, export.first), export.out)
    /\ ~export.undone => IsPrefix(export.out, rows)
=============================================================================
