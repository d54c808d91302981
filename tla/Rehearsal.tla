------------------------------ MODULE Rehearsal ------------------------------
(***************************************************************************)
(* The test harness scripts/ransomware_simulator.py, as a program that may *)
(* be killed at any point: what it keeps on disk so that --restore can put *)
(* back every decoy it rewrote.                                            *)
(*                                                                         *)
(* A run writes decoys, a manifest in the target directory (in place, so a *)
(* kill can tear it), a copy of every decoy in a saved directory of its    *)
(* own, and a journal there (replaced atomically).  It then rewrites one   *)
(* decoy after another, journalled before, noted in the manifest after.    *)
(* Its thirteen families are three shapes: rewritten in place, rewritten   *)
(* and then renamed, or written anew beside the original, which is then    *)
(* deleted.  A restore copies the originals back, or undoes the rewriting  *)
(* where it has no copy, and discards the copies.  Other runs prune saved  *)
(* directories they take for orphans.                                      *)
(*                                                                         *)
(* What a family leaves besides (a note, the files that raise a ceiling),  *)
(* the checksum of a copy, a target that was deleted and manifests of      *)
(* older versions are left out; decoys are built in one step.              *)
(***************************************************************************)
EXTENDS Integers, FiniteSets

CONSTANTS
  Files,      \* --files: the decoys are 1 .. Files
  MaxRun,     \* bound: runs on this target
  MaxRestore  \* bound: restores

\* What the constants must satisfy.
RehearsalAssumption == {Files, MaxRun, MaxRestore} \subseteq Nat \ {0}

VARIABLES
  shape,     \* of the family: "inplace", "renamed" or "beside"
  disk,      \* each decoy: what is under its name, and under its new name
  manifest,  \* in the target: none, torn, or whole, of which run's saved dir
  journal,   \* of each run: none, or the state of each decoy
  copies,    \* of each run: the decoys saved
  runs, restores,
  proc,      \* the run or restore in progress: what it does next
  pruner,    \* the saved directory another run has found an orphan, 0 if none
  discarded, \* a copy has been, of those the manifest leads to or led to
  result     \* what the last restore came to; late: copies had been discarded

vars == <<shape, disk, manifest, journal, copies, runs, restores, proc, pruner,
          discarded, result>>

-------------------------------------------------------------------------------
Decoy == 1 .. Files
Content == {"none", "plain", "torn", "cipher", "garbled"}
NoJournal == [d \in Decoy |-> "none"]
Nobody == [who |-> "nobody", step |-> "none", d |-> 0, entries |-> {},
           from |-> 0, handled |-> {}, recovered |-> FALSE]
NoManifest == [is |-> "none", entries |-> {}, saved |-> 0]

TypeOK ==
  /\ shape \in {"inplace", "renamed", "beside"}
  /\ disk \in [Decoy -> [here : Content, out : Content]]
  /\ manifest.is \in {"none", "torn", "whole"}
  /\ manifest.entries \subseteq Decoy /\ manifest.saved \in 0 .. runs
  /\ journal \in [1 .. MaxRun ->
                    [Decoy -> {"none", "pending", "in_flight", "done"}]]
  /\ copies \in [1 .. MaxRun -> SUBSET Decoy]
  /\ runs \in 0 .. MaxRun /\ restores \in 0 .. MaxRestore
  /\ proc.who \in {"nobody", "run", "restore"} /\ proc.d \in 0 .. Files + 1
  /\ proc.from \in 0 .. MaxRun /\ proc.recovered \in BOOLEAN
  /\ proc.entries \cup proc.handled \subseteq Decoy
  /\ pruner \in 0 .. MaxRun /\ discarded \in BOOLEAN
  /\ result \in {"none", "restored", "cannot", "late"}

Init ==
  /\ shape \in {"inplace", "renamed", "beside"}
  /\ disk = [d \in Decoy |-> [here |-> "none", out |-> "none"]]
  /\ manifest = NoManifest
  /\ journal = [r \in 1 .. MaxRun |-> NoJournal]
  /\ copies = [r \in 1 .. MaxRun |-> {}]
  /\ runs = 0 /\ restores = 0
  /\ proc = Nobody /\ pruner = 0
  /\ discarded = FALSE /\ result = "none"

At(who, step) == proc.who = who /\ proc.step = step
Goes(step) == proc' = [proc EXCEPT !.step = step]
GoesOn(step) == proc' = [proc EXCEPT !.step = step, !.d = @ + 1]
Kept(r) == journal[r] # NoJournal
Torn == [manifest EXCEPT !.is = "torn", !.entries = {}, !.saved = 0]
Whole(entries, r) == [is |-> "whole", entries |-> entries, saved |-> r]

-------------------------------------------------------------------------------
(* A run.                                                                  *)

\* prune_orphans of the saved directories whose manifest does not lead there.
Orphan(r) == Kept(r) /\ ~ (manifest.is = "whole" /\ manifest.saved = r)

\* It refuses a target with files that are not decoys as it made them, and
\* prunes before it begins.
StartRun ==
  /\ proc.who = "nobody" /\ runs < MaxRun
  /\ \A d \in Decoy : disk[d].here \in {"none", "plain"} /\ disk[d].out = "none"
  /\ runs' = runs + 1
  /\ disk' = [d \in Decoy |-> [here |-> "plain", out |-> "none"]]
  /\ journal' = [r \in 1 .. MaxRun |->
                  IF Orphan(r) THEN NoJournal ELSE journal[r]]
  /\ copies' = [r \in 1 .. MaxRun |-> IF Orphan(r) THEN {} ELSE copies[r]]
  /\ result' = "none"
  /\ proc' = [Nobody EXCEPT !.who = "run", !.step = "manifest"]
  /\ UNCHANGED <<shape, manifest, restores, pruner, discarded>>

\* manifest_path.write_text: it is empty, then it is written.
TearManifest ==
  /\ At("run", "manifest") /\ manifest' = Torn /\ Goes("manifest2")
  /\ UNCHANGED <<shape, disk, journal, copies, runs, restores, pruner,
                 discarded, result>>
WriteManifest ==
  /\ At("run", "manifest2") /\ manifest' = Whole(proc.entries, runs)
  /\ GoesOn(IF proc.d = 0 THEN "save"
            ELSE IF proc.d < Files THEN "begin" ELSE "finish")
  /\ discarded' = (discarded /\ proc.d # 0)
  /\ UNCHANGED <<shape, disk, journal, copies, runs, restores, pruner, result>>

\* save_all: every copy, then the journal.
SaveCopy ==
  /\ At("run", "save") /\ copies[runs] # Decoy
  /\ \E d \in Decoy \ copies[runs] :
       copies' = [copies EXCEPT ![runs] = @ \cup {d}]
  /\ UNCHANGED <<shape, disk, manifest, journal, runs, restores, proc, pruner,
                 discarded, result>>
\* Not the code: a journal before its copies.
AtOnce == TRUE
AllSaved == copies[runs] = Decoy
Journal ==
  /\ At("run", "save") /\ AllSaved
  /\ journal' = [journal EXCEPT ![runs] = [d \in Decoy |-> "pending"]]
  /\ Goes("begin")
  /\ UNCHANGED <<shape, disk, manifest, copies, runs, restores, pruner,
                 discarded, result>>

Past(states) == [d \in Decoy |->
  IF states[d] = "in_flight" THEN "done" ELSE states[d]]
\* Not the code: a decoy is journalled when it is done.
BeginAfter(states, d) ==
  [e \in Decoy |-> IF e < d THEN "done" ELSE states[e]]
BeginState(states, d) == [Past(states) EXCEPT ![d] = "in_flight"]

Begin ==
  /\ At("run", "begin")
  /\ journal' = [journal EXCEPT ![runs] = BeginState(@, proc.d)]
  /\ Goes("tear")
  /\ UNCHANGED <<shape, disk, manifest, copies, runs, restores, pruner,
                 discarded, result>>

Now(d, here, out) == disk' = [disk EXCEPT ![d] = [here |-> here, out |-> out]]

\* encrypt: the decoy, or the new file beside it, is torn, then written; then
\* it is renamed, or the decoy deleted.
Tear ==
  /\ At("run", "tear") /\ Goes("fill")
  /\ IF shape = "beside" THEN Now(proc.d, "plain", "torn")
     ELSE Now(proc.d, "torn", "none")
  /\ UNCHANGED <<shape, manifest, journal, copies, runs, restores, pruner,
                 discarded, result>>
Fill ==
  /\ At("run", "fill") /\ Goes("move")
  /\ IF shape = "beside" THEN Now(proc.d, "plain", "cipher")
     ELSE Now(proc.d, "cipher", "none")
  /\ UNCHANGED <<shape, manifest, journal, copies, runs, restores, pruner,
                 discarded, result>>
Move ==
  /\ At("run", "move")
  /\ IF shape = "inplace" THEN UNCHANGED disk
     ELSE Now(proc.d, "none", "cipher")
  /\ proc' = [proc EXCEPT !.entries = @ \cup {proc.d}, !.step = "manifest"]
  /\ UNCHANGED <<shape, manifest, journal, copies, runs, restores, pruner,
                 discarded, result>>

Finish ==
  /\ At("run", "finish")
  /\ journal' = [journal EXCEPT ![runs] = Past(@)]
  /\ proc' = Nobody
  /\ UNCHANGED <<shape, disk, manifest, copies, runs, restores, pruner,
                 discarded, result>>

\* The Response service, or anybody, kills it; a restore can be killed too.
Kill ==
  /\ proc.who # "nobody" /\ proc' = Nobody
  /\ UNCHANGED <<shape, disk, manifest, journal, copies, runs, restores,
                 pruner, discarded, result>>

-------------------------------------------------------------------------------
(* Another run, of another target and the same saved root.                 *)

PruneLook ==
  /\ pruner = 0
  /\ \E r \in 1 .. MaxRun : Orphan(r) /\ pruner' = r
  /\ UNCHANGED <<shape, disk, manifest, journal, copies, runs, restores, proc,
                 discarded, result>>
PruneDiscard ==
  /\ pruner # 0 /\ pruner' = 0
  /\ journal' = [journal EXCEPT ![pruner] = NoJournal]
  /\ copies' = [copies EXCEPT ![pruner] = {}]
  /\ discarded' = TRUE
  /\ result' = IF proc.who = "restore" THEN "late" ELSE result
  /\ UNCHANGED <<shape, disk, manifest, runs, restores, proc>>

-------------------------------------------------------------------------------
(* --restore.                                                              *)

\* _manifest_from_journal: the journal of this target written last.
NewestJournal ==
  CHOOSE r \in 1 .. MaxRun : Kept(r) /\ \A o \in r + 1 .. MaxRun : ~ Kept(o)
AnyJournal == \E r \in 1 .. MaxRun : Kept(r)

Restores(entries, from, recovered) ==
  proc' = [Nobody EXCEPT !.who = "restore", !.step = "put", !.d = 1,
                         !.entries = entries, !.from = from,
                         !.recovered = recovered]

\* It reads the manifest, or makes one up from a journal if it is torn.
StartRestore ==
  /\ proc.who = "nobody" /\ restores < MaxRestore /\ manifest.is # "none"
  /\ restores' = restores + 1
  /\ IF manifest.is = "whole"
     THEN /\ result' = IF discarded THEN "late" ELSE "none"
          /\ Restores(manifest.entries,
                      IF manifest.saved # 0 /\ Kept(manifest.saved)
                      THEN manifest.saved ELSE 0, FALSE)
     ELSE IF AnyJournal
     THEN /\ result' = IF discarded THEN "late" ELSE "none"
          /\ Restores({}, NewestJournal, TRUE)
     ELSE /\ result' = IF discarded THEN "late" ELSE "cannot"
          /\ UNCHANGED proc
  /\ UNCHANGED <<shape, disk, manifest, journal, copies, runs, pruner,
                 discarded>>

Started(d) ==
  /\ proc.from # 0 /\ journal[proc.from][d] \in {"in_flight", "done"}
  /\ d \in copies[proc.from]

\* _restore_from_saved: the copy is written over the decoy, then the other
\* names are removed.
Skip ==
  /\ At("restore", "put") /\ proc.d <= Files /\ ~ Started(proc.d)
  /\ GoesOn("put")
  /\ UNCHANGED <<shape, disk, manifest, journal, copies, runs, restores,
                 pruner, discarded, result>>
Put ==
  /\ At("restore", "put") /\ proc.d <= Files /\ Started(proc.d)
  /\ Now(proc.d, "torn", disk[proc.d].out) /\ Goes("put2")
  /\ UNCHANGED <<shape, manifest, journal, copies, runs, restores, pruner,
                 discarded, result>>
PutWhole ==
  /\ At("restore", "put2")
  /\ Now(proc.d, "plain", disk[proc.d].out) /\ Goes("put3")
  /\ UNCHANGED <<shape, manifest, journal, copies, runs, restores, pruner,
                 discarded, result>>
RemoveOutputs ==
  /\ At("restore", "put3")
  /\ Now(proc.d, disk[proc.d].here, "none")
  /\ proc' = [proc EXCEPT !.step = "put", !.d = @ + 1,
                          !.handled = @ \cup {proc.d}]
  /\ UNCHANGED <<shape, manifest, journal, copies, runs, restores, pruner,
                 discarded, result>>

\* What undoing the rewriting makes of a file: of what was not rewritten, or
\* not wholly, something else.
Undone(c) == CASE c = "cipher" -> "plain" [] OTHER -> "garbled"
Source(d) == IF shape = "inplace" THEN disk[d].here ELSE disk[d].out

\* The decrypt path, for the entries that were not restored from a copy.
Decrypt ==
  /\ At("restore", "put") /\ proc.d > Files
  /\ LET left == {d \in proc.entries \ proc.handled : Source(d) # "none"}
     IN IF left = {}
        THEN /\ Goes("discard") /\ UNCHANGED disk
        ELSE \E d \in left :
          /\ \A e \in left : d <= e
          /\ Now(d, Undone(Source(d)), "none")
          /\ proc' = [proc EXCEPT !.handled = @ \cup {d}]
  /\ UNCHANGED <<shape, manifest, journal, copies, runs, restores, pruner,
                 discarded, result>>

\* _discard_saved: the copies one by one, then the journal.
DiscardCopy ==
  /\ At("restore", "discard") /\ proc.from # 0
  /\ \E d \in copies[proc.from] :
       copies' = [copies EXCEPT ![proc.from] = @ \ {d}]
  /\ discarded' = TRUE
  /\ UNCHANGED <<shape, disk, manifest, journal, runs, restores, proc, pruner,
                 result>>
DiscardJournal ==
  /\ At("restore", "discard")
  /\ proc.from # 0 => copies[proc.from] = {}
  /\ journal' = IF proc.from = 0 THEN journal
                ELSE [journal EXCEPT ![proc.from] = NoJournal]
  /\ discarded' = TRUE
  /\ Goes(IF proc.recovered THEN "rewrite" ELSE "end")
  /\ UNCHANGED <<shape, disk, manifest, copies, runs, restores, pruner, result>>
\* A torn manifest is replaced by one with nothing left to undo.
Rewrite ==
  /\ At("restore", "rewrite") /\ manifest' = Whole({}, 0) /\ Goes("end")
  /\ UNCHANGED <<shape, disk, journal, copies, runs, restores, pruner,
                 discarded, result>>
EndRestore ==
  /\ At("restore", "end") /\ proc' = Nobody
  /\ result' = IF result = "none" THEN "restored" ELSE result
  /\ UNCHANGED <<shape, disk, manifest, journal, copies, runs, restores,
                 pruner, discarded>>

-------------------------------------------------------------------------------
Next ==
  \/ StartRun \/ TearManifest \/ WriteManifest \/ SaveCopy \/ Journal
  \/ Begin \/ Tear \/ Fill \/ Move \/ Finish \/ Kill
  \/ PruneLook \/ PruneDiscard
  \/ StartRestore \/ Skip \/ Put \/ PutWhole \/ RemoveOutputs \/ Decrypt
  \/ DiscardCopy \/ DiscardJournal \/ Rewrite \/ EndRestore

Spec == Init /\ [][Next]_vars

-------------------------------------------------------------------------------
AsMade(d) == disk[d] = [here |-> "plain", out |-> "none"]
\* The saved directory a restore would read.
LeadsTo == IF manifest.is = "whole" THEN manifest.saved
           ELSE IF AnyJournal THEN NewestJournal ELSE 0

\* A run killed at any point can be restored (main, 924-926): until a copy is
\* discarded, a decoy that is not as it was made is in the journal the
\* manifest leads to, or the newest one if the manifest is torn, as started,
\* and its copy is there.
AlwaysRestorable ==
  ~ discarded /\ runs > 0 => \A d \in Decoy :
    AsMade(d) \/ /\ LeadsTo # 0 /\ d \in copies[LeadsTo]
                 /\ journal[LeadsTo][d] \in {"in_flight", "done"}

\* A restore that ends, or says it cannot, leaves every decoy as it was made
\* and no other name, wherever the run and any earlier restore were killed,
\* if those had not begun to discard the copies.
RestorePutsBack ==
  result \in {"restored", "cannot"} /\ proc = Nobody /\ runs > 0
    => \A d \in Decoy : AsMade(d)

=============================================================================
