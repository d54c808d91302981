------------------------------ MODULE GoodState ------------------------------
(***************************************************************************)
(* What a restored file is compared with: services/response/recovery and   *)
(* the part of services/monitor that writes the reference.                 *)
(*                                                                         *)
(* One file.  The Monitor takes a notification, reads the file to judge it *)
(* and reads it again to hash it; the first time in a run it meets the     *)
(* path and finds it benign, the hash becomes a `file_baseline` block.  An *)
(* alert becomes a block that carries the hash too.  The Response service  *)
(* copies the file out of a shadow copy, hashes what then lies on the disk *)
(* and asks the ledger for the newest hash of a good state.  The file may  *)
(* change between any two of these steps, the Monitor and the Response     *)
(* service may be restarted, and any block may fail to be written.         *)
(*                                                                         *)
(* `chain` holds the blocks that name this path, oldest first; blocks      *)
(* about it that carry no path (snapshot_created, recovery_completed)      *)
(* never match a lookup and are left out.                                  *)
(***************************************************************************)
EXTENDS Naturals, Sequences, FiniteSets, SequencesExt

CONSTANTS
  Content,   \* what the file may hold
  Flagged,   \* the contents a verdict calls suspicious
  Partial,   \* what an unfinished copy leaves behind; a content
  Gone,      \* no file at the path
  Watcher,   \* observer threads of the Monitor
  Recoverer, \* request threads of the Response service
  Lookback,  \* blocks a lookup reads, 100 in the code
  MaxChange, \* bound on changes to the file by others
  MaxAsk,    \* bound on recoveries asked for
  MaxBlock,  \* bound on Len(chain)
  MaxRun     \* bound on Monitor runs

\* What the constants must satisfy.
GoodStateAssumption ==
  /\ Flagged \subseteq Content /\ Partial \in Content \ Flagged
  /\ Gone \notin Content
  /\ {Lookback, MaxChange, MaxAsk, MaxBlock} \subseteq Nat
  /\ MaxRun \in Nat \ {0}

VARIABLES
  disk,    \* what is at the path
  changes, \* changes others made so far
  notes,   \* notifications not handled yet
  run,     \* number of this Monitor run
  seen,    \* _SEEN_FILES has the path
  watch,   \* each observer thread: where it is, its verdict, its hash
  lane,    \* alerts on the path's correlation lane
  work,    \* _work
  chain,   \* the ledger's blocks about the path
  snaps,   \* what the shadow copies hold at the path
  asked,   \* recoveries asked for so far
  rec,     \* each recovery: where it is, its request, the hash it restored
  answers  \* what was answered integrity_verified: its hash and reference

vars ==
  <<disk, changes, notes, run, seen, watch, lane, work, chain, snaps, asked,
    rec, answers>>

Monitor == <<run, seen, watch, lane, work>>
Response == <<snaps, asked, rec, answers>>

-------------------------------------------------------------------------------
NoHash == Gone
Hashes == Content \cup {NoHash}
Block == [type : {"baseline", "alert", "recovered", "failed"},
          hash : Hashes, verified : BOOLEAN, run : 0 .. MaxRun]
Item == [kind : {"baseline", "alert"}, hash : Hashes]
IdleWatch == [at |-> "idle", suspicious |-> FALSE, hash |-> NoHash]
IdleRec ==
  [at |-> "idle", from |-> NoHash, hash |-> NoHash, ref |-> 0]

\* Not the code: any block with a hash will do, an alert's included.
AnyHash(b) == b.type # "failed"
\* GOOD_STATE_EVENT_TYPES; a snapshot_created block names no path.
GoodState(b) == b.type \in {"baseline", "recovered"}

\* What last_known_hash reads: the newest Lookback blocks on the path, and
\* the newest of them that records a good state.  0 if there is none.
LastKnown(blocks) ==
  LET good == {i \in DOMAIN blocks :
                 /\ i + Lookback > Len(blocks)
                 /\ GoodState(blocks[i]) /\ blocks[i].hash # NoHash}
  IN IF good = {} THEN 0 ELSE CHOOSE i \in good : \A j \in good : j <= i

\* An append that may fail: try_log_event and pipeline._post go on without.
Logged(b) ==
  \/ chain' = chain
  \/ Len(chain) < MaxBlock /\ chain' = Append(chain, b)

-------------------------------------------------------------------------------
Init ==
  /\ disk \in {Gone} \cup (Content \ (Flagged \cup {Partial}))
  /\ changes = 0 /\ notes = {} /\ run = 1 /\ seen = FALSE
  /\ watch = [w \in Watcher |-> IdleWatch]
  /\ lane = <<>> /\ work = <<>> /\ chain = <<>>
  /\ snaps = {} /\ asked = 0 /\ answers = {}
  /\ rec = [r \in Recoverer |-> IdleRec]

(* Another process writes the file, or deletes it.                         *)
Change(c) ==
  /\ changes < MaxChange /\ c # disk
  /\ disk' = c /\ changes' = changes + 1
  /\ notes' = notes \cup {IF c = Gone THEN "deleted" ELSE "changed"}
  /\ UNCHANGED <<Monitor, chain, Response>>

-------------------------------------------------------------------------------
(* The Monitor: handle_event, _correlate's queueing, and the drain.        *)

\* A deletion is recorded as a sighting and has no hash.
TakeDeletion(w) ==
  /\ watch[w].at = "idle" /\ "deleted" \in notes
  /\ notes' = notes \ {"deleted"}
  /\ seen' = TRUE
  /\ UNCHANGED <<disk, changes, run, watch, lane, work, chain, Response>>

\* Anything else is read to be judged.  A file that is gone is left out; one
\* that is locked is judged unread, which is not suspicious, and not hashed.
TakeChange(w) ==
  /\ watch[w].at = "idle" /\ "changed" \in notes
  /\ notes' = notes \ {"changed"}
  /\ \/ disk = Gone /\ UNCHANGED watch
     \/ /\ disk # Gone
        /\ watch' = [watch EXCEPT ![w] = [@ EXCEPT !.at = "hash",
                                    !.suspicious = disk \in Flagged]]
     \/ /\ disk # Gone
        /\ watch' = [watch EXCEPT ![w].at = "record"]
  /\ UNCHANGED <<disk, changes, run, seen, lane, work, chain, Response>>

\* The second read, after the verdict; it finds what is there by then.
HashFile(w) ==
  /\ watch[w].at = "hash"
  /\ watch' = [watch EXCEPT ![w] = [@ EXCEPT !.at = "record", !.hash = disk]]
  /\ UNCHANGED <<disk, changes, notes, run, seen, lane, work, chain, Response>>

\* Not the code: every benign sighting counts as the first.
EverySighting(w) == TRUE
\* _record answers whether this is the first sighting as it records it.
First(w) == ~seen

\* Record the event; an alert goes to its lane.
RecordEvent(w) ==
  LET hash == watch[w].hash
      baseline == First(w) /\ hash # NoHash /\ ~watch[w].suspicious
  IN /\ watch[w].at = "record"
     /\ seen' = TRUE
     /\ watch' = [watch EXCEPT ![w] = IdleWatch]
     /\ lane' = IF watch[w].suspicious THEN Append(lane, hash) ELSE lane
     /\ work' = IF baseline
                THEN Append(work, [kind |-> "baseline", hash |-> hash])
                ELSE work
     /\ UNCHANGED <<disk, changes, notes, run, chain, Response>>

\* Correlation on the lane queues the alert for the pipeline.
Correlate ==
  /\ lane # <<>>
  /\ work' = Append(work, [kind |-> "alert", hash |-> Head(lane)])
  /\ lane' = Tail(lane)
  /\ UNCHANGED <<disk, changes, notes, run, seen, watch, chain, Response>>

\* The drain posts the block of the oldest item, once.
Drain ==
  /\ work # <<>>
  /\ Logged([type |-> Head(work).kind, hash |-> Head(work).hash,
             verified |-> FALSE, run |-> run])
  /\ work' = Tail(work)
  /\ UNCHANGED <<disk, changes, notes, run, seen, watch, lane, Response>>

\* The Monitor is started again; what it had in memory is gone, and so are
\* the notifications made while it was not watching.
RestartMonitor ==
  /\ run < MaxRun /\ run' = run + 1
  /\ notes' = {} /\ seen' = FALSE
  /\ watch' = [w \in Watcher |-> IdleWatch]
  /\ lane' = <<>> /\ work' = <<>>
  /\ UNCHANGED <<disk, changes, chain, Response>>

-------------------------------------------------------------------------------
(* The Response service: create_snapshot and RecoveryManager._recover_one. *)

TakeSnapshot ==
  /\ disk # Gone \* a shadow copy without the file has nothing to restore
  /\ snaps' = snaps \cup {disk}
  /\ UNCHANGED <<disk, changes, notes, Monitor, chain, asked, rec, answers>>

\* A request names a shadow copy.
AskRecover(r, c) ==
  /\ rec[r].at = "idle" /\ c \in snaps
  /\ asked < MaxAsk /\ asked' = asked + 1
  /\ rec' = [rec EXCEPT ![r] = [IdleRec EXCEPT !.at = "open", !.from = c]]
  /\ UNCHANGED <<disk, changes, notes, Monitor, chain, snaps, answers>>

Step(r, at) == rec' = [rec EXCEPT ![r].at = at]

\* shutil.copy2 opens the destination for writing before it copies.
OpenCopy(r) ==
  /\ rec[r].at = "open"
  /\ disk' = Partial /\ notes' = notes \cup {"changed"}
  /\ Step(r, "copy")
  /\ UNCHANGED <<changes, Monitor, chain, snaps, asked, answers>>

FinishCopy(r) ==
  /\ rec[r].at = "copy"
  /\ disk' = rec[r].from /\ notes' = notes \cup {"changed"}
  /\ Step(r, "hash")
  /\ UNCHANGED <<changes, Monitor, chain, snaps, asked, answers>>

\* The file is missing in the shadow copy, or cannot be opened, or the copy
\* fails and what it had written stays: recovery_failed, with no hash.
FailRestore(r) ==
  /\ \/ rec[r].at \in {"open", "copy"}
     \/ rec[r].at = "hash" /\ disk = Gone
  /\ Logged([type |-> "failed", hash |-> NoHash, verified |-> FALSE,
             run |-> 0])
  /\ rec' = [rec EXCEPT ![r] = IdleRec]
  /\ UNCHANGED <<disk, changes, notes, Monitor, snaps, asked, answers>>

\* sha256_file reads the destination, not what was copied.  A request that
\* does not want the check skips the lookup.
HashRestored(r) ==
  /\ rec[r].at = "hash" /\ disk # Gone
  /\ \E next \in {"lookup", "log"} :
       rec' = [rec EXCEPT ![r] = [@ EXCEPT !.at = next, !.hash = disk]]
  /\ UNCHANGED <<disk, changes, notes, Monitor, chain, snaps, asked, answers>>

\* The ledger answers, or cannot be reached and no hash is known.
LookUp(r) ==
  /\ rec[r].at = "lookup"
  /\ \E ref \in {0, LastKnown(chain)} :
       rec' = [rec EXCEPT ![r] = [@ EXCEPT !.at = "log", !.ref = ref]]
  /\ UNCHANGED <<disk, changes, notes, Monitor, chain, snaps, asked, answers>>

\* integrity_verified, as the answer and the block carry it.
Verified(ref, hash) == ref # 0 /\ chain[ref].hash = hash

\* What _recover_one records of a restore: the hash, verified or not.
Recovered(r) ==
  [type |-> "recovered", hash |-> rec[r].hash,
   verified |-> Verified(rec[r].ref, rec[r].hash), run |-> 0]

LogRecovered(r) ==
  /\ rec[r].at = "log"
  /\ Logged(Recovered(r))
  /\ answers' = IF Recovered(r).verified
                THEN answers \cup {[hash |-> rec[r].hash, ref |-> rec[r].ref]}
                ELSE answers
  /\ rec' = [rec EXCEPT ![r] = IdleRec]
  /\ UNCHANGED <<disk, changes, notes, Monitor, snaps, asked>>

\* The Response service dies; a copy it was making stays as it is.
RestartResponse ==
  /\ \E r \in Recoverer : rec[r].at # "idle"
  /\ rec' = [r \in Recoverer |-> IdleRec]
  /\ UNCHANGED <<disk, changes, notes, Monitor, chain, snaps, asked, answers>>

-------------------------------------------------------------------------------
Next ==
  \/ \E c \in Content \cup {Gone} : Change(c)
  \/ \E w \in Watcher :
       TakeDeletion(w) \/ TakeChange(w) \/ HashFile(w) \/ RecordEvent(w)
  \/ Correlate \/ Drain \/ RestartMonitor
  \/ TakeSnapshot
  \/ \E r \in Recoverer :
       \/ \E c \in Content : AskRecover(r, c)
       \/ OpenCopy(r) \/ FinishCopy(r) \/ FailRestore(r) \/ HashRestored(r)
       \/ LookUp(r) \/ LogRecovered(r)
  \/ RestartResponse

Spec == Init /\ [][Next]_vars

-------------------------------------------------------------------------------
\* Every variable has its type.
TypeOK ==
  /\ disk \in Hashes /\ changes \in 0 .. MaxChange
  /\ notes \subseteq {"changed", "deleted"}
  /\ run \in 1 .. MaxRun /\ seen \in BOOLEAN
  /\ watch \in [Watcher -> [at : {"idle", "hash", "record"},
                            suspicious : BOOLEAN, hash : Hashes]]
  /\ lane \in Seq(Hashes) /\ work \in Seq(Item)
  /\ chain \in Seq(Block) /\ Len(chain) <= MaxBlock
  /\ snaps \subseteq Content /\ asked \in 0 .. MaxAsk
  /\ rec \in [Recoverer -> [at : {"idle", "open", "copy", "hash", "lookup",
                                  "log"},
                            from : Hashes, hash : Hashes,
                            ref : 0 .. MaxBlock]]
  /\ answers \subseteq [hash : Content, ref : 1 .. MaxBlock]

\* A flagged content is certified only where the reference itself went
\* wrong first: a baseline hashed after the file had changed under its
\* verdict, or a recovery that logged what it could not verify.  An alert's
\* own hash, however new, never certifies it (ledger_client.py:20-41).
CertifiedHasCause ==
  \A a \in answers : a.hash \in Flagged =>
    \E i \in 1 .. a.ref :
      /\ chain[i].hash = a.hash
      /\ \/ chain[i].type = "baseline"
         \/ chain[i].type = "recovered" /\ ~chain[i].verified

\* A path has at most one baseline in a Monitor run, written or about to be,
\* whichever of the observer threads meets it first (_record).
OneBaselinePerRun ==
  LET made(n) == {i \in DOMAIN chain : chain[i].type = "baseline"
                                       /\ chain[i].run = n}
      queued == {i \in DOMAIN work : work[i].kind = "baseline"}
  IN /\ \A n \in 1 .. MaxRun : Cardinality(made(n)) <= 1
     /\ Cardinality(made(run)) + Cardinality(queued) <= 1

\* What ledger_client.py:36-41 says of a snapshot taken after encryption:
\* once the path has the baseline of a benign, whole content, such a
\* snapshot is not certified.
BaselineCatchesIt ==
  \A a \in answers :
    (\E i \in 1 .. a.ref :
       /\ chain[i].type = "baseline"
       /\ chain[i].hash \notin Flagged \cup {Partial})
    => a.hash \notin Flagged
=============================================================================
