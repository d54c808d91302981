----------------------------- MODULE Governance -----------------------------
(***************************************************************************)
(* What the Monitor concludes from one reading of a file, and which rules  *)
(* may take an alert back: detection.EntropyHistory and classify,          *)
(* suppression.Whitelist and TrainingMode, admissibility.adjudicate, in    *)
(* the order handle_event calls them.                                      *)
(*                                                                         *)
(* Observer threads take one event each at a time.  Between their steps    *)
(* requests replace the whitelist and start, finish or reset the training, *)
(* and time passes.  TrainingMode.observe and match look at its state      *)
(* under the lock, let go of it, and take it again to use what is there.   *)
(*                                                                         *)
(* Entropies are levels; all paths have one extension, so that the key of  *)
(* a learned ceiling is the structure alone.  The file may change between  *)
(* the read that judges it and the read that hashes it.                    *)
(***************************************************************************)
EXTENDS Detection, Sequences, FiniteSets, SequencesExt

CONSTANTS
  Path, Dir,
  DirOf,         \* the directory of each path
  Reading,       \* what a read can find; see ReadingType
  Whites,        \* whitelists a request may set
  Watcher,       \* observer threads
  MaxPaths,      \* ENTROPY_HISTORY_PATHS
  MaxCandidates, \* MAX_CANDIDATE_PATHS
  Dwell,         \* TRAINING_DWELL_SECONDS
  Duration,      \* of a training window
  MaxNow         \* bound on the clock

\* What the constants must satisfy.
GovernanceAssumption ==
  /\ DirOf \in [Path -> Dir] /\ Ransom \subseteq Path
  /\ Reading \subseteq ReadingType /\ DetectionAssumption
  /\ Whites \subseteq [paths : SUBSET Path, hashes : SUBSET Reading]
  /\ {MaxPaths, MaxCandidates} \subseteq Nat \ {0}
  /\ {Dwell, Duration, MaxNow} \subseteq Nat

VARIABLES
  floor,    \* EntropyHistory: the lowest reading of each path, 0 if none
  recent,   \* its paths, the one read last at the end
  white,    \* Whitelist: approved paths, and readings whose hash is approved
  mode,     \* TrainingMode._state
  deadline, \* _deadline
  dirs,     \* _directories
  cand,     \* _candidates: reading and first sighting, high = 0 if none
  ceiling,  \* _ceilings, 0 if none
  now,      \* the monotonic clock
  ev,       \* the event each observer thread is at
  lowest,   \* history: the least reading since a path was last forgotten
  kept      \* history: candidates of this window had none been trimmed

training == <<mode, deadline, dirs, cand, ceiling, kept>>
vars == <<floor, recent, white, training, now, ev, lowest>>

\* Structures of a learned ceiling.
Structure == {"plain", "container"}
NoCand == [high |-> 0, since |-> 0]

-------------------------------------------------------------------------------
(* admissibility: what a rule costs to forge, a signal to avoid.           *)

Signals ==
  {"ransom_extension", "static_entropy", "structural_mismatch",
   "partial_entropy", "entropy_rise"}
Rules == {"hash", "path", "training_mode"}

AvoidanceCost ==
  [s \in Signals |-> IF s \in {"ransom_extension", "static_entropy"}
                     THEN 0 ELSE 2]
ForgeryCost == [r \in Rules |-> IF r = "hash" THEN 3 ELSE 1]

\* Strictly more; an alert no rule describes stands.
Admitted(rule, signal) ==
  rule \in Rules /\ ForgeryCost[rule] > AvoidanceCost[signal]

-------------------------------------------------------------------------------
MaxOf(S) == CHOOSE x \in S : \A y \in S : y <= x
MinOf(S) == CHOOSE x \in S : \A y \in S : x <= y

NoEvent ==
  [at |-> "idle", path |-> CHOOSE p \in Path : TRUE,
   r |-> CHOOSE r \in Reading : TRUE, base |-> 0, signal |-> "none",
   rule |-> "none", since |-> 0, least |-> 0]

Init ==
  /\ floor = [p \in Path |-> 0] /\ recent = <<>>
  /\ white = [paths |-> {}, hashes |-> {}]
  /\ mode = "idle" /\ deadline = 0
  /\ dirs = [k \in Structure |-> {}]
  /\ cand = [k \in Structure |-> [p \in Path |-> NoCand]]
  /\ kept = cand
  /\ ceiling = [k \in Structure |-> 0]
  /\ now = 0
  /\ ev = [w \in Watcher |-> NoEvent]
  /\ lowest = [p \in Path |-> 0]

Tick ==
  /\ now < MaxNow /\ now' = now + 1
  /\ UNCHANGED <<floor, recent, white, training, ev, lowest>>

-------------------------------------------------------------------------------
(* detection.EntropyHistory                                                *)

Without(p) == SelectSeq(recent, LAMBDA x : x # p)

\* Not the code: the floor is the reading before this one.
LastReading(p, e) == e
\* _PathHistory.record: the minimum is not in the window.
Lowered(p, e) == IF floor[p] = 0 \/ e < floor[p] THEN e ELSE floor[p]

\* A path's history goes when its file is deleted.
Forget(p) ==
  /\ floor' = [floor EXCEPT ![p] = 0] /\ recent' = Without(p)
  /\ lowest' = [lowest EXCEPT ![p] = 0]
  /\ UNCHANGED <<white, training, now, ev>>

\* EntropyHistory.observe; the path read longest ago makes room.
Remember(p, r) ==
  LET order == Append(Without(p), p)
      gone == IF Len(order) > MaxPaths THEN {Head(order)} ELSE {}
  IN IF r.readable /\ ~r.small /\ r.entropy > 0
     THEN /\ floor' = [x \in Path |->
                         IF x \in gone THEN 0
                         ELSE IF x = p THEN Lowered(p, r.entropy)
                         ELSE floor[x]]
          /\ lowest' = [x \in Path |->
                         IF x \in gone THEN 0
                         ELSE IF x = p THEN MinOf({r.entropy, lowest[p]} \ {0})
                         ELSE lowest[x]]
          /\ recent' = IF gone = {} THEN order ELSE Tail(order)
     ELSE UNCHANGED <<floor, lowest, recent>>

\* handle_event up to the verdict.
Measure(w, p, r) ==
  /\ ev[w].at \in {"idle", "done"}
  /\ Remember(p, r)
  /\ ev' = [ev EXCEPT ![w] =
              [NoEvent EXCEPT !.at = "learn", !.path = p, !.r = r,
                              !.base = IF r.readable THEN floor[p] ELSE 0,
                              !.signal = Signal(p, r, floor[p]),
                              !.least = lowest[p]]]
  /\ UNCHANGED <<white, training, now>>

-------------------------------------------------------------------------------
(* suppression.TrainingMode                                                *)

\* The highest reading of a path watched for the dwell, per structure.
Eligible(c) ==
  [k \in Structure |->
     LET dwelled == {c[k][p].high : p \in {x \in Path : /\ c[k][x].high > 0
                                             /\ now >= c[k][x].since + Dwell}}
     IN IF dwelled = {} THEN 0 ELSE MaxOf(dwelled)]

\* Not the code: no dwell, a fresh reading counts.
EligibleFresh(c) ==
  [k \in Structure |-> MaxOf({c[k][p].high : p \in Path})]
\* _promote: what was learned is in force, or nothing was.
Learned(c) == Eligible(c)
Promoted(c) ==
  /\ ceiling' = Learned(c)
  /\ mode' = IF Learned(c) = [k \in Structure |-> 0] THEN "idle" ELSE "active"
  /\ deadline' = 0
  /\ UNCHANGED <<dirs, cand, kept>>

\* Looking at the state ends a window that is over.
Due == mode = "learning" /\ now >= deadline
Looked == IF Due THEN Promoted(cand) ELSE UNCHANGED training
State == IF ~Due THEN mode
         ELSE IF Learned(cand) = [k \in Structure |-> 0] THEN "idle" ELSE "active"

Cleared ==
  /\ dirs' = [k \in Structure |-> {}]
  /\ cand' = [k \in Structure |-> [p \in Path |-> NoCand]]
  /\ kept' = cand'
  /\ ceiling' = [k \in Structure |-> 0]

Start ==
  /\ mode' = "learning" /\ deadline' = now + Duration
  /\ Cleared
  /\ UNCHANGED <<floor, recent, white, now, ev, lowest>>

\* finish promotes in whatever state the training is.
Finish ==
  /\ Promoted(cand)
  /\ UNCHANGED <<floor, recent, white, now, ev, lowest>>

Reset ==
  /\ mode' = "idle" /\ deadline' = 0
  /\ Cleared
  /\ UNCHANGED <<floor, recent, white, now, ev, lowest>>

KeyOf(r) == IF r.container THEN "container" ELSE "plain"

\* Neither learned from nor described by what was learned.
NoExample(e) ==
  ~e.r.readable \/ e.path \in Ransom \/ (e.r.container /\ e.r.valid = "no")

After(e) == IF e.signal = "none" THEN "done" ELSE "white"

\* observe: the state, looked at under the lock, and what it refuses.
LookToLearn(w) ==
  LET learns == /\ State = "learning" /\ ~NoExample(ev[w])
                /\ ~Rose(ev[w].r, ev[w].base)
  IN /\ ev[w].at = "learn"
     /\ Looked
     /\ ev' = [ev EXCEPT ![w] =
                 [@ EXCEPT !.at = IF learns THEN "fold" ELSE After(ev[w]),
                           !.since = IF learns THEN now ELSE 0]]
     /\ UNCHANGED <<floor, recent, white, now, lowest>>

\* A path keeps its first sighting; a higher reading replaces a lower one.
Folded(c, p, e, since) ==
  IF c[p].high = 0 THEN [c EXCEPT ![p] = [high |-> e, since |-> since]]
  ELSE IF e > c[p].high THEN [c EXCEPT ![p].high = e] ELSE c

\* For the history: the highest reading of all and the first sighting of all,
\* whichever observer thread comes to record its own first.
Sighted(c, p, e, since) ==
  IF c[p].high = 0 THEN [c EXCEPT ![p] = [high |-> e, since |-> since]]
  ELSE [c EXCEPT ![p] = [high |-> MaxOf({e, c[p].high}),
                         since |-> MinOf({since, c[p].since})]]

\* _trim, after a path is added: the lowest readings go.
Trimmed(c) ==
  LET held == {p \in Path : c[p].high > 0}
  IN IF Cardinality(held) <= MaxCandidates THEN {c}
     ELSE {[c EXCEPT ![p] = NoCand] :
             p \in {x \in held : \A y \in held : c[x].high <= c[y].high}}

\* observe, the lock taken again: the state is not looked at again.
Fold(w) ==
  LET e == ev[w]
      k == KeyOf(e.r)
  IN /\ e.at = "fold"
     /\ dirs' = [dirs EXCEPT ![k] = @ \cup {DirOf[e.path]}]
     /\ \E c \in Trimmed(Folded(cand[k], e.path, e.r.entropy, e.since)) :
          cand' = [cand EXCEPT ![k] = c]
     /\ kept' = [kept EXCEPT ![k] =
                   Sighted(@, e.path, e.r.entropy, e.since)]
     /\ ev' = [ev EXCEPT ![w].at = After(e)]
     /\ UNCHANGED <<floor, recent, white, mode, deadline, ceiling, now, lowest>>

-------------------------------------------------------------------------------
(* An alert looks for the rule that describes it.                          *)

Replace(list) ==
  /\ white' = list
  /\ UNCHANGED <<floor, recent, training, now, ev, lowest>>

\* Whitelist.match, over the hash taken after the verdict, if there is one.
MatchWhite(w, hashed) ==
  LET e == ev[w]
      rule == IF e.r.readable /\ hashed \in white.hashes THEN "hash"
              ELSE IF e.path \in white.paths THEN "path" ELSE "none"
  IN /\ e.at = "white"
     /\ ev' = [ev EXCEPT ![w] =
                 [@ EXCEPT !.rule = rule,
                           !.at = IF rule = "none" THEN "look" ELSE "done"]]
     /\ UNCHANGED <<floor, recent, white, training, now, lowest>>

\* TrainingMode.match: the state, and what no ceiling describes.
LookToMatch(w) ==
  /\ ev[w].at = "look"
  /\ Looked
  /\ ev' = [ev EXCEPT ![w].at =
              IF State = "active" /\ ~NoExample(ev[w]) THEN "match" ELSE "done"]
  /\ UNCHANGED <<floor, recent, white, now, lowest>>

\* The lock taken again: the ceiling and directories there are now.
Described(e) ==
  /\ ceiling[KeyOf(e.r)] # 0
  /\ DirOf[e.path] \in dirs[KeyOf(e.r)]
  /\ e.r.entropy <= ceiling[KeyOf(e.r)]

MatchLearned(w) ==
  /\ ev[w].at = "match"
  /\ ev' = [ev EXCEPT ![w] =
              [@ EXCEPT !.at = "done",
                        !.rule = IF Described(ev[w]) THEN "training_mode"
                                 ELSE "none"]]
  /\ UNCHANGED <<floor, recent, white, training, now, lowest>>

\* What the event says: an alert, unless its rule may take it back.
Cancelled(e) == e.signal # "none" /\ Admitted(e.rule, e.signal)
Stands(e) == e.signal # "none" /\ ~Cancelled(e)

-------------------------------------------------------------------------------
Next ==
  \/ Tick
  \/ \E p \in Path : Forget(p)
  \/ \E w \in Watcher :
       \/ \E p \in Path, r \in Reading : Measure(w, p, r)
       \/ LookToLearn(w) \/ Fold(w)
       \/ \E hashed \in Reading : MatchWhite(w, hashed)
       \/ LookToMatch(w) \/ MatchLearned(w)
  \/ Start \/ Finish \/ Reset
  \/ \E list \in Whites : Replace(list)

Spec == Init /\ [][Next]_vars

-------------------------------------------------------------------------------
\* Every variable has its type.
TypeOK ==
  LET level == 0 .. Top
      cands == [Structure -> [Path -> [high : level, since : 0 .. MaxNow]]]
  IN /\ floor \in [Path -> level]
     /\ recent \in Seq(Path) /\ IsInjective(recent)
     /\ Len(recent) <= MaxPaths
     /\ \A p \in Path : floor[p] # 0 <=> p \in ToSet(recent)
     /\ white \in [paths : SUBSET Path, hashes : SUBSET Reading]
     /\ mode \in {"idle", "learning", "active"}
     /\ deadline \in 0 .. MaxNow + Duration /\ now \in 0 .. MaxNow
     /\ dirs \in [Structure -> SUBSET Dir] /\ ceiling \in [Structure -> level]
     /\ cand \in cands /\ kept \in cands
     /\ lowest \in [Path -> level]
     /\ ev \in [Watcher ->
                 [at : {"idle", "learn", "fold", "white", "look", "match",
                        "done"},
                  path : Path, r : Reading, base : level,
                  signal : Signals \cup {"none"},
                  rule : Rules \cup {"none"}, since : 0 .. MaxNow,
                  least : level]]

\* A content that has risen far above any reading taken at its path since
\* the path was last forgotten, that forges its container, or that is part
\* ciphertext in nothing that explains it, is an alert that no rule but an
\* approved hash takes back: no warm-up writes, no header and nothing
\* learned hides it (detection.py:562-600, admissibility.py).
ReplacementStands ==
  \A w \in Watcher :
    LET e == ev[w]
        high == e.r.entropy >= Threshold
        rose == /\ e.r.entropy >= RiseFloor
                /\ e.least # 0 /\ e.r.entropy >= e.least + Rise
        forged == e.r.container /\ e.r.valid = "no" /\ (high \/ e.r.partial)
        mixed == ~high /\ e.r.partial /\ e.r.valid # "yes"
    IN e.at = "done" /\ e.r.readable /\ (rose \/ forged \/ mixed)
       => Stands(e) \/ e.rule = "hash"

\* A ceiling in force is a reading of a path that had been watched for the
\* dwell, whatever events were still in flight as windows ended and began
\* (suppression.py:51-72).
CeilingDwelled ==
  \A k \in Structure : ceiling[k] # 0 =>
    \E p \in Path : /\ kept[k][p].high >= ceiling[k]
                     /\ now >= kept[k][p].since + Dwell
=============================================================================
