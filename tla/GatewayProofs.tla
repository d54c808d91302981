---------------------------- MODULE GatewayProofs ----------------------------
(***************************************************************************)
(* Parts of MCServices, for every value of their constants: a run of the   *)
(* simulator can be undone; the gateway implements the token bucket and no *)
(* bucket lets more through than its budget; and what the services did for *)
(* a request was asked for with a token that permits it.                   *)
(***************************************************************************)
EXTENDS MCServices, FiniteSetTheorems, NaturalsInduction, WellFoundedInduction,
        TLAPS

-------------------------------------------------------------------------------
(* Facts about sets of numbers.                                            *)

\* Every set of numbers has a least one; one that is bounded, a greatest.
LEMMA LeastOf ==
  ASSUME NEW S, S \subseteq Nat, S # {}
  PROVE  \E x \in S : \A y \in S : x <= y
<1> DEFINE Less == {ss \in Nat \X Nat : ss[1] < ss[2]}
<1>1. Less = OpToRel(<, Nat)
  BY DEF OpToRel
<1>2. IsWellFoundedOn(Less, Nat)
  BY <1>1, NatLessThanWellFounded
<1> HIDE DEF Less
<1>3. PICK x \in S : \A y \in S : ~ (<<y, x>> \in Less)
  BY <1>2, WFMin
<1>4. \A y \in S : ~ (y < x)
  BY <1>3 DEF Less
<1> QED BY <1>4

LEMMA GreatestOf ==
  ASSUME NEW S, NEW n \in Nat, S \subseteq 0 .. n, S # {}
  PROVE  \E x \in S : \A y \in S : y <= x
<1> DEFINE gaps == {n - t : t \in S}
<1>1. \A t \in S : n - t \in Nat
  OBVIOUS
<1>2. gaps \subseteq Nat /\ gaps # {}
  BY <1>1
<1>3. PICK x \in gaps : \A y \in gaps : x <= y
  BY <1>2, LeastOf
<1>4. PICK t \in S : x = n - t
  BY <1>3
<1>5. \A y \in S : n - y \in gaps
  OBVIOUS
<1>6. \A y \in S : x <= n - y
  BY <1>3, <1>5
<1> QED BY <1>4, <1>6

-------------------------------------------------------------------------------
(* Rehearsal: a simulated attack and its restore.                          *)

Steps ==
  {"none", "manifest", "manifest2", "save", "begin", "tear", "fill", "move",
   "finish", "put", "put2", "put3", "discard", "rewrite", "end"}
Procs ==
  [who : {"nobody", "run", "restore"}, step : Steps, d : 0 .. Y_Files + 1,
   entries : SUBSET Y!Decoy, from : 0 .. Y_MaxRun, handled : SUBSET Y!Decoy,
   recovered : BOOLEAN]
Begun == {"in_flight", "done"}
States == {"none", "pending", "in_flight", "done"}
RunTypes ==
  /\ Y_shape \in {"inplace", "renamed", "beside"}
  /\ Y_disk \in [Y!Decoy -> [here : Y!Content, out : Y!Content]]
  /\ Y_manifest \in [is : {"none", "torn", "whole"}, entries : SUBSET Y!Decoy,
                     saved : 0 .. Y_MaxRun]
  /\ Y_journal \in [1 .. Y_MaxRun -> [Y!Decoy -> States]]
  /\ Y_copies \in [1 .. Y_MaxRun -> SUBSET Y!Decoy]
  /\ Y_runs \in 0 .. Y_MaxRun /\ Y_manifest.saved <= Y_runs
  /\ Y_proc \in Procs
  /\ Y_pruner \in 0 .. Y_MaxRun /\ Y_discarded \in BOOLEAN
  /\ Y_result \in {"none", "restored", "cannot", "late"}
  /\ Y_proc.who = "nobody" => Y_proc = Y!Nobody

AllAsMade == \A d \in Y!Decoy : Y!AsMade(d)
Backed(r, d) ==
  r \in 1 .. Y_MaxRun /\ Y_journal[r][d] \in Begun /\ d \in Y_copies[r]

\* No run but those there were has a journal; before the first, nothing is.
Unborn ==
  /\ \A r \in 1 .. Y_MaxRun : r > Y_runs => Y_journal[r] = Y!NoJournal
  /\ Y_runs = 0 => Y_proc = Y!Nobody /\ Y_manifest.is = "none"

\* What is not as it was made can be put back from where a restore would look.
Restorable ==
  ~Y_discarded /\ Y_runs > 0 =>
    \A d \in Y!Decoy : Y!AsMade(d) \/ Backed(Y!LeadsTo, d)
EntriesBacked ==
  ~Y_discarded /\ Y_manifest.is = "whole" =>
    \A d \in Y_manifest.entries : Backed(Y_manifest.saved, d)

\* A run before its first decoy, and from there on.
Fresh == AllAsMade /\ Y_journal[Y_runs] = Y!NoJournal /\ Y_proc.entries = {}
Rewriting ==
  /\ Y_copies[Y_runs] = Y!Decoy /\ Y!Kept(Y_runs)
  /\ IF Y_proc.step = "manifest2" THEN Y_manifest.is = "torn"
     ELSE Y_manifest.is = "whole" /\ Y_manifest.saved = Y_runs
  /\ \A e \in Y_proc.entries : Y_journal[Y_runs][e] \in Begun
  /\ Y_proc.step \in {"tear", "fill", "move", "manifest", "manifest2"} =>
       Y_journal[Y_runs][Y_proc.d] \in Begun
Running ==
  Y_proc.who = "run" =>
    /\ Y_result = "none" /\ Y_runs # 0
    /\ Y_proc.step \in {"manifest", "manifest2", "save", "begin", "tear",
                        "fill", "move", "finish"}
    /\ Y_proc.step # "finish" => Y_proc.d <= Y_Files
    /\ Y_proc.d = 0 => Y_proc.step \in {"manifest", "manifest2"}
    /\ Y_proc.step = "save" => Y_proc.d = 1 /\ Y_manifest = Y!Whole({}, Y_runs)
    /\ Y_proc.d = 0 \/ Y_proc.step = "save" => Fresh
    /\ Y_proc.d # 0 /\ Y_proc.step # "save" /\ ~Y_discarded => Rewriting

\* A restore that has a copy of all it looks for, decoy by decoy.
Putting ==
  /\ Y_proc.from = 0 => AllAsMade
  /\ Y_proc.from # 0 => Y_proc.from = Y!LeadsTo
  /\ \A e \in Y_proc.entries : Backed(Y_proc.from, e)
  /\ \A e \in Y!Decoy : e < Y_proc.d =>
       Y!AsMade(e) /\ (e \in Y_proc.entries => e \in Y_proc.handled)
  /\ Y_proc.step # "put" => Backed(Y_proc.from, Y_proc.d)
  /\ Y_proc.step = "put3" => Y_disk[Y_proc.d].here = "plain"
Restoring ==
  Y_proc.who = "restore" =>
    /\ Y_result \in {"none", "late"} /\ Y_proc.d # 0
    /\ Y_proc.step \in {"put2", "put3"} => Y_proc.d <= Y_Files
    /\ Y_proc.step \in {"put", "put2", "put3"} =>
         /\ (Y_result = "none" => ~Y_discarded)
         /\ (~Y_discarded => Putting)
    /\ Y_proc.step \in {"put", "put2", "put3", "discard", "rewrite", "end"}
    /\ Y_proc.step = "discard" =>
         (~Y_discarded \/ Y_result = "none" => AllAsMade)
    /\ Y_proc.step \in {"rewrite", "end"} =>
         Y_discarded /\ (Y_result = "none" => AllAsMade)

Resulted ==
  Y_result \in {"restored", "cannot"} => Y_proc = Y!Nobody /\ AllAsMade

\* The inductive invariant.
RunInv ==
  /\ RunTypes /\ Unborn /\ Restorable /\ EntriesBacked
  /\ Running /\ Restoring /\ Resulted

LEMMA RunConstants ==
  /\ Y_Files \in Nat \ {0} /\ Y_MaxRun \in Nat \ {0}
  /\ Y!Decoy = 1 .. Y_Files
  BY ServicesAssumption
  DEF ServicesAssumption, Y!RehearsalAssumption, Y!Decoy

\* The journal a restore looks at is that of the newest run, if it has one.
LEMMA LeadsToRun ==
  RunTypes /\ Unborn /\ Y_runs # 0 /\ Y!Kept(Y_runs)
  /\ (Y_manifest.is = "whole" => Y_manifest.saved = Y_runs)
  => Y!LeadsTo = Y_runs
<1> SUFFICES ASSUME RunTypes, Unborn, Y_runs # 0, Y!Kept(Y_runs),
                    Y_manifest.is # "whole"
             PROVE  Y!LeadsTo = Y_runs
  BY DEF Y!LeadsTo
<1>1. Y_runs \in 1 .. Y_MaxRun /\ Y_MaxRun \in Nat
  BY RunConstants DEF RunTypes
<1>2. \A r \in 1 .. Y_MaxRun :
        (Y!Kept(r) /\ \A o \in r + 1 .. Y_MaxRun : ~ Y!Kept(o)) <=> r = Y_runs
  <2>1. \A r \in 1 .. Y_MaxRun : r > Y_runs => ~ Y!Kept(r)
    BY DEF Unborn, Y!Kept
  <2>2. \A o \in Y_runs + 1 .. Y_MaxRun : ~ Y!Kept(o)
    BY <1>1, <2>1
  <2>3. \A r \in 1 .. Y_MaxRun : r < Y_runs => Y_runs \in r + 1 .. Y_MaxRun
    BY <1>1
  <2> QED BY <1>1, <2>1, <2>2, <2>3
<1>3. Y!NewestJournal = Y_runs
  BY <1>1, <1>2 DEF Y!NewestJournal
<1> QED BY <1>1, <1>3 DEF Y!LeadsTo, Y!AnyJournal

\* Where a restore looks is a run.
LEMMA NewestIsRun ==
  RunTypes /\ Y!AnyJournal => Y!NewestJournal \in 1 .. Y_MaxRun
<1> SUFFICES ASSUME RunTypes, Y!AnyJournal
             PROVE  Y!NewestJournal \in 1 .. Y_MaxRun
  OBVIOUS
<1> DEFINE S == {r \in 1 .. Y_MaxRun : Y!Kept(r)}
<1>1. S \subseteq 0 .. Y_MaxRun /\ S # {} /\ Y_MaxRun \in Nat
  BY RunConstants DEF Y!AnyJournal
<1>2. PICK r \in S : \A o \in S : o <= r
  BY <1>1, GreatestOf
<1>3. \A o \in r + 1 .. Y_MaxRun : ~ Y!Kept(o)
  BY <1>1, <1>2
<1> QED BY <1>2, <1>3 DEF Y!NewestJournal

\* What is as it was made needs no copy.
LEMMA AsMadeIsSafe ==
  AllAsMade => Restorable
  BY DEF AllAsMade, Restorable

\* A process that goes on to another step keeps its type.
LEMMA ProcTypes ==
  ASSUME Y_proc \in Procs, NEW step \in Steps
  PROVE  /\ [Y_proc EXCEPT !.step = step] \in Procs
         /\ Y_proc.d <= Y_Files
            => [Y_proc EXCEPT !.step = step, !.d = @ + 1] \in Procs
<1>1. [Y_proc EXCEPT !.step = step] \in Procs
  BY DEF Procs
<1>2. ASSUME Y_proc.d <= Y_Files
      PROVE  [Y_proc EXCEPT !.step = step, !.d = @ + 1] \in Procs
  <2>1. Y_proc.d + 1 \in 0 .. Y_Files + 1
    BY <1>2, RunConstants DEF Procs
  <2> QED BY <2>1 DEF Procs
<1> QED BY <1>1, <1>2

\* A change of one decoy.
LEMMA DiskTypes ==
  ASSUME RunTypes, NEW d \in Y!Decoy, NEW here \in Y!Content,
         NEW out \in Y!Content, Y!Now(d, here, out)
  PROVE  /\ Y_disk' \in [Y!Decoy -> [here : Y!Content, out : Y!Content]]
         /\ Y_disk'[d] = [here |-> here, out |-> out]
         /\ \A e \in Y!Decoy : e # d => Y_disk'[e] = Y_disk[e]
<1>1. PICK x : x = [here |-> here, out |-> out]
  OBVIOUS
<1>2. x \in [here : Y!Content, out : Y!Content]
  BY <1>1
<1>3. Y_disk' = [Y_disk EXCEPT ![d] = x]
  BY <1>1 DEF Y!Now
<1> QED BY <1>1, <1>2, <1>3 DEF RunTypes

LEMMA RunInit == Y!Init => RunInv
<1> SUFFICES ASSUME Y!Init PROVE RunInv
  OBVIOUS
<1>1. /\ Y_runs = 0 /\ Y_proc = Y!Nobody /\ Y_manifest = Y!NoManifest
      /\ Y_result = "none" /\ Y_manifest.is = "none" /\ Y_proc.who = "nobody"
  BY DEF Y!Init, Y!NoManifest, Y!Nobody
<1>2. Unborn /\ Restorable /\ EntriesBacked /\ Running /\ Restoring /\ Resulted
  BY <1>1 DEF Y!Init, Unborn, Restorable, EntriesBacked, Running, Restoring,
     Resulted
<1>3. RunTypes
  <2>1. Y_proc \in Procs
    BY <1>1, RunConstants DEF Y!Nobody, Procs, Steps
  <2>2. Y_disk \in [Y!Decoy -> [here : Y!Content, out : Y!Content]]
    <3>1. "none" \in Y!Content
      BY DEF Y!Content
    <3> QED BY <3>1 DEF Y!Init
  <2>3. Y_manifest \in [is : {"none", "torn", "whole"}, entries : SUBSET Y!Decoy,
                        saved : 0 .. Y_MaxRun] /\ Y_manifest.saved <= Y_runs
    BY <1>1, RunConstants DEF Y!NoManifest
  <2>4. Y_journal \in [1 .. Y_MaxRun -> [Y!Decoy -> States]]
    BY DEF Y!Init, Y!NoJournal, States
  <2>5. Y_copies \in [1 .. Y_MaxRun -> SUBSET Y!Decoy]
    BY DEF Y!Init
  <2>6. Y_shape \in {"inplace", "renamed", "beside"} /\ Y_pruner \in 0 .. Y_MaxRun
        /\ Y_discarded \in BOOLEAN /\ Y_runs \in 0 .. Y_MaxRun
    <3>1. Y_pruner = 0 /\ Y_discarded = FALSE
      BY DEF Y!Init
    <3>2. Y_shape \in {"inplace", "renamed", "beside"}
      BY DEF Y!Init
    <3>3. 0 \in 0 .. Y_MaxRun
      BY RunConstants
    <3> QED BY <1>1, <3>1, <3>2, <3>3
  <2> QED BY <1>1, <2>1, <2>2, <2>3, <2>4, <2>5, <2>6 DEF RunTypes
<1> QED BY <1>2, <1>3 DEF RunInv

-------------------------------------------------------------------------------
(* The steps of a run.                                                     *)

\* What could be put back still can.
Keeps ==
  \A r \in 1 .. Y_MaxRun, d \in Y!Decoy : Backed(r, d) => Backed(r, d)'

\* Only a run that there was has a journal.
LEMMA StillUnborn ==
  ASSUME RunInv, Y_runs # 0, UNCHANGED Y_runs,
         \A r \in 1 .. Y_MaxRun : r > Y_runs => Y_journal'[r] = Y_journal[r]
  PROVE  Unborn'
  BY DEF RunInv, Unborn, Y!NoJournal, Y!Decoy

\* A step of a run that goes on, or is killed, and has not lost its copies.
LEMMA RunGoesOn ==
  ASSUME RunInv, Y_proc.who = "run", UNCHANGED <<Y_runs, Y_result>>,
         RunTypes', Y_proc'.who \in {"run", "nobody"}, Running',
         \A r \in 1 .. Y_MaxRun : r > Y_runs => Y_journal'[r] = Y_journal[r],
         Restorable', EntriesBacked'
  PROVE  RunInv'
<1>1. Y_result = "none" /\ Y_runs # 0
  BY DEF RunInv, Running
<1>2. Unborn'
  BY <1>1, StillUnborn
<1>3. Restoring' /\ Resulted'
  BY <1>1 DEF Restoring, Resulted
<1> QED BY <1>2, <1>3 DEF RunInv

LEMMA RunStarts == ASSUME RunInv, Y!StartRun PROVE RunInv'
<1>1. /\ Y_runs' = Y_runs + 1 /\ Y_runs < Y_MaxRun /\ Y_result' = "none"
      /\ Y_disk' = [d \in Y!Decoy |-> [here |-> "plain", out |-> "none"]]
      /\ UNCHANGED <<Y_shape, Y_manifest, Y_restores, Y_pruner, Y_discarded>>
  BY DEF Y!StartRun
<1>2. Y_journal' = [r \in 1 .. Y_MaxRun |->
                     IF Y!Orphan(r) THEN Y!NoJournal ELSE Y_journal[r]]
  BY DEF Y!StartRun
<1>3. Y_copies' = [r \in 1 .. Y_MaxRun |->
                    IF Y!Orphan(r) THEN {} ELSE Y_copies[r]]
  BY DEF Y!StartRun
<1>4. Y_proc' = [Y!Nobody EXCEPT !.who = "run", !.step = "manifest"]
  BY DEF Y!StartRun
<1>5. /\ Y_proc'.who = "run" /\ Y_proc'.step = "manifest" /\ Y_proc'.d = 0
      /\ Y_proc'.entries = {} /\ Y_proc' \in Procs
  <2>1. Y_proc' = [who |-> "run", step |-> "manifest", d |-> 0, entries |-> {},
                   from |-> 0, handled |-> {}, recovered |-> FALSE]
    BY <1>4 DEF Y!Nobody
  <2>2. 0 \in 0 .. Y_Files + 1 /\ 0 \in 0 .. Y_MaxRun
    BY RunConstants
  <2> QED BY <2>1, <2>2 DEF Procs, Steps
<1>6. Y_runs \in Nat /\ Y_runs' \in 1 .. Y_MaxRun
  BY <1>1, RunConstants DEF RunInv, RunTypes
<1>7. Y!NoJournal \in [Y!Decoy -> States]
  BY DEF Y!NoJournal, States
<1>8. RunTypes'
  <2>1. Y_disk' \in [Y!Decoy -> [here : Y!Content, out : Y!Content]]
    BY <1>1 DEF Y!Content
  <2>2. Y_journal' \in [1 .. Y_MaxRun -> [Y!Decoy -> States]]
    BY <1>2, <1>7 DEF RunInv, RunTypes
  <2>3. Y_copies' \in [1 .. Y_MaxRun -> SUBSET Y!Decoy]
    BY <1>3 DEF RunInv, RunTypes
  <2>4. Y_manifest'.saved <= Y_runs'
    BY <1>1, <1>6, RunConstants DEF RunInv, RunTypes
  <2> QED BY <1>1, <1>5, <1>6, <2>1, <2>2, <2>3, <2>4 DEF RunInv, RunTypes
<1>9. AllAsMade'
  BY <1>1 DEF AllAsMade, Y!AsMade
<1>10. Unborn'
  <2>1. ASSUME NEW r \in 1 .. Y_MaxRun, r > Y_runs + 1
        PROVE  Y_journal'[r] = Y!NoJournal
    <3>1. r > Y_runs
      BY <1>6, <2>1, RunConstants
    <3>2. Y_journal[r] = Y!NoJournal
      BY <3>1 DEF RunInv, Unborn
    <3> QED BY <1>2, <3>2
  <2>2. Y_runs + 1 # 0
    BY <1>6
  <2> QED BY <1>1, <2>1, <2>2 DEF Unborn, Y!NoJournal, Y!Decoy
<1>11. Restorable'
  BY <1>9 DEF AllAsMade, Restorable, Y!AsMade, Y!Decoy
<1>12. EntriesBacked'
  <2>1. ASSUME ~Y_discarded, Y_manifest.is = "whole", NEW d \in Y_manifest.entries
        PROVE  Backed(Y_manifest.saved, d)'
    <3>1. Backed(Y_manifest.saved, d)
      BY <2>1 DEF RunInv, EntriesBacked
    <3>2. ~ Y!Orphan(Y_manifest.saved)
      BY <2>1 DEF Y!Orphan
    <3> QED BY <1>1, <1>2, <1>3, <3>1, <3>2 DEF Backed
  <2> QED BY <1>1, <2>1 DEF EntriesBacked
<1>13. Running'
  <2>1. Y_journal'[Y_runs'] = Y!NoJournal
    BY <1>1, <1>2, <1>6 DEF RunInv, Unborn
  <2>2. Y!NoJournal' = Y!NoJournal
    BY DEF Y!NoJournal, Y!Decoy
  <2> QED BY <1>1, <1>5, <1>6, <1>9, <2>1, <2>2, RunConstants DEF Running, Fresh
<1>14. Restoring' /\ Resulted'
  BY <1>1, <1>5 DEF Restoring, Resulted
<1> QED BY <1>8, <1>10, <1>11, <1>12, <1>13, <1>14 DEF RunInv

\* Where a run that rewrites has what it needs.
LEMMA RewritingLeads ==
  ASSUME RunInv, Y_proc.who = "run", Y_proc.d # 0, Y_proc.step # "save",
         ~Y_discarded
  PROVE  /\ Rewriting /\ Y!LeadsTo = Y_runs /\ Y_runs \in 1 .. Y_MaxRun
         /\ \A d \in Y!Decoy : Y!AsMade(d) \/ Backed(Y_runs, d)
<1>1. Rewriting /\ Y_runs # 0
  BY DEF RunInv, Running
<1>2. Y!LeadsTo = Y_runs
  BY <1>1, LeadsToRun DEF RunInv, Rewriting
<1>3. Y_runs \in 1 .. Y_MaxRun /\ Y_runs > 0
  BY <1>1, RunConstants DEF RunInv, RunTypes
<1> QED BY <1>1, <1>2, <1>3 DEF RunInv, Restorable

\* A run that has what it needs where a restore would look.
LEMMA LeadsStill ==
  ASSUME RunTypes', Unborn', Y_runs' # 0, Y_runs' = Y_runs, Y!Kept(Y_runs)',
         Y_manifest'.is = "whole" => Y_manifest'.saved = Y_runs',
         \A d \in Y!Decoy : Y!AsMade(d)' \/ Backed(Y_runs, d)'
  PROVE  Restorable'
<1>1. Y!LeadsTo' = Y_runs'
  <2>1. (RunTypes /\ Unborn /\ Y_runs # 0 /\ Y!Kept(Y_runs)
         /\ (Y_manifest.is = "whole" => Y_manifest.saved = Y_runs)
         => Y!LeadsTo = Y_runs)'
    BY LeadsToRun, PTL
  <2> QED BY <2>1
<1> QED BY <1>1 DEF Restorable, Backed, Y!Decoy

LEMMA RunBegins == ASSUME RunInv, Y!Begin PROVE RunInv'
<1>1. /\ Y_journal' = [Y_journal EXCEPT ![Y_runs] = Y!BeginState(@, Y_proc.d)]
      /\ Y_proc' = [Y_proc EXCEPT !.step = "tear"]
      /\ UNCHANGED <<Y_shape, Y_disk, Y_manifest, Y_copies, Y_runs, Y_restores,
                     Y_pruner, Y_discarded, Y_result>>
      /\ Y_proc.who = "run" /\ Y_proc.step = "begin"
  BY DEF Y!Begin, Y!At, Y!Goes
<1>2. Y_proc \in Procs /\ Y_proc' \in Procs
  BY <1>1, ProcTypes DEF RunInv, RunTypes, Steps
<1>3. /\ Y_proc'.who = "run" /\ Y_proc'.step = "tear" /\ Y_proc'.d = Y_proc.d
      /\ Y_proc'.entries = Y_proc.entries
  BY <1>1, <1>2 DEF Procs
<1>4. Y_proc.d \in Y!Decoy /\ Y_runs \in 1 .. Y_MaxRun /\ Y_result = "none"
  BY <1>1, <1>2, RunConstants DEF RunInv, RunTypes, Running, Procs
<1>5. PICK old : old = Y_journal[Y_runs]
  OBVIOUS
<1>6. PICK d : d = Y_proc.d
  OBVIOUS
<1>7. PICK new : new = Y!BeginState(old, d)
  OBVIOUS
<1>8. old \in [Y!Decoy -> States] /\ d \in Y!Decoy
  BY <1>4, <1>5, <1>6 DEF RunInv, RunTypes
<1>9. /\ new \in [Y!Decoy -> States] /\ new[d] = "in_flight"
      /\ \A e \in Y!Decoy : old[e] \in Begun => new[e] \in Begun
  BY <1>7, <1>8 DEF Y!BeginState, Y!Past, States, Begun
<1>10. Y_journal' = [Y_journal EXCEPT ![Y_runs] = new]
  BY <1>1, <1>5, <1>6, <1>7
<1>11. /\ Y_journal' \in [1 .. Y_MaxRun -> [Y!Decoy -> States]]
       /\ Y_journal'[Y_runs] = new
       /\ \A r \in 1 .. Y_MaxRun : r # Y_runs => Y_journal'[r] = Y_journal[r]
  BY <1>4, <1>9, <1>10 DEF RunInv, RunTypes
<1>12. RunTypes'
  BY <1>1, <1>2, <1>3, <1>11 DEF RunInv, RunTypes
<1>13. Keeps
  BY <1>1, <1>5, <1>9, <1>11 DEF Keeps, Backed
<1>14. new # Y!NoJournal
  BY <1>8, <1>9 DEF Y!NoJournal
<1>15. Running'
  <2>1. ASSUME ~Y_discarded PROVE Rewriting'
    <3>1. Rewriting
      BY <1>1, <1>4, <2>1, RewritingLeads, RunConstants
    <3>2. Y!Kept(Y_runs)'
      BY <1>1, <1>11, <1>14 DEF Y!Kept, Y!NoJournal, Y!Decoy
    <3>3. \A e \in Y_proc'.entries : Y_journal'[Y_runs][e] \in Begun
      BY <1>2, <1>3, <1>5, <1>9, <1>11, <3>1 DEF Rewriting, Procs
    <3>4. Y_journal'[Y_runs][Y_proc'.d] \in Begun
      BY <1>3, <1>6, <1>9, <1>11 DEF Begun
    <3>5. Y_manifest'.is = "whole" /\ Y_manifest'.saved = Y_runs'
          /\ Y_copies'[Y_runs'] = Y!Decoy
      BY <1>1, <3>1 DEF Rewriting
    <3> QED BY <1>1, <1>3, <3>2, <3>3, <3>4, <3>5 DEF Rewriting, Y!Decoy
  <2> QED BY <1>1, <1>3, <1>4, <2>1, RunConstants DEF RunInv, Running
<1>16. Restorable'
  <2>1. CASE Y_discarded
    BY <1>1, <2>1 DEF Restorable
  <2>2. CASE ~Y_discarded
    <3>1. Rewriting /\ \A e \in Y!Decoy : Y!AsMade(e) \/ Backed(Y_runs, e)
      BY <1>1, <1>4, <2>2, RewritingLeads, RunConstants
    <3>2. Unborn'
      <4>1. \A r \in 1 .. Y_MaxRun : r > Y_runs => Y_journal'[r] = Y_journal[r]
        BY <1>4, <1>11, RunConstants
      <4>2. Y_runs # 0
        BY <1>4, RunConstants
      <4> QED BY <1>1, <4>1, <4>2, StillUnborn
    <3>3. Y_runs' # 0 /\ Y!Kept(Y_runs)'
      BY <1>1, <1>4, <1>11, <1>14, RunConstants DEF Y!Kept, Y!NoJournal, Y!Decoy
    <3>4. \A e \in Y!Decoy : Y!AsMade(e)' \/ Backed(Y_runs, e)'
      BY <1>1, <1>4, <1>13, <3>1 DEF Keeps, Y!AsMade, Backed
    <3> QED BY <1>1, <1>12, <3>1, <3>2, <3>3, <3>4, LeadsStill DEF Rewriting
  <2> QED BY <2>1, <2>2
<1>17. EntriesBacked'
  BY <1>1, <1>13 DEF RunInv, RunTypes, EntriesBacked, Keeps, Backed
<1> QED BY <1>1, <1>3, <1>11, <1>12, <1>15, <1>16, <1>17, RunGoesOn
        DEF RunInv, RunTypes

LEMMA RunTears == ASSUME RunInv, Y!TearManifest PROVE RunInv'
<1>1. /\ Y_manifest' = Y!Torn /\ Y_proc' = [Y_proc EXCEPT !.step = "manifest2"]
      /\ UNCHANGED <<Y_shape, Y_disk, Y_journal, Y_copies, Y_runs, Y_restores,
                     Y_pruner, Y_discarded, Y_result>>
      /\ Y_proc.who = "run" /\ Y_proc.step = "manifest"
  BY DEF Y!TearManifest, Y!At, Y!Goes
<1>2. Y_proc \in Procs /\ Y_proc' \in Procs
  BY <1>1, ProcTypes DEF RunInv, RunTypes, Steps
<1>3. /\ Y_proc'.who = "run" /\ Y_proc'.step = "manifest2" /\ Y_proc'.d = Y_proc.d
      /\ Y_proc'.entries = Y_proc.entries
  BY <1>1, <1>2 DEF Procs
<1>4. /\ Y_manifest' \in [is : {"none", "torn", "whole"}, entries : SUBSET Y!Decoy,
                          saved : 0 .. Y_MaxRun]
      /\ Y_manifest'.is = "torn" /\ Y_manifest'.saved = 0
  <2>1. 0 \in 0 .. Y_MaxRun
    BY RunConstants
  <2> QED BY <1>1, <2>1 DEF RunInv, RunTypes, Y!Torn
<1>5. Y_runs # 0 /\ Y_runs \in 1 .. Y_MaxRun /\ 0 <= Y_runs /\ Y_proc.d <= Y_Files
      /\ Y_result = "none"
  BY <1>1, RunConstants DEF RunInv, RunTypes, Running
<1>6. RunTypes'
  BY <1>1, <1>2, <1>3, <1>4, <1>5 DEF RunInv, RunTypes
<1>7. Y_proc.d = 0 => Fresh /\ Fresh'
  BY <1>1, <1>3 DEF RunInv, Running, Fresh, AllAsMade, Y!AsMade, Y!NoJournal, Y!Decoy
<1>8. ASSUME Y_proc.d # 0, ~Y_discarded PROVE Rewriting /\ Rewriting'
  <2>1. Rewriting
    BY <1>1, <1>8, RewritingLeads
  <2> QED BY <1>1, <1>3, <1>4, <2>1 DEF Rewriting, Y!Kept, Y!NoJournal, Y!Decoy
<1>9. Running'
  BY <1>1, <1>3, <1>5, <1>7, <1>8 DEF Running
<1>10. Unborn'
  BY <1>1, <1>5, StillUnborn
<1>11. Restorable'
  <2>1. CASE Y_proc.d = 0 \/ Y_discarded
    BY <1>1, <1>7, <2>1 DEF Restorable, Fresh, AllAsMade, Y!Decoy
  <2>2. CASE Y_proc.d # 0 /\ ~Y_discarded
    <3>1. \A e \in Y!Decoy : Y!AsMade(e) \/ Backed(Y_runs, e)
      BY <1>1, <2>2, RewritingLeads
    <3>2. \A e \in Y!Decoy : Y!AsMade(e)' \/ Backed(Y_runs, e)'
      BY <1>1, <3>1 DEF Y!AsMade, Backed
    <3>3. Y!Kept(Y_runs)'
      BY <1>8, <2>2 DEF Rewriting
    <3> QED BY <1>1, <1>4, <1>5, <1>6, <1>10, <3>2, <3>3, LeadsStill
  <2> QED BY <2>1, <2>2
<1>12. EntriesBacked'
  BY <1>4 DEF EntriesBacked
<1> QED BY <1>1, <1>3, <1>6, <1>9, <1>11, <1>12, RunGoesOn

LEMMA RunNotes == ASSUME RunInv, Y!WriteManifest PROVE RunInv'
<1>1. /\ Y_manifest' = Y!Whole(Y_proc.entries, Y_runs)
      /\ Y_discarded' = (Y_discarded /\ Y_proc.d # 0)
      /\ UNCHANGED <<Y_shape, Y_disk, Y_journal, Y_copies, Y_runs, Y_restores,
                     Y_pruner, Y_result>>
      /\ Y_proc.who = "run" /\ Y_proc.step = "manifest2"
  BY DEF Y!WriteManifest, Y!At
<1>2. PICK step : step = IF Y_proc.d = 0 THEN "save"
                         ELSE IF Y_proc.d < Y_Files THEN "begin" ELSE "finish"
  OBVIOUS
<1>3. Y_proc' = [Y_proc EXCEPT !.step = step, !.d = @ + 1]
  BY <1>2 DEF Y!WriteManifest, Y!GoesOn
<1>4. /\ Y_runs # 0 /\ Y_runs \in 1 .. Y_MaxRun /\ Y_proc.d <= Y_Files
      /\ Y_result = "none"
  BY <1>1, RunConstants DEF RunInv, RunTypes, Running
<1>5. Y_proc \in Procs /\ Y_proc' \in Procs
  <2>1. step \in Steps
    BY <1>2 DEF Steps
  <2> QED BY <1>3, <1>4, <2>1, ProcTypes DEF RunInv, RunTypes
<1>6. /\ Y_proc'.who = "run" /\ Y_proc'.step = step /\ Y_proc'.d = Y_proc.d + 1
      /\ Y_proc'.entries = Y_proc.entries /\ Y_proc.d \in Nat
      /\ Y_proc.entries \subseteq Y!Decoy
  BY <1>1, <1>3, <1>5, RunConstants DEF Procs
<1>7. /\ Y_manifest' \in [is : {"none", "torn", "whole"}, entries : SUBSET Y!Decoy,
                          saved : 0 .. Y_MaxRun]
      /\ Y_manifest'.is = "whole" /\ Y_manifest'.saved = Y_runs
      /\ Y_manifest'.entries = Y_proc.entries
  BY <1>1, <1>4, <1>6, RunConstants DEF Y!Whole
<1>8. RunTypes'
  BY <1>1, <1>4, <1>5, <1>6, <1>7 DEF RunInv, RunTypes
<1>9. Y_proc.d = 0 => Fresh /\ Fresh' /\ Y_proc.entries = {}
  BY <1>1, <1>6 DEF RunInv, Running, Fresh, AllAsMade, Y!AsMade, Y!NoJournal, Y!Decoy
<1>10. ASSUME Y_proc.d # 0, ~Y_discarded PROVE Rewriting /\ Rewriting'
  <2>1. Rewriting
    BY <1>1, <1>10, RewritingLeads
  <2>2. step \in {"begin", "finish"}
    BY <1>2, <1>10
  <2> QED BY <1>1, <1>6, <1>7, <2>1, <2>2
          DEF Rewriting, Y!Kept, Y!NoJournal, Y!Decoy
<1>11. Running'
  <2>1. Y_proc.d = 0 => step = "save" /\ Y_proc'.d = 1
                        /\ Y_manifest' = Y!Whole({}, Y_runs)'
    BY <1>1, <1>2, <1>6, <1>9 DEF Y!Whole
  <2>2. Y_proc.d # 0 => step \in {"begin", "finish"} /\ Y_proc'.d # 0
                        /\ (step # "finish" => Y_proc.d < Y_Files)
    BY <1>2, <1>6
  <2>3. Y_proc'.d # 0 /\ (step # "finish" => Y_proc'.d <= Y_Files)
    BY <1>6, <2>1, <2>2, RunConstants
  <2> QED BY <1>1, <1>4, <1>6, <1>9, <1>10, <2>1, <2>2, <2>3 DEF Running
<1>12. Unborn'
  BY <1>1, <1>4, StillUnborn
<1>13. Restorable'
  <2>1. CASE Y_proc.d = 0
    BY <1>9, <2>1 DEF Restorable, Fresh, AllAsMade, Y!Decoy
  <2>2. CASE Y_discarded /\ Y_proc.d # 0
    BY <1>1, <2>2 DEF Restorable
  <2>3. CASE Y_proc.d # 0 /\ ~Y_discarded
    <3>1. \A e \in Y!Decoy : Y!AsMade(e) \/ Backed(Y_runs, e)
      BY <1>1, <2>3, RewritingLeads
    <3>2. \A e \in Y!Decoy : Y!AsMade(e)' \/ Backed(Y_runs, e)'
      BY <1>1, <3>1 DEF Y!AsMade, Backed
    <3>3. Y!Kept(Y_runs)'
      BY <1>10, <2>3 DEF Rewriting
    <3> QED BY <1>1, <1>4, <1>7, <1>8, <1>12, <3>2, <3>3, LeadsStill
  <2> QED BY <2>1, <2>2, <2>3
<1>14. EntriesBacked'
  <2>1. CASE Y_proc.d = 0
    BY <1>7, <1>9, <2>1 DEF EntriesBacked
  <2>2. CASE Y_discarded /\ Y_proc.d # 0
    BY <1>1, <2>2 DEF EntriesBacked
  <2>3. CASE Y_proc.d # 0 /\ ~Y_discarded
    <3>1. \A e \in Y_proc.entries : Backed(Y_runs, e)'
      BY <1>1, <1>4, <1>6, <1>10, <2>3 DEF Rewriting, Backed
    <3> QED BY <1>1, <1>7, <3>1 DEF EntriesBacked, Backed
  <2> QED BY <2>1, <2>2, <2>3
<1> QED BY <1>1, <1>4, <1>6, <1>8, <1>11, <1>13, <1>14, RunGoesOn

\* Before the first decoy: everything is as it was made.
LEMMA FreshIsFine ==
  ASSUME RunInv, Y_proc.who = "run", Y_proc.step = "save"
  PROVE  /\ Fresh /\ Y_proc.d = 1 /\ Y_manifest = Y!Whole({}, Y_runs)
         /\ Y_manifest.is = "whole" /\ Y_manifest.entries = {}
         /\ Y_manifest.saved = Y_runs
         /\ Y_runs \in 1 .. Y_MaxRun /\ Y_runs # 0 /\ Y_result = "none"
<1>1. Y_runs # 0 /\ Y_runs \in 1 .. Y_MaxRun
  BY RunConstants DEF RunInv, RunTypes, Running
<1>2. Y_manifest = Y!Whole({}, Y_runs)
  BY DEF RunInv, Running
<1> QED BY <1>1, <1>2 DEF RunInv, Running, Y!Whole

LEMMA RunSaves == ASSUME RunInv, Y!SaveCopy PROVE RunInv'
<1>1. /\ Y_proc.who = "run" /\ Y_proc.step = "save"
      /\ UNCHANGED <<Y_shape, Y_disk, Y_manifest, Y_journal, Y_runs, Y_restores,
                     Y_proc, Y_pruner, Y_discarded, Y_result>>
  BY DEF Y!SaveCopy, Y!At
<1>2. PICK d \in Y!Decoy :
        Y_copies' = [Y_copies EXCEPT ![Y_runs] = @ \cup {d}]
  BY DEF Y!SaveCopy
<1>3. Y_copies' \in [1 .. Y_MaxRun -> SUBSET Y!Decoy]
  BY <1>2 DEF RunInv, RunTypes
<1>4. RunTypes'
  BY <1>1, <1>3 DEF RunInv, RunTypes, Y!Decoy
<1>5. Running'
  BY <1>1, FreshIsFine
     DEF RunInv, Running, Fresh, AllAsMade, Y!AsMade, Y!NoJournal, Y!Decoy, Y!Whole
<1>6. Restorable'
  BY <1>1, FreshIsFine DEF Restorable, Fresh, AllAsMade, Y!AsMade, Y!Decoy
<1>7. EntriesBacked'
  BY <1>1, FreshIsFine DEF EntriesBacked
<1> QED BY <1>1, <1>4, <1>5, <1>6, <1>7, RunGoesOn

LEMMA RunJournals == ASSUME RunInv, Y!Journal PROVE RunInv'
<1>1. /\ Y_proc.who = "run" /\ Y_proc.step = "save" /\ Y_copies[Y_runs] = Y!Decoy
      /\ Y_proc' = [Y_proc EXCEPT !.step = "begin"]
      /\ Y_journal' = [Y_journal EXCEPT ![Y_runs] = [d \in Y!Decoy |-> "pending"]]
      /\ UNCHANGED <<Y_shape, Y_disk, Y_manifest, Y_copies, Y_runs, Y_restores,
                     Y_pruner, Y_discarded, Y_result>>
  BY DEF Y!Journal, Y!At, Y!Goes, Y!AllSaved
<1>2. Y_proc \in Procs /\ Y_proc' \in Procs
  BY <1>1, ProcTypes DEF RunInv, RunTypes, Steps
<1>3. /\ Y_proc'.who = "run" /\ Y_proc'.step = "begin" /\ Y_proc'.d = 1
      /\ Y_proc'.entries = {}
  BY <1>1, <1>2, FreshIsFine DEF Procs, Fresh
<1>4. PICK new : new = [d \in Y!Decoy |-> "pending"]
  OBVIOUS
<1>5. /\ Y_journal' \in [1 .. Y_MaxRun -> [Y!Decoy -> States]]
      /\ Y_journal'[Y_runs] = new
      /\ \A r \in 1 .. Y_MaxRun : r # Y_runs => Y_journal'[r] = Y_journal[r]
  <2>1. new \in [Y!Decoy -> States]
    BY <1>4 DEF States
  <2>2. Y_journal' = [Y_journal EXCEPT ![Y_runs] = new]
    BY <1>1, <1>4
  <2> QED BY <1>1, <2>1, <2>2, FreshIsFine DEF RunInv, RunTypes
<1>6. RunTypes'
  BY <1>1, <1>2, <1>3, <1>5 DEF RunInv, RunTypes
<1>7. new # Y!NoJournal
  <2>1. 1 \in Y!Decoy
    BY RunConstants
  <2>2. new[1] = "pending" /\ Y!NoJournal[1] = "none"
    BY <1>4, <2>1 DEF Y!NoJournal
  <2> QED BY <2>2
<1>8. Rewriting'
  <2>1. Y!Kept(Y_runs)'
    BY <1>1, <1>5, <1>7 DEF Y!Kept, Y!NoJournal, Y!Decoy
  <2> QED BY <1>1, <1>3, <2>1, FreshIsFine DEF Rewriting, Y!Decoy
<1>9. Running'
  BY <1>1, <1>3, <1>8, FreshIsFine, RunConstants DEF Running
<1>10. Restorable'
  BY <1>1, FreshIsFine DEF Restorable, Fresh, AllAsMade, Y!AsMade, Y!Decoy
<1>11. EntriesBacked'
  BY <1>1, FreshIsFine DEF EntriesBacked
<1>12. \A r \in 1 .. Y_MaxRun : r > Y_runs => Y_journal'[r] = Y_journal[r]
  BY <1>1, <1>5, FreshIsFine
<1> QED BY <1>1, <1>3, <1>6, <1>9, <1>10, <1>11, <1>12, RunGoesOn

\* A step that rewrites the decoy in turn, which it has begun.
LEMMA RunRewrites ==
  ASSUME RunInv, Y_proc.who = "run", Y_proc.step \in {"tear", "fill", "move"},
         UNCHANGED <<Y_shape, Y_manifest, Y_journal, Y_copies, Y_runs, Y_restores,
                     Y_pruner, Y_discarded, Y_result>>,
         Y_disk' \in [Y!Decoy -> [here : Y!Content, out : Y!Content]],
         \A e \in Y!Decoy : e # Y_proc.d => Y_disk'[e] = Y_disk[e],
         Y_proc' \in Procs, Y_proc'.who = "run", Y_proc'.d = Y_proc.d,
         Y_proc'.step \in {"fill", "move", "manifest"},
         Y_proc'.entries \subseteq Y_proc.entries \cup {Y_proc.d}
  PROVE  RunInv'
<1>1. /\ Y_runs # 0 /\ Y_runs \in 1 .. Y_MaxRun /\ Y_proc.d <= Y_Files
      /\ Y_result = "none" /\ Y_proc.d # 0
  BY RunConstants DEF RunInv, RunTypes, Running
<1>2. RunTypes'
  BY DEF RunInv, RunTypes, Y!Decoy, Y!Content, Procs
<1>3. ASSUME ~Y_discarded PROVE Rewriting /\ Rewriting'
  <2>1. Rewriting
    BY <1>1, <1>3, RewritingLeads
  <2> QED BY <2>1 DEF Rewriting, Y!Kept, Y!NoJournal, Y!Decoy
<1>4. Running'
  BY <1>1, <1>3 DEF Running
<1>5. Unborn'
  BY <1>1, StillUnborn
<1>6. Restorable'
  <2>1. CASE Y_discarded
    BY <2>1 DEF Restorable
  <2>2. CASE ~Y_discarded
    <3>1. \A e \in Y!Decoy : Y!AsMade(e) \/ Backed(Y_runs, e)
      BY <1>1, <2>2, RewritingLeads
    <3>2. Backed(Y_runs, Y_proc.d)
      BY <1>1, <1>3, <2>2, RunConstants DEF Rewriting, Backed, RunInv, RunTypes, Procs
    <3>3. \A e \in Y!Decoy : Y!AsMade(e)' \/ Backed(Y_runs, e)'
      BY <3>1, <3>2 DEF Y!AsMade, Backed
    <3>4. Y!Kept(Y_runs)' /\ (Y_manifest'.is = "whole" => Y_manifest'.saved = Y_runs')
      BY <1>3, <2>2 DEF Rewriting
    <3> QED BY <1>1, <1>2, <1>5, <3>3, <3>4, LeadsStill
  <2> QED BY <2>1, <2>2
<1>7. EntriesBacked'
  BY DEF RunInv, EntriesBacked, Backed
<1> QED BY <1>2, <1>4, <1>6, <1>7, RunGoesOn

LEMMA RunEncrypts ==
  ASSUME RunInv, Y!Tear \/ Y!Fill \/ Y!Move PROVE RunInv'
<1>1. PICK step \in {"fill", "move", "manifest"} :
        /\ Y_proc' = [Y_proc EXCEPT !.step = step]
           \/ Y_proc' = [Y_proc EXCEPT !.entries = @ \cup {Y_proc.d}, !.step = step]
        /\ Y_proc.who = "run" /\ Y_proc.step \in {"tear", "fill", "move"}
        /\ UNCHANGED <<Y_shape, Y_manifest, Y_journal, Y_copies, Y_runs, Y_restores,
                       Y_pruner, Y_discarded, Y_result>>
  BY DEF Y!Tear, Y!Fill, Y!Move, Y!At, Y!Goes
<1>2. PICK d : d = Y_proc.d
  OBVIOUS
<1>3. d \in Y!Decoy /\ Y_proc \in Procs
  BY <1>1, <1>2, RunConstants DEF RunInv, RunTypes, Running, Procs
<1>4. /\ Y_proc' \in Procs /\ Y_proc'.who = "run" /\ Y_proc'.d = d
      /\ Y_proc'.step = step /\ Y_proc'.entries \subseteq Y_proc.entries \cup {d}
  <2>1. step \in Steps
    BY <1>1 DEF Steps
  <2>2. CASE Y_proc' = [Y_proc EXCEPT !.step = step]
    BY <1>1, <1>2, <1>3, <2>1, <2>2 DEF Procs
  <2>3. CASE Y_proc' = [Y_proc EXCEPT !.entries = @ \cup {Y_proc.d}, !.step = step]
    <3>1. PICK entries : entries = Y_proc.entries \cup {d}
      OBVIOUS
    <3>2. entries \in SUBSET Y!Decoy
      BY <1>3, <3>1 DEF Procs
    <3>3. Y_proc' = [Y_proc EXCEPT !.entries = entries, !.step = step]
      BY <1>2, <2>3, <3>1
    <3> QED BY <1>1, <1>2, <1>3, <2>1, <3>1, <3>2, <3>3 DEF Procs
  <2> QED BY <1>1, <2>2, <2>3
<1>5. \/ UNCHANGED Y_disk
      \/ \E here, out \in Y!Content : Y!Now(d, here, out)
  BY <1>2 DEF Y!Tear, Y!Fill, Y!Move, Y!Content
<1>6. /\ Y_disk' \in [Y!Decoy -> [here : Y!Content, out : Y!Content]]
      /\ \A e \in Y!Decoy : e # d => Y_disk'[e] = Y_disk[e]
  BY <1>3, <1>5, DiskTypes DEF RunInv, RunTypes
<1> QED BY <1>1, <1>2, <1>4, <1>6, RunRewrites

LEMMA RunFinishes == ASSUME RunInv, Y!Finish PROVE RunInv'
<1>1. /\ Y_proc.who = "run" /\ Y_proc.step = "finish" /\ Y_proc' = Y!Nobody
      /\ Y_journal' = [Y_journal EXCEPT ![Y_runs] = Y!Past(@)]
      /\ UNCHANGED <<Y_shape, Y_disk, Y_manifest, Y_copies, Y_runs, Y_restores,
                     Y_pruner, Y_discarded, Y_result>>
  BY DEF Y!Finish, Y!At
<1>2. PICK old : old = Y_journal[Y_runs]
  OBVIOUS
<1>3. PICK new : new = Y!Past(old)
  OBVIOUS
<1>4. /\ Y_runs # 0 /\ Y_runs \in 1 .. Y_MaxRun /\ Y_result = "none" /\ Y_proc.d # 0
      /\ Y_proc' \in Procs /\ Y_proc'.who = "nobody"
  <2>1. Y!Nobody \in Procs /\ Y!Nobody.who = "nobody"
    <3>1. 0 \in 0 .. Y_Files + 1 /\ 0 \in 0 .. Y_MaxRun
      BY RunConstants
    <3> QED BY <3>1 DEF Y!Nobody, Procs, Steps
  <2> QED BY <1>1, <2>1, RunConstants DEF RunInv, RunTypes, Running
<1>5. old \in [Y!Decoy -> States]
  BY <1>2, <1>4 DEF RunInv, RunTypes
<1>6. /\ new \in [Y!Decoy -> States]
      /\ \A e \in Y!Decoy : /\ old[e] \in Begun => new[e] \in Begun
                            /\ old[e] # "none" => new[e] # "none"
  BY <1>3, <1>5 DEF Y!Past, States, Begun
<1>7. /\ Y_journal' \in [1 .. Y_MaxRun -> [Y!Decoy -> States]]
      /\ Y_journal'[Y_runs] = new
      /\ \A r \in 1 .. Y_MaxRun : r # Y_runs => Y_journal'[r] = Y_journal[r]
  <2>1. Y_journal' = [Y_journal EXCEPT ![Y_runs] = new]
    BY <1>1, <1>2, <1>3
  <2> QED BY <1>4, <1>6, <2>1 DEF RunInv, RunTypes
<1>8. RunTypes'
  <2>1. Y!Nobody' = Y!Nobody
    BY DEF Y!Nobody
  <2> QED BY <1>1, <1>4, <1>7, <2>1 DEF RunInv, RunTypes, Y!Decoy, Y!Content, Procs
<1>9. Running'
  BY <1>4 DEF Running
<1>10. \A r \in 1 .. Y_MaxRun : r > Y_runs => Y_journal'[r] = Y_journal[r]
  BY <1>4, <1>7, RunConstants
<1>11. Unborn'
  BY <1>1, <1>4, <1>10, StillUnborn
<1>12. \A r \in 1 .. Y_MaxRun, e \in Y!Decoy : Backed(r, e) => Backed(r, e)'
  BY <1>1, <1>2, <1>6, <1>7 DEF Backed
<1>13. Restorable'
  <2>1. CASE Y_discarded
    BY <1>1, <2>1 DEF Restorable
  <2>2. CASE ~Y_discarded
    <3>1. Rewriting /\ \A e \in Y!Decoy : Y!AsMade(e) \/ Backed(Y_runs, e)
      BY <1>1, <1>4, <2>2, RewritingLeads
    <3>2. \A e \in Y!Decoy : Y!AsMade(e)' \/ Backed(Y_runs, e)'
      BY <1>1, <1>4, <1>12, <3>1 DEF Y!AsMade, Backed
    <3>3. old # Y!NoJournal
      BY <1>2, <3>1 DEF Rewriting, Y!Kept
    <3>4. PICK e \in Y!Decoy : old[e] # "none"
      <4>1. old = [e \in Y!Decoy |-> old[e]]
        BY <1>5
      <4> QED BY <3>3, <4>1 DEF Y!NoJournal
    <3>5. new # Y!NoJournal
      BY <1>6, <3>4 DEF Y!NoJournal
    <3>6. Y!Kept(Y_runs)'
      BY <1>1, <1>7, <3>5 DEF Y!Kept, Y!NoJournal, Y!Decoy
    <3>7. Y_manifest'.is = "whole" => Y_manifest'.saved = Y_runs'
      BY <1>1, <3>1 DEF Rewriting
    <3> QED BY <1>1, <1>4, <1>8, <1>11, <3>2, <3>6, <3>7, LeadsStill
  <2> QED BY <2>1, <2>2
<1>14. EntriesBacked'
  BY <1>1, <1>12 DEF RunInv, RunTypes, EntriesBacked, Backed
<1> QED BY <1>1, <1>4, <1>8, <1>9, <1>10, <1>13, <1>14, RunGoesOn

-------------------------------------------------------------------------------
(* Killing, and the pruning of another run.                                *)

LEMMA NobodyTypes ==
  Y!Nobody \in Procs /\ Y!Nobody.who = "nobody" /\ Y!Nobody' = Y!Nobody
<1>1. 0 \in 0 .. Y_Files + 1 /\ 0 \in 0 .. Y_MaxRun
  BY RunConstants
<1> QED BY <1>1 DEF Y!Nobody, Procs, Steps

LEMMA RunIsKilled == ASSUME RunInv, Y!Kill PROVE RunInv'
<1>1. /\ Y_proc.who # "nobody" /\ Y_proc' = Y!Nobody
      /\ UNCHANGED <<Y_shape, Y_disk, Y_manifest, Y_journal, Y_copies, Y_runs,
                     Y_restores, Y_pruner, Y_discarded, Y_result>>
  BY DEF Y!Kill
<1>2. RunTypes'
  BY <1>1, NobodyTypes DEF RunInv, RunTypes, Y!Decoy, Y!Content, Procs
<1>3. Running' /\ Restoring'
  BY <1>1, NobodyTypes DEF Running, Restoring
<1>4. Y_result \notin {"restored", "cannot"}
  BY <1>1, NobodyTypes DEF RunInv, Resulted
<1>5. Resulted'
  BY <1>1, <1>4 DEF Resulted
<1>6. Unborn'
  BY <1>1, NobodyTypes DEF RunInv, Unborn, Y!NoJournal, Y!Decoy
<1>7. Restorable' /\ EntriesBacked'
  BY <1>1 DEF RunInv, Restorable, EntriesBacked, Backed, Y!AsMade, Y!Decoy,
     Y!LeadsTo, Y!AnyJournal, Y!NewestJournal, Y!Kept, Y!NoJournal
<1> QED BY <1>2, <1>3, <1>5, <1>6, <1>7 DEF RunInv

LEMMA RunIsFound == ASSUME RunInv, Y!PruneLook PROVE RunInv'
<1>1. /\ Y_pruner' \in 1 .. Y_MaxRun
      /\ UNCHANGED <<Y_shape, Y_disk, Y_manifest, Y_journal, Y_copies, Y_runs,
                     Y_restores, Y_proc, Y_discarded, Y_result>>
  BY DEF Y!PruneLook
<1>2. Y_pruner' \in 0 .. Y_MaxRun
  BY <1>1, RunConstants
<1>3. RunTypes'
  BY <1>1, <1>2, NobodyTypes DEF RunInv, RunTypes, Y!Decoy, Y!Content, Procs
<1>4. Unborn' /\ EntriesBacked' /\ Resulted'
  BY <1>1, NobodyTypes DEF RunInv, Unborn, EntriesBacked, Resulted, Backed, AllAsMade,
     Y!AsMade, Y!NoJournal, Y!Decoy
<1>5. Restorable'
  BY <1>1 DEF RunInv, Restorable, Backed, Y!AsMade, Y!Decoy,
     Y!LeadsTo, Y!AnyJournal, Y!NewestJournal, Y!Kept, Y!NoJournal
<1>6. Running'
  BY <1>1 DEF RunInv, Running, Fresh, Rewriting, AllAsMade, Y!AsMade, Y!NoJournal,
     Y!Decoy, Y!Kept, Y!Whole
<1>7. Putting => Putting'
  BY <1>1 DEF Putting, AllAsMade, Y!AsMade, Backed, Y!Decoy,
     Y!LeadsTo, Y!AnyJournal, Y!NewestJournal, Y!Kept, Y!NoJournal
<1>8. Restoring'
  BY <1>1, <1>7 DEF RunInv, Restoring, AllAsMade, Y!AsMade, Y!Decoy
<1> QED BY <1>3, <1>4, <1>5, <1>6, <1>8 DEF RunInv

LEMMA RunIsPruned == ASSUME RunInv, Y!PruneDiscard PROVE RunInv'
<1>1. /\ Y_pruner # 0 /\ Y_pruner' = 0 /\ Y_discarded' = TRUE
      /\ Y_journal' = [Y_journal EXCEPT ![Y_pruner] = Y!NoJournal]
      /\ Y_copies' = [Y_copies EXCEPT ![Y_pruner] = {}]
      /\ Y_result' = IF Y_proc.who = "restore" THEN "late" ELSE Y_result
      /\ UNCHANGED <<Y_shape, Y_disk, Y_manifest, Y_runs, Y_restores, Y_proc>>
  BY DEF Y!PruneDiscard
<1>2. /\ Y_journal' \in [1 .. Y_MaxRun -> [Y!Decoy -> States]]
      /\ \A r \in 1 .. Y_MaxRun : Y_journal'[r] \in {Y_journal[r], Y!NoJournal}
      /\ Y_copies' \in [1 .. Y_MaxRun -> SUBSET Y!Decoy]
  <2>1. PICK none : none = Y!NoJournal
    OBVIOUS
  <2>2. none \in [Y!Decoy -> States]
    BY <2>1 DEF Y!NoJournal, States
  <2> QED BY <1>1, <2>1, <2>2 DEF RunInv, RunTypes
<1>3. Y_pruner' \in 0 .. Y_MaxRun
  BY <1>1, RunConstants
<1>4. RunTypes'
  BY <1>1, <1>2, <1>3, NobodyTypes DEF RunInv, RunTypes, Y!Decoy, Y!Content, Procs
<1>5. Unborn'
  BY <1>1, <1>2, NobodyTypes DEF RunInv, Unborn, Y!NoJournal, Y!Decoy
<1>6. Restorable' /\ EntriesBacked'
  BY <1>1 DEF Restorable, EntriesBacked
<1>7. Running'
  <2>1. Y_proc.who = "run" => Y_runs \in 1 .. Y_MaxRun
    BY RunConstants DEF RunInv, RunTypes, Running
  <2>2. Y_proc.who = "run" /\ Fresh => Fresh'
    BY <1>1, <1>2, <2>1 DEF Fresh, AllAsMade, Y!AsMade, Y!NoJournal, Y!Decoy
  <2> QED BY <1>1, <2>2 DEF RunInv, Running, Y!Whole
<1>8. Restoring'
  BY <1>1 DEF RunInv, Restoring
<1>9. Resulted'
  BY <1>1, NobodyTypes DEF RunInv, Resulted, AllAsMade, Y!AsMade, Y!Decoy
<1> QED BY <1>4, <1>5, <1>6, <1>7, <1>8, <1>9 DEF RunInv

-------------------------------------------------------------------------------
(* The steps of a restore.                                                 *)

\* Where a restore that has not gone wrong finds each decoy.
LEMMA WhereItIs ==
  ASSUME RunInv, ~Y_discarded, Y_runs # 0
  PROVE  \A d \in Y!Decoy : Y!AsMade(d) \/ Backed(Y!LeadsTo, d)
  BY RunConstants DEF RunInv, RunTypes, Restorable

LEMMA RestoreStarts == ASSUME RunInv, Y!StartRestore PROVE RunInv'
<1>1. /\ Y_proc.who = "nobody" /\ Y_manifest.is # "none" /\ Y_proc = Y!Nobody
      /\ UNCHANGED <<Y_shape, Y_disk, Y_manifest, Y_journal, Y_copies, Y_runs,
                     Y_pruner, Y_discarded>>
  BY DEF Y!StartRestore, RunInv, RunTypes
<1>2. Y_runs # 0
  BY <1>1 DEF RunInv, Unborn
<1>3. \/ /\ Y_proc'.who = "restore" /\ Y_proc'.step = "put" /\ Y_proc'.d = 1
         /\ Y_proc' \in Procs
         /\ Y_result' = IF Y_discarded THEN "late" ELSE "none"
         /\ \/ /\ Y_manifest.is = "whole" /\ Y_proc'.entries = Y_manifest.entries
               /\ Y_proc'.from = IF Y_manifest.saved # 0 /\ Y!Kept(Y_manifest.saved)
                                 THEN Y_manifest.saved ELSE 0
            \/ /\ Y_manifest.is # "whole" /\ Y!AnyJournal
               /\ Y_proc'.entries = {} /\ Y_proc'.from = Y!NewestJournal
      \/ /\ Y_manifest.is # "whole" /\ ~Y!AnyJournal /\ Y_proc' = Y_proc
         /\ Y_result' = IF Y_discarded THEN "late" ELSE "cannot"
  <2>1. ASSUME NEW entries \in SUBSET Y!Decoy, NEW from \in 0 .. Y_MaxRun,
               NEW recovered \in BOOLEAN, Y!Restores(entries, from, recovered)
        PROVE  /\ Y_proc'.who = "restore" /\ Y_proc'.step = "put" /\ Y_proc'.d = 1
               /\ Y_proc'.entries = entries /\ Y_proc'.from = from
               /\ Y_proc' \in Procs
    <3>1. Y_proc' = [who |-> "restore", step |-> "put", d |-> 1, entries |-> entries,
                     from |-> from, handled |-> {}, recovered |-> recovered]
      BY <2>1 DEF Y!Restores, Y!Nobody
    <3>2. 1 \in 0 .. Y_Files + 1
      BY RunConstants
    <3> QED BY <3>1, <3>2 DEF Procs, Steps
  <2>2. CASE Y_manifest.is = "whole"
    <3>1. PICK from : from = IF Y_manifest.saved # 0 /\ Y!Kept(Y_manifest.saved)
                             THEN Y_manifest.saved ELSE 0
      OBVIOUS
    <3>2. from \in 0 .. Y_MaxRun /\ Y_manifest.entries \in SUBSET Y!Decoy
      BY <3>1, RunConstants DEF RunInv, RunTypes
    <3>3. /\ Y!Restores(Y_manifest.entries, from, FALSE)
          /\ Y_result' = IF Y_discarded THEN "late" ELSE "none"
      BY <2>2, <3>1 DEF Y!StartRestore
    <3> QED BY <2>1, <2>2, <3>1, <3>2, <3>3
  <2>3. CASE Y_manifest.is # "whole" /\ Y!AnyJournal
    <3>1. PICK from : from = Y!NewestJournal
      OBVIOUS
    <3>2. from \in 0 .. Y_MaxRun
      BY <2>3, <3>1, NewestIsRun, RunConstants DEF RunInv
    <3>3. /\ Y!Restores({}, from, TRUE)
          /\ Y_result' = IF Y_discarded THEN "late" ELSE "none"
      BY <2>3, <3>1 DEF Y!StartRestore
    <3> QED BY <2>1, <2>3, <3>1, <3>2, <3>3
  <2>4. CASE Y_manifest.is # "whole" /\ ~Y!AnyJournal
    BY <2>4 DEF Y!StartRestore
  <2> QED BY <2>2, <2>3, <2>4
<1>4. Y_proc' \in Procs /\ (Y_proc'.who = "nobody" => Y_proc' = Y!Nobody')
  BY <1>1, <1>3, NobodyTypes
<1>5. RunTypes'
  BY <1>1, <1>3, <1>4 DEF RunInv, RunTypes, Y!Decoy, Y!Content, Procs
<1>6. Unborn' /\ EntriesBacked' /\ Running'
  BY <1>1, <1>2, <1>3, NobodyTypes DEF RunInv, Unborn, EntriesBacked, Running, Backed,
     Y!NoJournal, Y!Decoy
<1>7. Y!LeadsTo' = Y!LeadsTo
  BY <1>1 DEF Y!LeadsTo, Y!AnyJournal, Y!NewestJournal, Y!Kept, Y!NoJournal, Y!Decoy
<1>8. Restorable'
  BY <1>1, <1>7 DEF RunInv, Restorable, Backed, Y!AsMade, Y!Decoy
<1>9. Restoring'
  <2>1. ASSUME Y_proc'.who = "restore", ~Y_discarded PROVE Putting'
    <3>1. \A d \in Y!Decoy : Y!AsMade(d) \/ Backed(Y!LeadsTo, d)
      BY <1>2, <2>1, WhereItIs
    <3>2. PICK leads : leads = Y!LeadsTo
      OBVIOUS
    <3>3. CASE Y_manifest.is = "whole"
      <4>1. leads = Y_manifest.saved
        BY <3>2, <3>3 DEF Y!LeadsTo
      <4>2. /\ Y_proc'.from = IF leads # 0 /\ Y!Kept(leads) THEN leads ELSE 0
            /\ Y_proc'.entries = Y_manifest.entries
        BY <1>1, <1>3, <2>1, <3>3, <4>1, NobodyTypes
      <4>3. \A d \in Y!Decoy : Backed(leads, d) => leads # 0 /\ Y!Kept(leads)
        BY RunConstants DEF Backed, Begun, Y!Kept, Y!NoJournal
      <4>4. Y_proc'.from = 0 => AllAsMade
        BY <3>1, <3>2, <4>2, <4>3 DEF AllAsMade
      <4>5. Y_manifest.entries \subseteq Y!Decoy
        BY DEF RunInv, RunTypes
      <4>6. \A e \in Y_proc'.entries : Backed(leads, e) /\ Y_proc'.from = leads
        BY <2>1, <3>3, <4>1, <4>2, <4>3, <4>5 DEF RunInv, EntriesBacked
      <4>7. Y_proc'.from # 0 => Y_proc'.from = leads
        BY <4>2
      <4>8. \A e \in Y!Decoy : ~ (e < 1)
        BY RunConstants
      <4> QED BY <1>1, <1>3, <1>7, <2>1, <3>2, <4>4, <4>6, <4>7, <4>8, NobodyTypes
              DEF Putting, Backed, AllAsMade, Y!AsMade, Y!Decoy
    <3>4. CASE Y_manifest.is # "whole"
      <4>1. Y!AnyJournal /\ Y_proc'.entries = {} /\ Y_proc'.from = Y!NewestJournal
        BY <1>1, <1>3, <2>1, <3>4, NobodyTypes
      <4>2. Y_proc'.from = Y!LeadsTo /\ Y_proc'.from # 0
        BY <3>4, <4>1, NewestIsRun, RunConstants DEF Y!LeadsTo, RunInv
      <4>3. \A e \in Y!Decoy : ~ (e < 1)
        BY RunConstants
      <4> QED BY <1>1, <1>3, <1>7, <2>1, <4>1, <4>2, <4>3, NobodyTypes
              DEF Putting, Backed, AllAsMade, Y!AsMade, Y!Decoy
    <3> QED BY <3>3, <3>4
  <2> QED BY <1>1, <1>3, <2>1, NobodyTypes DEF Restoring
<1>10. Resulted'
  <2>1. CASE Y_result' = "cannot"
    <3>1. ~Y_discarded /\ Y!LeadsTo = 0 /\ Y_proc' = Y_proc
      BY <1>3, <2>1 DEF Y!LeadsTo
    <3>2. AllAsMade
      BY <1>2, <3>1, WhereItIs DEF AllAsMade, Backed
    <3> QED BY <1>1, <3>1, <3>2, NobodyTypes
            DEF Resulted, AllAsMade, Y!AsMade, Y!Decoy
  <2>2. CASE Y_result' # "cannot"
    BY <1>3, <2>2 DEF Resulted
  <2> QED BY <2>1, <2>2
<1> QED BY <1>5, <1>6, <1>8, <1>9, <1>10 DEF RunInv

\* A step of a restore that puts back, or goes on.
LEMMA RestoreGoesOn ==
  ASSUME RunInv, Y_proc.who = "restore",
         UNCHANGED <<Y_shape, Y_manifest, Y_journal, Y_copies, Y_runs, Y_pruner,
                     Y_discarded, Y_result>>,
         Y_disk' \in [Y!Decoy -> [here : Y!Content, out : Y!Content]],
         Y_proc' \in Procs, Y_proc'.who = "restore",
         ~Y_discarded => \A d \in Y!Decoy : Y!AsMade(d)' \/ Backed(Y!LeadsTo, d),
         Y_proc'.d # 0,
         Y_proc'.step \in {"put", "put2", "put3"} /\ ~Y_discarded => Putting',
         Y_proc'.step \in {"put", "put2", "put3", "discard"},
         Y_proc'.step \in {"put2", "put3"} => Y_proc'.d <= Y_Files,
         Y_proc'.step = "discard" /\ (~Y_discarded \/ Y_result = "none") => AllAsMade',
         Y_result = "none" => ~Y_discarded
  PROVE  RunInv'
<1>1. Y_runs # 0 /\ Y_result \in {"none", "late"}
  BY NobodyTypes DEF RunInv, Unborn, Restoring
<1>2. RunTypes'
  BY DEF RunInv, RunTypes, Y!Decoy, Y!Content, Procs
<1>3. Unborn'
  BY <1>1, StillUnborn
<1>4. Y!LeadsTo' = Y!LeadsTo
  BY DEF Y!LeadsTo, Y!AnyJournal, Y!NewestJournal, Y!Kept, Y!NoJournal, Y!Decoy
<1>5. Restorable'
  BY <1>4 DEF Restorable, Backed, Y!Decoy
<1>6. EntriesBacked' /\ Running'
  BY DEF RunInv, EntriesBacked, Running, Backed
<1>7. Restoring' /\ Resulted'
  BY <1>1 DEF Restoring, Resulted
<1> QED BY <1>2, <1>3, <1>5, <1>6, <1>7 DEF RunInv

\* What a restore at a decoy knows.
LEMMA RestoreKnows ==
  ASSUME RunInv, Y_proc.who = "restore"
  PROVE  /\ Y_runs # 0 /\ Y_result \in {"none", "late"}
         /\ Y_proc.d # 0 /\ Y_proc.d \in 1 .. Y_Files + 1 /\ Y_proc \in Procs
         /\ (Y_proc.step \in {"put2", "put3"} \/ Y_proc.d <= Y_Files)
              => Y_proc.d \in Y!Decoy
         /\ Y_proc.step \in {"put", "put2", "put3"} =>
              /\ (Y_result = "none" => ~Y_discarded)
              /\ (~Y_discarded => Putting)
<1>1. Y_proc.d # 0 /\ Y_proc \in Procs
  BY DEF RunInv, RunTypes, Restoring
<1>2. Y_proc.d \in 1 .. Y_Files + 1
  BY <1>1, RunConstants DEF Procs
<1>3. Y_runs # 0
  BY NobodyTypes DEF RunInv, Unborn
<1> QED BY <1>1, <1>2, <1>3, RunConstants DEF RunInv, Restoring

\* What a restore leaves as it finds it while it puts a decoy back.
LEMMA SameLead ==
  ASSUME UNCHANGED <<Y_manifest, Y_journal, Y_copies, Y_runs>>
  PROVE  /\ Y!LeadsTo' = Y!LeadsTo
         /\ \A r, d : Backed(r, d)' = Backed(r, d)
  BY DEF Y!LeadsTo, Y!AnyJournal, Y!NewestJournal, Y!Kept, Y!NoJournal, Y!Decoy,
     Backed

LEMMA RestoreSkips == ASSUME RunInv, Y!Skip PROVE RunInv'
<1>1. /\ Y_proc.who = "restore" /\ Y_proc.step = "put" /\ Y_proc.d <= Y_Files
      /\ ~ Y!Started(Y_proc.d)
      /\ Y_proc' = [Y_proc EXCEPT !.step = "put", !.d = @ + 1]
      /\ UNCHANGED <<Y_shape, Y_disk, Y_manifest, Y_journal, Y_copies, Y_runs,
                     Y_pruner, Y_discarded, Y_result>>
  BY DEF Y!Skip, Y!At, Y!GoesOn
<1>2. Y_proc' \in Procs
  BY <1>1, ProcTypes, RestoreKnows DEF Steps
<1>3. /\ Y_proc'.who = "restore" /\ Y_proc'.step = "put" /\ Y_proc'.d = Y_proc.d + 1
      /\ Y_proc'.entries = Y_proc.entries /\ Y_proc'.from = Y_proc.from
      /\ Y_proc'.handled = Y_proc.handled
  BY <1>1, <1>2, RestoreKnows DEF Procs
<1>4. ~ Backed(Y_proc.from, Y_proc.d)
  BY <1>1, RunConstants DEF Backed, Begun, Y!Started
<1>5. ~Y_discarded => \A d \in Y!Decoy : Y!AsMade(d) \/ Backed(Y!LeadsTo, d)
  BY <1>1, WhereItIs, RestoreKnows
<1>6. ASSUME ~Y_discarded PROVE Putting'
  <2>1. Putting /\ Y_proc.d \in Y!Decoy
    BY <1>1, <1>6, RestoreKnows
  <2>2. Y!AsMade(Y_proc.d)
    <3>1. CASE Y_proc.from = 0
      BY <2>1, <3>1 DEF Putting, AllAsMade
    <3>2. CASE Y_proc.from # 0
      BY <1>4, <1>5, <1>6, <2>1, <3>2 DEF Putting
    <3> QED BY <3>1, <3>2
  <2>3. \A e \in Y!Decoy : e < Y_proc.d + 1 => e < Y_proc.d \/ e = Y_proc.d
    BY <2>1, RunConstants
  <2>4. Y_proc.d \notin Y_proc.entries
    BY <1>4, <2>1 DEF Putting
  <2>5. \A e \in Y!Decoy : Y!AsMade(e)' = Y!AsMade(e)
    BY <1>1 DEF Y!AsMade
  <2> QED BY <1>1, <1>3, <2>1, <2>2, <2>3, <2>4, <2>5, SameLead
          DEF Putting, AllAsMade, Y!Decoy
<1>7. Y_disk' \in [Y!Decoy -> [here : Y!Content, out : Y!Content]]
  BY <1>1 DEF RunInv, RunTypes
<1>8. ~Y_discarded => \A d \in Y!Decoy : Y!AsMade(d)' \/ Backed(Y!LeadsTo, d)
  BY <1>1, <1>5 DEF Y!AsMade
<1>9. Y_proc'.d # 0
  BY <1>3, RestoreKnows, <1>1, RunConstants
<1> QED BY <1>1, <1>2, <1>3, <1>6, <1>7, <1>8, <1>9, RestoreKnows, RestoreGoesOn

LEMMA RestoreTears == ASSUME RunInv, Y!Put PROVE RunInv'
<1>1. /\ Y_proc.who = "restore" /\ Y_proc.step = "put" /\ Y_proc.d <= Y_Files
      /\ Y!Started(Y_proc.d)
      /\ Y!Now(Y_proc.d, "torn", Y_disk[Y_proc.d].out)
      /\ Y_proc' = [Y_proc EXCEPT !.step = "put2"]
      /\ UNCHANGED <<Y_shape, Y_manifest, Y_journal, Y_copies, Y_runs,
                     Y_pruner, Y_discarded, Y_result>>
  BY DEF Y!Put, Y!At, Y!Goes
<1>2. Y_proc' \in Procs
  BY <1>1, ProcTypes, RestoreKnows DEF Steps
<1>3. /\ Y_proc'.who = "restore" /\ Y_proc'.step = "put2" /\ Y_proc'.d = Y_proc.d
      /\ Y_proc'.entries = Y_proc.entries /\ Y_proc'.from = Y_proc.from
      /\ Y_proc'.handled = Y_proc.handled
  BY <1>1, <1>2, RestoreKnows DEF Procs
<1>4. PICK d : d = Y_proc.d
  OBVIOUS
<1>5. d \in Y!Decoy
  BY <1>1, <1>4, RestoreKnows
<1>6. /\ Y_disk' \in [Y!Decoy -> [here : Y!Content, out : Y!Content]]
      /\ \A e \in Y!Decoy : e # d => Y_disk'[e] = Y_disk[e]
  <2>1. PICK out : out = Y_disk[d].out
    OBVIOUS
  <2>2. out \in Y!Content /\ "torn" \in Y!Content
    BY <1>5, <2>1 DEF RunInv, RunTypes, Y!Content
  <2> QED BY <1>1, <1>4, <1>5, <2>1, <2>2, DiskTypes DEF RunInv
<1>7. Y_proc.from # 0 /\ Backed(Y_proc.from, d)
  BY <1>1, <1>4, RestoreKnows, RunConstants DEF Backed, Begun, Y!Started, Procs
<1>8. ASSUME ~Y_discarded PROVE Putting /\ Backed(Y!LeadsTo, d) /\ Putting'
  <2>1. Putting
    BY <1>1, <1>8, RestoreKnows
  <2>2. Y_proc.from = Y!LeadsTo
    BY <1>7, <2>1 DEF Putting
  <2>3. \A e \in Y!Decoy : e < d => Y!AsMade(e)' = Y!AsMade(e)
    BY <1>5, <1>6, RunConstants DEF Y!AsMade
  <2>4. Y_proc'.step # "put3" /\ Y_proc'.from # 0
    BY <1>3, <1>7
  <2>5. \A e \in Y_proc.entries : Backed(Y_proc.from, e)'
    BY <1>1, <2>1, SameLead DEF Putting
  <2>6. Y_proc'.from = Y!LeadsTo'
    BY <1>1, <1>3, <2>2, SameLead
  <2>7. Backed(Y_proc.from, d)'
    BY <1>1, <1>7, SameLead
  <2> QED BY <1>3, <1>4, <1>7, <2>1, <2>2, <2>3, <2>4, <2>5, <2>6, <2>7
          DEF Putting, Y!Decoy, Backed
<1>9. ASSUME ~Y_discarded, NEW e \in Y!Decoy
      PROVE  Y!AsMade(e)' \/ Backed(Y!LeadsTo, e)
  BY <1>1, <1>6, <1>8, <1>9, WhereItIs, RestoreKnows DEF Y!AsMade
<1> QED BY <1>1, <1>2, <1>3, <1>4, <1>6, <1>8, <1>9, RestoreKnows, RestoreGoesOn

LEMMA RestoreFills == ASSUME RunInv, Y!PutWhole PROVE RunInv'
<1>1. /\ Y_proc.who = "restore" /\ Y_proc.step = "put2"
      /\ Y!Now(Y_proc.d, "plain", Y_disk[Y_proc.d].out)
      /\ Y_proc' = [Y_proc EXCEPT !.step = "put3"]
      /\ UNCHANGED <<Y_shape, Y_manifest, Y_journal, Y_copies, Y_runs,
                     Y_pruner, Y_discarded, Y_result>>
  BY DEF Y!PutWhole, Y!At, Y!Goes
<1>2. Y_proc' \in Procs
  BY <1>1, ProcTypes, RestoreKnows DEF Steps
<1>3. /\ Y_proc'.who = "restore" /\ Y_proc'.step = "put3" /\ Y_proc'.d = Y_proc.d
      /\ Y_proc'.entries = Y_proc.entries /\ Y_proc'.from = Y_proc.from
      /\ Y_proc'.handled = Y_proc.handled
  BY <1>1, <1>2, RestoreKnows DEF Procs
<1>4. PICK d : d = Y_proc.d
  OBVIOUS
<1>5. d \in Y!Decoy
  BY <1>1, <1>4, RestoreKnows
<1>6. /\ Y_disk' \in [Y!Decoy -> [here : Y!Content, out : Y!Content]]
      /\ Y_disk'[d].here = "plain"
      /\ \A e \in Y!Decoy : e # d => Y_disk'[e] = Y_disk[e]
  <2>1. PICK out : out = Y_disk[d].out
    OBVIOUS
  <2>2. out \in Y!Content /\ "plain" \in Y!Content
    BY <1>5, <2>1 DEF RunInv, RunTypes, Y!Content
  <2>3. Y!Now(d, "plain", out)
    BY <1>1, <1>4, <2>1
  <2>4. Y_disk'[d] = [here |-> "plain", out |-> out]
    BY <1>5, <2>2, <2>3, DiskTypes DEF RunInv
  <2> QED BY <1>5, <2>2, <2>3, <2>4, DiskTypes DEF RunInv
<1>7. ASSUME ~Y_discarded PROVE Putting /\ Backed(Y!LeadsTo, d) /\ Putting'
  <2>1. Putting
    BY <1>1, <1>7, RestoreKnows
  <2>2. Backed(Y_proc.from, d) /\ Y_proc.from # 0
    BY <1>1, <1>4, <2>1, RunConstants DEF Putting, Backed
  <2>3. Y_proc.from = Y!LeadsTo
    BY <2>1, <2>2 DEF Putting
  <2>4. \A e \in Y!Decoy : e < d => Y!AsMade(e)' = Y!AsMade(e)
    BY <1>5, <1>6, RunConstants DEF Y!AsMade
  <2>5. \A e \in Y_proc.entries : Backed(Y_proc.from, e)'
    BY <1>1, <2>1, SameLead DEF Putting
  <2>6. Y_proc'.from = Y!LeadsTo'
    BY <1>1, <1>3, <2>3, SameLead
  <2>7. Backed(Y_proc.from, d)'
    BY <1>1, <2>2, SameLead
  <2> QED BY <1>3, <1>4, <1>6, <2>1, <2>2, <2>3, <2>4, <2>5, <2>6, <2>7
          DEF Putting, Y!Decoy, Backed
<1>8. ASSUME ~Y_discarded, NEW e \in Y!Decoy
      PROVE  Y!AsMade(e)' \/ Backed(Y!LeadsTo, e)
  BY <1>1, <1>6, <1>7, <1>8, WhereItIs, RestoreKnows DEF Y!AsMade
<1>9. Y_proc.d <= Y_Files
  BY <1>4, <1>5, RunConstants
<1> QED BY <1>1, <1>2, <1>3, <1>4, <1>6, <1>7, <1>8, <1>9, RestoreKnows, RestoreGoesOn

LEMMA RestoreCleans == ASSUME RunInv, Y!RemoveOutputs PROVE RunInv'
<1>1. /\ Y_proc.who = "restore" /\ Y_proc.step = "put3"
      /\ Y!Now(Y_proc.d, Y_disk[Y_proc.d].here, "none")
      /\ Y_proc' = [Y_proc EXCEPT !.step = "put", !.d = @ + 1,
                                  !.handled = @ \cup {Y_proc.d}]
      /\ UNCHANGED <<Y_shape, Y_manifest, Y_journal, Y_copies, Y_runs,
                     Y_pruner, Y_discarded, Y_result>>
  BY DEF Y!RemoveOutputs, Y!At
<1>2. PICK d : d = Y_proc.d
  OBVIOUS
<1>3. d \in Y!Decoy /\ Y_proc \in Procs
  BY <1>1, <1>2, RestoreKnows
<1>4. PICK handled : handled = Y_proc.handled \cup {d}
  OBVIOUS
<1>5. /\ Y_proc' \in Procs
      /\ Y_proc'.who = "restore" /\ Y_proc'.step = "put" /\ Y_proc'.d = d + 1
      /\ Y_proc'.entries = Y_proc.entries /\ Y_proc'.from = Y_proc.from
      /\ Y_proc'.handled = handled
  <2>1. handled \in SUBSET Y!Decoy /\ d + 1 \in 0 .. Y_Files + 1
    BY <1>3, <1>4, RunConstants DEF Procs
  <2>2. Y_proc' = [Y_proc EXCEPT !.step = "put", !.d = d + 1, !.handled = handled]
    BY <1>1, <1>2, <1>4
  <2> QED BY <1>1, <1>3, <2>1, <2>2 DEF Procs, Steps
<1>6. /\ Y_disk' \in [Y!Decoy -> [here : Y!Content, out : Y!Content]]
      /\ Y_disk'[d] = [here |-> Y_disk[d].here, out |-> "none"]
      /\ \A e \in Y!Decoy : e # d => Y_disk'[e] = Y_disk[e]
  <2>1. PICK here : here = Y_disk[d].here
    OBVIOUS
  <2>2. here \in Y!Content /\ "none" \in Y!Content
    BY <1>3, <2>1 DEF RunInv, RunTypes, Y!Content
  <2> QED BY <1>1, <1>2, <1>3, <2>1, <2>2, DiskTypes DEF RunInv
<1>7. ASSUME ~Y_discarded PROVE Putting /\ Y!AsMade(d)' /\ Putting'
  <2>1. Putting
    BY <1>1, <1>7, RestoreKnows
  <2>2. Y!AsMade(d)'
    BY <1>1, <1>2, <1>6, <2>1 DEF Putting, Y!AsMade
  <2>3. \A e \in Y!Decoy : e < d + 1 => e < d \/ e = d
    BY <1>3, RunConstants
  <2>4. \A e \in Y!Decoy : Y!AsMade(e) => Y!AsMade(e)'
    BY <1>6, <2>2 DEF Y!AsMade
  <2>5. \A e \in Y_proc.entries : Backed(Y_proc.from, e)'
    BY <1>1, <2>1, SameLead DEF Putting
  <2>6. Y_proc.from # 0 => Y_proc'.from = Y!LeadsTo'
    BY <1>1, <1>5, <2>1, SameLead DEF Putting
  <2>7. \A e \in Y!Decoy : e < d + 1 =>
          Y!AsMade(e)' /\ (e \in Y_proc.entries => e \in handled)
    BY <1>2, <1>4, <2>1, <2>2, <2>3, <2>4 DEF Putting
  <2> QED BY <1>5, <2>1, <2>2, <2>4, <2>5, <2>6, <2>7
          DEF Putting, Y!Decoy, Backed, AllAsMade
<1>8. ASSUME ~Y_discarded, NEW e \in Y!Decoy
      PROVE  Y!AsMade(e)' \/ Backed(Y!LeadsTo, e)
  BY <1>1, <1>6, <1>7, <1>8, WhereItIs, RestoreKnows DEF Y!AsMade
<1>9. Y_proc'.d # 0
  BY <1>3, <1>5, RunConstants
<1> QED BY <1>1, <1>5, <1>6, <1>7, <1>8, <1>9, RestoreKnows, RestoreGoesOn

LEMMA RestoreDecrypts == ASSUME RunInv, Y!Decrypt PROVE RunInv'
<1> DEFINE left == {d \in Y_proc.entries \ Y_proc.handled : Y!Source(d) # "none"}
<1>1. /\ Y_proc.who = "restore" /\ Y_proc.step = "put" /\ Y_proc.d > Y_Files
      /\ UNCHANGED <<Y_shape, Y_manifest, Y_journal, Y_copies, Y_runs,
                     Y_pruner, Y_discarded, Y_result>>
  BY DEF Y!Decrypt, Y!At
<1>2. Y_proc \in Procs /\ Y_proc.entries \subseteq Y!Decoy
  BY <1>1, RestoreKnows DEF Procs
<1>3. ASSUME ~Y_discarded PROVE AllAsMade /\ left = {}
  <2>1. Putting
    BY <1>1, <1>3, RestoreKnows
  <2>2. \A e \in Y!Decoy : e < Y_proc.d
    BY <1>1, <1>2, RunConstants DEF Procs
  <2> QED BY <1>2, <2>1, <2>2 DEF Putting, AllAsMade
<1>4. Y_result = "none" => ~Y_discarded
  BY <1>1, RestoreKnows
<1>5. CASE left = {}
  <2>1. Y_proc' = [Y_proc EXCEPT !.step = "discard"] /\ Y_disk' = Y_disk
    BY <1>5 DEF Y!Decrypt, Y!Goes
  <2>2. Y_proc' \in Procs
    BY <1>2, <2>1, ProcTypes DEF Steps
  <2>3. Y_proc'.who = "restore" /\ Y_proc'.step = "discard" /\ Y_proc'.d # 0
    BY <1>1, <1>2, <2>1, RestoreKnows DEF Procs
  <2>4. AllAsMade => AllAsMade'
    BY <2>1 DEF AllAsMade, Y!AsMade, Y!Decoy
  <2>5. Y_disk' \in [Y!Decoy -> [here : Y!Content, out : Y!Content]]
    BY <2>1 DEF RunInv, RunTypes
  <2>6. ASSUME ~Y_discarded, NEW e \in Y!Decoy
        PROVE  Y!AsMade(e)' \/ Backed(Y!LeadsTo, e)
    BY <1>3, <2>1, <2>6 DEF AllAsMade, Y!AsMade
  <2> HIDE DEF left
  <2> QED BY <1>1, <1>3, <1>4, <2>2, <2>3, <2>4, <2>5, <2>6, RestoreGoesOn
<1>6. CASE left # {}
  <2>1. PICK d \in left :
          /\ Y!Now(d, Y!Undone(Y!Source(d)), "none")
          /\ Y_proc' = [Y_proc EXCEPT !.handled = @ \cup {d}]
    BY <1>6 DEF Y!Decrypt
  <2>2. d \in Y!Decoy
    BY <1>2
  <2>3. PICK handled : handled = Y_proc.handled \cup {d}
    OBVIOUS
  <2>4. /\ Y_proc' \in Procs
        /\ Y_proc'.who = "restore" /\ Y_proc'.step = "put" /\ Y_proc'.d # 0
    <3>1. handled \in SUBSET Y!Decoy
      BY <1>2, <2>2, <2>3 DEF Procs
    <3>2. Y_proc' = [Y_proc EXCEPT !.handled = handled]
      BY <2>1, <2>3
    <3> QED BY <1>1, <1>2, <3>1, <3>2, RestoreKnows DEF Procs
  <2>5. Y_disk' \in [Y!Decoy -> [here : Y!Content, out : Y!Content]]
    <3>1. PICK here : here = Y!Undone(Y!Source(d))
      OBVIOUS
    <3>2. here \in Y!Content /\ "none" \in Y!Content
      BY <3>1 DEF Y!Undone, Y!Content
    <3> QED BY <2>1, <2>2, <3>1, <3>2, DiskTypes DEF RunInv
  <2>6. Y_discarded
    BY <1>3, <1>6
  <2> HIDE DEF left
  <2> QED BY <1>1, <1>4, <2>4, <2>5, <2>6, RestoreGoesOn
<1> QED BY <1>5, <1>6

\* A step of a restore that is done with the decoys.
LEMMA RestoreEnds ==
  ASSUME RunInv, Y_proc.who = "restore", Y_proc.step \in {"discard", "rewrite", "end"},
         UNCHANGED <<Y_shape, Y_disk, Y_runs, Y_pruner>>,
         Y_discarded' = TRUE,
         Y_manifest' \in [is : {"none", "torn", "whole"}, entries : SUBSET Y!Decoy,
                          saved : 0 .. Y_MaxRun],
         Y_manifest'.saved <= Y_runs,
         Y_journal' \in [1 .. Y_MaxRun -> [Y!Decoy -> States]],
         \A r \in 1 .. Y_MaxRun : Y_journal'[r] \in {Y_journal[r], Y!NoJournal},
         Y_copies' \in [1 .. Y_MaxRun -> SUBSET Y!Decoy],
         \/ /\ Y_proc' \in Procs /\ Y_proc'.who = "restore" /\ Y_proc'.d # 0
            /\ Y_proc'.step \in {"discard", "rewrite", "end"} /\ Y_result' = Y_result
         \/ /\ Y_proc' = Y!Nobody
            /\ Y_result' = IF Y_result = "none" THEN "restored" ELSE Y_result
  PROVE  RunInv'
<1>1. Y_runs # 0 /\ Y_result \in {"none", "late"}
  BY RestoreKnows
<1>2. Y_proc' \in Procs /\ (Y_proc'.who = "nobody" => Y_proc' = Y!Nobody')
  BY NobodyTypes
<1>3. RunTypes'
  BY <1>1, <1>2 DEF RunInv, RunTypes, Y!Decoy, Y!Content, Procs
<1>4. Unborn'
  BY <1>1 DEF RunInv, Unborn, Y!NoJournal, Y!Decoy
<1>5. Restorable' /\ EntriesBacked'
  BY DEF Restorable, EntriesBacked
<1>6. Running'
  BY NobodyTypes DEF Running
<1>7. Y_result = "none" => AllAsMade /\ AllAsMade'
  BY DEF RunInv, Restoring, AllAsMade, Y!AsMade, Y!Decoy
<1>8. Restoring'
  BY <1>1, <1>7, NobodyTypes DEF Restoring
<1>9. Resulted'
  BY <1>1, <1>7, NobodyTypes DEF Resulted
<1> QED BY <1>3, <1>4, <1>5, <1>6, <1>8, <1>9 DEF RunInv

LEMMA RestoreDiscards ==
  ASSUME RunInv, Y!DiscardCopy \/ Y!DiscardJournal PROVE RunInv'
<1>1. /\ Y_proc.who = "restore" /\ Y_proc.step = "discard" /\ Y_discarded' = TRUE
      /\ UNCHANGED <<Y_shape, Y_disk, Y_manifest, Y_runs, Y_pruner, Y_result>>
  BY DEF Y!DiscardCopy, Y!DiscardJournal, Y!At
<1>2. Y_proc \in Procs /\ Y_proc.d # 0
  BY <1>1, RestoreKnows
<1>3. CASE Y!DiscardCopy
  <2>1. PICK d \in Y!Decoy :
          Y_copies' = [Y_copies EXCEPT ![Y_proc.from] = @ \ {d}]
    <3>1. Y_proc.from \in 1 .. Y_MaxRun
      BY <1>2, <1>3, RunConstants DEF Y!DiscardCopy, Procs
    <3>2. Y_copies[Y_proc.from] \subseteq Y!Decoy
      BY <3>1 DEF RunInv, RunTypes
    <3> QED BY <1>3, <3>2 DEF Y!DiscardCopy
  <2>2. Y_copies' \in [1 .. Y_MaxRun -> SUBSET Y!Decoy]
    BY <2>1 DEF RunInv, RunTypes
  <2>3. Y_journal' = Y_journal /\ Y_proc' = Y_proc
    BY <1>3 DEF Y!DiscardCopy
  <2> QED BY <1>1, <1>2, <2>2, <2>3, RestoreEnds DEF RunInv, RunTypes
<1>4. CASE Y!DiscardJournal
  <2>1. PICK step \in {"rewrite", "end"} : Y_proc' = [Y_proc EXCEPT !.step = step]
    BY <1>4 DEF Y!DiscardJournal, Y!Goes
  <2>2. Y_proc' \in Procs
    BY <1>2, <2>1, ProcTypes DEF Steps
  <2>3. Y_proc'.who = "restore" /\ Y_proc'.step = step /\ Y_proc'.d # 0
    BY <1>1, <1>2, <2>1 DEF Procs
  <2>4. /\ Y_journal' \in [1 .. Y_MaxRun -> [Y!Decoy -> States]]
        /\ \A r \in 1 .. Y_MaxRun : Y_journal'[r] \in {Y_journal[r], Y!NoJournal}
    <3>1. PICK none : none = Y!NoJournal
      OBVIOUS
    <3>2. none \in [Y!Decoy -> States]
      BY <3>1 DEF Y!NoJournal, States
    <3>3. Y_journal' = Y_journal
          \/ Y_journal' = [Y_journal EXCEPT ![Y_proc.from] = none]
      BY <1>4, <3>1 DEF Y!DiscardJournal
    <3>4. Y_journal \in [1 .. Y_MaxRun -> [Y!Decoy -> States]]
      BY DEF RunInv, RunTypes
    <3>5. CASE Y_journal' = Y_journal
      BY <3>4, <3>5
    <3>6. CASE Y_journal' = [Y_journal EXCEPT ![Y_proc.from] = none]
      BY <3>1, <3>2, <3>4, <3>6
    <3> QED BY <3>3, <3>5, <3>6
  <2>5. Y_copies' = Y_copies
    BY <1>4 DEF Y!DiscardJournal
  <2> QED BY <1>1, <2>1, <2>2, <2>3, <2>4, <2>5, RestoreEnds DEF RunInv, RunTypes
<1> QED BY <1>3, <1>4

LEMMA RestoreRewrites ==
  ASSUME RunInv, Y!Rewrite \/ Y!EndRestore PROVE RunInv'
<1>1. /\ Y_proc.who = "restore" /\ Y_proc.step \in {"rewrite", "end"}
      /\ UNCHANGED <<Y_shape, Y_disk, Y_runs, Y_pruner, Y_journal, Y_copies,
                     Y_discarded>>
  BY DEF Y!Rewrite, Y!EndRestore, Y!At
<1>2. Y_proc \in Procs /\ Y_proc.d # 0 /\ Y_discarded = TRUE
  BY <1>1, RestoreKnows DEF RunInv, Restoring, RunTypes
<1>3. CASE Y!Rewrite
  <2>1. Y_proc' = [Y_proc EXCEPT !.step = "end"] /\ Y_result' = Y_result
    BY <1>3 DEF Y!Rewrite, Y!Goes
  <2>2. Y_proc' \in Procs
    BY <1>2, <2>1, ProcTypes DEF Steps
  <2>3. Y_proc'.who = "restore" /\ Y_proc'.step = "end" /\ Y_proc'.d # 0
    BY <1>1, <1>2, <2>1 DEF Procs
  <2>4. /\ Y_manifest' \in [is : {"none", "torn", "whole"}, entries : SUBSET Y!Decoy,
                            saved : 0 .. Y_MaxRun]
        /\ Y_manifest'.saved <= Y_runs
    <3>1. Y_manifest' = [is |-> "whole", entries |-> {}, saved |-> 0]
      BY <1>3 DEF Y!Rewrite, Y!Whole
    <3>2. 0 \in 0 .. Y_MaxRun /\ 0 <= Y_runs
      BY RunConstants DEF RunInv, RunTypes
    <3> QED BY <3>1, <3>2
  <2> QED BY <1>1, <1>2, <2>1, <2>2, <2>3, <2>4, RestoreEnds DEF RunInv, RunTypes
<1>4. CASE Y!EndRestore
  <2>1. /\ Y_proc' = Y!Nobody /\ Y_manifest' = Y_manifest
        /\ Y_result' = IF Y_result = "none" THEN "restored" ELSE Y_result
    BY <1>4 DEF Y!EndRestore
  <2> QED BY <1>1, <1>2, <2>1, RestoreEnds DEF RunInv, RunTypes
<1> QED BY <1>3, <1>4

LEMMA RunStutters == ASSUME RunInv, UNCHANGED Y_vars PROVE RunInv'
<1>1. RunTypes' /\ Unborn' /\ EntriesBacked' /\ Resulted'
  BY NobodyTypes DEF Y_vars, RunInv, RunTypes, Unborn, EntriesBacked, Resulted, Backed,
     AllAsMade, Y!AsMade, Y!NoJournal, Y!Decoy, Y!Content, Procs
<1>2. Restorable'
  BY DEF Y_vars, RunInv, Restorable, Backed, Y!AsMade, Y!Decoy,
     Y!LeadsTo, Y!AnyJournal, Y!NewestJournal, Y!Kept, Y!NoJournal
<1>3. Running'
  BY DEF Y_vars, RunInv, Running, Fresh, Rewriting, AllAsMade, Y!AsMade, Y!NoJournal,
     Y!Decoy, Y!Kept, Y!Whole
<1>4. Putting => Putting'
  BY DEF Y_vars, Putting, AllAsMade, Y!AsMade, Backed, Y!Decoy,
     Y!LeadsTo, Y!AnyJournal, Y!NewestJournal, Y!Kept, Y!NoJournal
<1>5. Restoring'
  BY <1>4 DEF Y_vars, RunInv, Restoring, AllAsMade, Y!AsMade, Y!Decoy
<1> QED BY <1>1, <1>2, <1>3, <1>5 DEF RunInv

LEMMA RunStep == ASSUME RunInv, Y!Next PROVE RunInv'
  BY RunStarts, RunTears, RunNotes, RunSaves, RunJournals, RunBegins, RunEncrypts,
     RunFinishes, RunIsKilled, RunIsFound, RunIsPruned, RestoreStarts, RestoreSkips,
     RestoreTears, RestoreFills, RestoreCleans, RestoreDecrypts, RestoreDiscards,
     RestoreRewrites DEF Y!Next

LEMMA RunTells == RunInv => Y!AlwaysRestorable /\ Y!RestorePutsBack
<1> SUFFICES ASSUME RunInv PROVE Y!AlwaysRestorable /\ Y!RestorePutsBack
  OBVIOUS
<1>1. \A r, d : Backed(r, d) => r # 0
  BY RunConstants DEF Backed
<1>2. Y!AlwaysRestorable
  BY <1>1 DEF RunInv, Restorable, Y!AlwaysRestorable, Backed, Begun
<1>3. Y!RestorePutsBack
  BY DEF RunInv, Resulted, AllAsMade, Y!RestorePutsBack
<1> QED BY <1>2, <1>3

RunPart == part = "rehearsal" => RunInv

\* Until a copy is discarded, a decoy that is not as it was made can be put back
\* from where a restore would look, whenever the run or a restore is killed; and
\* a restore that ends leaves every decoy as it was made (write_decoys,
\* encrypt_all, restore).
THEOREM RunsAreUndone == ServicesSpec => []RunIsUndone
<1>1. ServicesInit => RunPart
  BY RunInit DEF ServicesInit, RunPart
<1>2. RunPart /\ [ServicesNext]_ServicesVars => RunPart'
  <2> SUFFICES ASSUME RunPart, [ServicesNext]_ServicesVars, part' = "rehearsal"
               PROVE  RunInv'
    BY DEF RunPart
  <2>1. part = "rehearsal" /\ RunInv
    BY DEF RunPart, ServicesNext, ServicesVars
  <2>2. CASE Y!Next
    BY <2>1, <2>2, RunStep
  <2>3. CASE UNCHANGED Y_vars
    BY <2>1, <2>3, RunStutters
  <2> QED BY <2>1, <2>2, <2>3 DEF ServicesNext, ServicesVars
<1>3. RunPart => RunIsUndone
  BY RunTells DEF RunPart, RunIsUndone
<1> QED BY <1>1, <1>2, <1>3, PTL DEF ServicesSpec

-------------------------------------------------------------------------------
(* Gateway: the rate limit, and the permissions of a token.                *)

LEMMA LeastIs ==
  ASSUME NEW a \in Int, NEW b \in Int
  PROVE  /\ Least(a, b) \in {a, b}
         /\ Least(a, b) <= a /\ Least(a, b) <= b
  BY DEF Least

LEMMA TimesIsNat ==
  ASSUME NEW a \in Nat, NEW b \in Nat
  PROVE  a * b \in Nat
  OBVIOUS

LEMMA TimesIsMonotone ==
  ASSUME NEW a \in Nat, NEW b \in Nat, NEW r \in Nat, a <= b
  PROVE  a * r <= b * r
  OBVIOUS

LEMMA TimesSplits ==
  ASSUME NEW a \in Nat, NEW b \in Nat, NEW c \in Nat, NEW r \in Nat,
         a <= b, b <= c
  PROVE  (c - b) * r + (b - a) * r = (c - a) * r
  OBVIOUS

-------------------------------------------------------------------------------
(* The bucket.                                                             *)

USE RateAssumption DEF RateAssumption

\* A bucket looked at now is within its size, and within the budget.
LEMMA RefilledIsWithin ==
  ASSUME RateInv, NEW k \in Key
  PROVE  /\ Refilled(k) \in Nat
         /\ Refilled(k) <= Burst[k]
         /\ spent[k] * Cost + Refilled(k) <= Burst[k] + (now - since) * Rate[k]
<1> DEFINE gain == (now - updated[k]) * Rate[k]
<1>1. /\ now \in Nat /\ since \in Nat /\ updated[k] \in Nat
      /\ tokens[k] \in Nat /\ spent[k] \in Nat /\ spent[k] * Cost \in Nat
      /\ Burst[k] \in Nat /\ Rate[k] \in Nat
      /\ since <= now /\ updated[k] <= now /\ tokens[k] <= Burst[k]
      /\ Budget(k)
  BY TimesIsNat DEF RateInv, RateTypeOK
<1>2. gain \in Nat
  BY <1>1, TimesIsNat, now - updated[k] \in Nat
<1>3. /\ Refilled(k) \in {Burst[k], tokens[k] + gain}
      /\ Refilled(k) <= Burst[k] /\ Refilled(k) <= tokens[k] + gain
  BY <1>1, <1>2, LeastIs DEF Refilled
<1>4. Refilled(k) \in Nat
  BY <1>1, <1>2, <1>3
<1>5. CASE updated[k] < since
  <2>1. spent[k] = 0
    BY <1>1, <1>5 DEF Budget
  <2>2. (now - since) * Rate[k] \in Nat
    BY <1>1, TimesIsNat, now - since \in Nat
  <2> QED BY <1>1, <1>3, <1>4, <2>1, <2>2
<1>6. CASE ~(updated[k] < since)
  <2> DEFINE past == (updated[k] - since) * Rate[k]
             whole == (now - since) * Rate[k]
  <2>1. spent[k] * Cost + tokens[k] <= Burst[k] + past
    BY <1>1, <1>6 DEF Budget
  <2>2. past \in Nat /\ whole \in Nat
    BY <1>1, <1>6, TimesIsNat, updated[k] - since \in Nat, now - since \in Nat
  <2>3. gain + past = whole
    BY <1>1, <1>6, TimesSplits
  <2> HIDE DEF gain, past, whole
  <2>4. spent[k] * Cost + Refilled(k) <= Burst[k] + whole
    BY <1>1, <1>2, <1>3, <1>4, <2>1, <2>2, <2>3
  <2> QED BY <1>3, <1>4, <2>4 DEF whole
<1> QED BY <1>5, <1>6, <1>3, <1>4

LEMMA RateInitInv == RateInit => RateInv
<1> SUFFICES ASSUME RateInit PROVE RateInv OBVIOUS
<1>1. RateTypeOK
  BY DEF RateInit, RateTypeOK
<1>2. ASSUME NEW k \in Key
      PROVE  updated[k] <= now /\ tokens[k] <= Burst[k] /\ Budget(k)
  BY DEF RateInit, Budget
<1> QED BY <1>1, <1>2 DEF RateInv, RateInit

\* Looking at one bucket keeps every bucket within its bounds.
LEMMA LookInv ==
  ASSUME RateInv, NEW k \in Key, Pay(k) \/ Refuse(k), UNCHANGED <<now, since>>
  PROVE  RateInv'
<1>1. /\ Refilled(k) \in Nat /\ Refilled(k) <= Burst[k]
      /\ spent[k] * Cost + Refilled(k) <= Burst[k] + (now - since) * Rate[k]
  BY RefilledIsWithin
<1>2. /\ now \in Nat /\ since \in Nat /\ since <= now
      /\ tokens \in [Key -> Nat] /\ updated \in [Key -> Nat]
      /\ spent \in [Key -> Nat] /\ spent[k] \in Nat
  BY DEF RateInv, RateTypeOK
<1>3. PICK left \in Nat, n \in Nat :
        /\ tokens' = [tokens EXCEPT ![k] = left]
        /\ updated' = [updated EXCEPT ![k] = now]
        /\ spent' = [spent EXCEPT ![k] = n]
        /\ left <= Burst[k]
        /\ n * Cost + left = spent[k] * Cost + Refilled(k)
  <2>1. CASE Pay(k)
    <3>1. Refilled(k) - Cost \in Nat /\ Refilled(k) - Cost <= Burst[k]
      BY <1>1, <2>1 DEF Pay
    <3>2. (spent[k] + 1) * Cost + (Refilled(k) - Cost)
            = spent[k] * Cost + Refilled(k)
      BY <1>1, <1>2
    <3>3. /\ tokens' = [tokens EXCEPT ![k] = Refilled(k) - Cost]
          /\ updated' = [updated EXCEPT ![k] = now]
          /\ spent' = [spent EXCEPT ![k] = spent[k] + 1]
      BY <2>1 DEF Pay, Look, LookedAt
    <3>4. spent[k] + 1 \in Nat
      BY <1>2
    <3> USE <3>1, <3>4
    <3> WITNESS Refilled(k) - Cost \in Nat, spent[k] + 1 \in Nat
    <3> QED BY <3>2, <3>3
  <2>2. CASE Refuse(k)
    <3>1. /\ tokens' = [tokens EXCEPT ![k] = Refilled(k)]
          /\ updated' = [updated EXCEPT ![k] = now]
          /\ spent' = [spent EXCEPT ![k] = spent[k]]
      BY <1>2, <2>2 DEF Refuse, Look, LookedAt
    <3> QED BY <1>1, <1>2, <3>1
  <2> QED BY <2>1, <2>2
<1>4. RateTypeOK'
  BY <1>2, <1>3 DEF RateTypeOK
<1>5. ASSUME NEW other \in Key
      PROVE  /\ updated'[other] <= now /\ tokens'[other] <= Burst[other]
             /\ Budget(other)'
  <2>1. CASE other = k
    <3>1. updated'[k] = now /\ tokens'[k] = left /\ spent'[k] = n
      BY <1>2, <1>3
    <3>2. n * Cost + left <= Burst[k] + (now - since) * Rate[k]
      BY <1>1, <1>3
    <3>3. Budget(k)'
      BY <1>2, <3>1, <3>2 DEF Budget
    <3> QED BY <1>2, <1>3, <2>1, <3>1, <3>3
  <2>2. CASE other # k
    <3>1. /\ updated'[other] = updated[other] /\ tokens'[other] = tokens[other]
          /\ spent'[other] = spent[other]
      BY <1>2, <1>3, <2>2
    <3> QED BY <3>1 DEF RateInv, Budget
  <2> QED BY <2>1, <2>2
<1> QED BY <1>2, <1>4, <1>5 DEF RateInv

\* A bucket is within its bounds whatever happens.
LEMMA RateStep == RateInv /\ [RateNext]_rateVars => RateInv'
<1> SUFFICES ASSUME RateInv, [RateNext]_rateVars PROVE RateInv'
  OBVIOUS
<1>1. ASSUME NEW k \in Key, Pay(k) \/ Refuse(k), UNCHANGED <<now, since>>
      PROVE  RateInv'
  BY <1>1, LookInv
<1>2. CASE Tick
  <2>1. now' = now + 1 /\ UNCHANGED <<tokens, updated, spent, since>>
    BY <1>2 DEF Tick, bucket
  <2> QED BY <2>1 DEF RateInv, RateTypeOK, Budget
<1>3. CASE Observe
  <2>1. /\ since' = now /\ spent' = [k \in Key |-> 0]
        /\ UNCHANGED <<now, tokens, updated>>
    BY <1>3 DEF Observe
  <2>2. ASSUME NEW k \in Key PROVE Budget(k)'
    <3>1. updated[k] <= now /\ tokens[k] <= Burst[k] /\ spent'[k] = 0
      BY <2>1 DEF RateInv
    <3>2. updated[k] \in Nat /\ now \in Nat /\ tokens[k] \in Nat
      BY DEF RateInv, RateTypeOK
    <3> QED BY <2>1, <3>1, <3>2 DEF Budget
  <2> QED BY <2>1, <2>2 DEF RateInv, RateTypeOK
<1>4. CASE UNCHANGED rateVars
  BY <1>4 DEF rateVars, bucket, RateInv, RateTypeOK, Budget
<1> QED BY <1>1, <1>2, <1>3, <1>4 DEF RateNext

\* A bucket within its bounds has kept its budget.
LEMMA InvIsWithinBudget == RateInv => WithinBudget
<1> SUFFICES ASSUME RateInv, NEW k \in Key
             PROVE  spent[k] * Cost <= Burst[k] + (now - since) * Rate[k]
  BY DEF WithinBudget
<1>1. /\ Refilled(k) \in Nat
      /\ spent[k] * Cost + Refilled(k) <= Burst[k] + (now - since) * Rate[k]
  BY RefilledIsWithin
<1>2. /\ spent[k] * Cost \in Nat /\ (now - since) * Rate[k] \in Nat
      /\ Burst[k] \in Nat
  <2>1. spent[k] \in Nat /\ now - since \in Nat
    BY DEF RateInv, RateTypeOK
  <2> QED BY <2>1, TimesIsNat
<1> QED BY <1>1, <1>2

-------------------------------------------------------------------------------
(* The gateway.                                                            *)

LEMMA KeyOfIsKey ==
  ASSUME GatewayAssumption, NEW token \in Tokens PROVE KeyOf(token) \in Key
  BY DEF GatewayAssumption, Tokens, KeyOf

IssuedOK == issued \subseteq Tokens

LEMMA IssuedStep == IssuedOK /\ [Next]_gatewayVars => IssuedOK'
<1> SUFFICES ASSUME IssuedOK, [Next]_gatewayVars PROVE IssuedOK' OBVIOUS
<1>1. CASE UNCHANGED issued
  BY <1>1 DEF IssuedOK
<1>2. ASSUME NEW c \in Caller, NEW w \in Wanted, NEW shown \in BOOLEAN,
             AskToken(c, w, shown)
      PROVE  IssuedOK'
  <2>1. Token(w, shown) \in Tokens
    BY DEF Token, Tokens, Matches, GatewayAssumption, MayIssue
  <2> QED BY <1>2, <2>1 DEF AskToken, IssuedOK
<1> QED
  BY <1>1, <1>2 DEF Next, Request, Perform, Reply, Fail, Audit, Leave, gatewayVars

\* Every step of the gateway is one of the token buckets, or leaves them alone.
LEMMA StepIsRateStep ==
  GatewayAssumption /\ IssuedOK /\ [Next]_gatewayVars => [RateNext]_rateVars
<1> SUFFICES ASSUME GatewayAssumption, IssuedOK, [Next]_gatewayVars
             PROVE  [RateNext]_rateVars
  OBVIOUS
<1>1. CASE UNCHANGED rateVars
  BY <1>1
<1>2. CASE Tick \/ Observe
  BY <1>2 DEF RateNext
<1>3. ASSUME NEW c \in Caller, NEW route \in Routes, Request(c, route)
      PROVE  [RateNext]_rateVars
  <2>1. UNCHANGED <<now, since>>
    BY <1>3 DEF Request
  <2>2. CASE Unauthenticated(c, route)
    BY <2>1, <2>2 DEF Unauthenticated, rateVars
  <2>3. ASSUME NEW token \in issued,
               \/ WrongRole(c, route, token) \/ TooMany(c, route, token)
               \/ Admit(c, route, token)
        PROVE  [RateNext]_rateVars
    <3>1. KeyOf(token) \in Key
      BY KeyOfIsKey DEF IssuedOK
    <3>2. \/ Pay(KeyOf(token)) \/ Refuse(KeyOf(token)) \/ UNCHANGED bucket
      BY <2>3 DEF WrongRole, TooMany, Admit
    <3> QED BY <2>1, <3>1, <3>2 DEF RateNext, rateVars
  <2> QED BY <1>3, <2>2, <2>3 DEF Request
<1> QED
  BY <1>1, <1>2, <1>3
  DEF Next, AskToken, Perform, Reply, Fail, Audit, Leave, gatewayVars

\* The gateway implements the token buckets: whatever it does to them, a look
\* at one bucket, the clock or the observer does.
THEOREM GatewayImplementsRateLimit == Spec => RateSpec
<1>1. Init => RateInit /\ IssuedOK
  BY DEF Init, IssuedOK
<1>2. IssuedOK /\ [Next]_gatewayVars => IssuedOK'
  BY IssuedStep
<1>3. IssuedOK /\ [Next]_gatewayVars => [RateNext]_rateVars
  BY StepIsRateStep, GatewayAssumption
<1> QED BY <1>1, <1>2, <1>3, PTL DEF Spec, RateSpec

\* No subject and tier is let through more often than the burst and the rate
\* of its tier allow, however many requests are under way.
THEOREM NobodyOverspends == Spec => []WithinBudget
<1>1. RateSpec => []RateInv
  BY RateInitInv, RateStep, PTL DEF RateSpec
<1> QED BY <1>1, GatewayImplementsRateLimit, InvIsWithinBudget, PTL
-------------------------------------------------------------------------------
(* What the services did.                                                  *)

\* A token given without the secret is a free one.
IssuedInv ==
  /\ issued \subseteq Tokens
  /\ \A token \in issued :
       ~token.trusted => token.want.role = "free" /\ token.want.tier = "free"

\* What the services may have done for a request after n calls.
Carried(route, n) == {Stages(route)[i] : i \in 1 .. n}

\* A request whose call is made has passed the dependencies of its route.
Admitted(r) == r.token \in issued /\ r.route \in Routes /\ Permits(r.token, r.route)

\* The calls for a request are carried out in their order, each at most once,
\* and never beyond the one the gateway is at unless it gave up waiting.
RequestInv(c) ==
  LET r == req[c]
      last == Len(Stages(r.route))
  IN /\ r.token \in issued \cup {NoToken}
     /\ r.at \in Calls =>
          /\ Admitted(r) /\ r.status = 0
          /\ \E n \in 1 .. last :
               r.at = Stages(r.route)[n]
               /\ done[c] \in {Carried(r.route, n - 1), Carried(r.route, n)}
     /\ r.at = "late" =>
          /\ Admitted(r) /\ r.status = 503
          /\ \E n \in 0 .. last : done[c] = Carried(r.route, n)
     /\ r.at = "idle" => done[c] = {}
     /\ r.at = "audit" => done[c] = {} /\ r.status \in {401, 403}
     /\ r.at = "answered" =>
          \/ r.status = 200 /\ Admitted(r) /\ done[c] = Carried(r.route, last)
          \/ r.status \in {400, 401, 403, 429} /\ done[c] = {}

Requests ==
  [at : Calls \cup {"idle", "audit", "answered", "late"},
   route : Route \cup {"token"},
   token : Tokens \cup {NoToken},
   status : {0, 200, 400, 401, 403, 429, 503}]

ReqTypeOK ==
  /\ req \in [Caller -> Requests]
  /\ done \in [Caller -> SUBSET Calls]
  /\ trail \subseteq {401, 403}

GatewayInv == IssuedInv /\ ReqTypeOK /\ \A c \in Caller : RequestInv(c)

LEMMA InvIsDoneAllowed == GatewayInv => DoneIsAllowed
<1> SUFFICES ASSUME GatewayInv, NEW c \in Caller
             PROVE
    LET r == req[c]
    IN /\ done[c] # {} =>
            /\ r.token # NoToken /\ Permits(r.token, r.route)
            /\ r.route # "read" => r.token.trusted
       /\ r.token # NoToken /\ ~r.token.trusted => r.token.want.tier = "free"
       /\ r.at = "answered" /\ r.status = 200
            => done[c] = {Stages(r.route)[n] : n \in DOMAIN Stages(r.route)}
       /\ r.status \in {400, 401, 403, 429} => done[c] = {}
  BY DEF DoneIsAllowed
<1> DEFINE r == req[c]
<1>1. /\ RequestInv(c) /\ IssuedInv
      /\ r.at \in Calls \cup {"idle", "audit", "answered", "late"}
  BY DEF GatewayInv, ReqTypeOK, Requests
<1>2. done[c] # {} => Admitted(r)
  BY <1>1 DEF RequestInv
<1>3. Admitted(r) => r.token # NoToken /\ (r.route # "read" => r.token.trusted)
  <2> SUFFICES ASSUME Admitted(r)
               PROVE  r.token # NoToken /\ (r.route # "read" => r.token.trusted)
    OBVIOUS
  <2>1. r.token \in Tokens /\ r.token.trusted \in BOOLEAN
    BY <1>1 DEF Admitted, IssuedInv, Tokens
  <2>2. r.token # NoToken
    BY <2>1, NoTokenAssumption DEF Tokens
  <2>3. r.route # "read" => r.token.want.role # "free"
    BY GatewayAssumption DEF Admitted, Permits, Allowed, GatewayAssumption, Route
  <2> QED BY <1>1, <2>1, <2>2, <2>3 DEF Admitted, IssuedInv
<1>4. r.token # NoToken /\ ~r.token.trusted => r.token.want.tier = "free"
  BY <1>1 DEF RequestInv, IssuedInv
<1>5. Carried(r.route, Len(Stages(r.route)))
        = {Stages(r.route)[n] : n \in DOMAIN Stages(r.route)}
  BY DEF Carried, Stages
<1>6. r.at = "answered" /\ r.status = 200
        => done[c] = Carried(r.route, Len(Stages(r.route)))
  BY <1>1 DEF RequestInv
<1>7. r.status \in {400, 401, 403, 429} => done[c] = {}
  BY <1>1 DEF RequestInv
<1> QED BY <1>2, <1>3, <1>4, <1>5, <1>6, <1>7 DEF Admitted

\* What is not about the request of c keeps it as it was.
LEMMA RequestStays ==
  ASSUME NEW c \in Caller, RequestInv(c), issued \subseteq issued',
         req'[c] = req[c], done'[c] = done[c]
  PROVE  RequestInv(c)'
BY DEF RequestInv, Admitted

LEMMA CarriedIs ==
  ASSUME NEW route
  PROVE  /\ Carried(route, 0) = {}
         /\ route = "analyze" =>
              /\ Stages(route) = <<"features", "predict", "log">>
              /\ Len(Stages(route)) = 3
              /\ Carried(route, 1) = {"features"}
              /\ Carried(route, 2) = {"features", "predict"}
              /\ Carried(route, 3) = {"features", "predict", "log"}
         /\ route # "analyze" =>
              /\ Stages(route) = <<"call">>
              /\ Len(Stages(route)) = 1 /\ Carried(route, 1) = {"call"}
<1>1. Carried(route, 0) = {}
  BY DEF Carried
<1>2. CASE route = "analyze"
  <2>1. Stages(route) = <<"features", "predict", "log">>
    BY <1>2 DEF Stages
  <2>2. /\ Len(Stages(route)) = 3
        /\ Stages(route)[1] = "features" /\ Stages(route)[2] = "predict"
        /\ Stages(route)[3] = "log"
    BY <2>1
  <2>3. Carried(route, 1) = {"features"}
    BY <2>2, 1 .. 1 = {1} DEF Carried
  <2>4. Carried(route, 2) = {"features", "predict"}
    BY <2>2, 1 .. 2 = {1, 2} DEF Carried
  <2>5. Carried(route, 3) = {"features", "predict", "log"}
    BY <2>2, 1 .. 3 = {1, 2, 3} DEF Carried
  <2> QED BY <1>1, <1>2, <2>1, <2>2, <2>3, <2>4, <2>5
<1>3. CASE route # "analyze"
  <2>1. Stages(route) = <<"call">>
    BY <1>3 DEF Stages
  <2>2. Len(Stages(route)) = 1 /\ Stages(route)[1] = "call"
    BY <2>1
  <2>3. Carried(route, 1) = {"call"}
    BY <2>2, 1 .. 1 = {1} DEF Carried
  <2> QED BY <1>1, <1>3, <2>1, <2>2, <2>3
<1> QED BY <1>2, <1>3

LEMMA RejectedStep ==
  ASSUME GatewayInv, NEW c \in Caller, NEW route \in Route \cup {"token"},
         NEW token \in issued \cup {NoToken},
         NEW status \in {400, 401, 403, 429},
         req[c].at = "idle", Rejected(c, route, token, status),
         UNCHANGED <<issued, done, trail>>
  PROVE  GatewayInv'
<1>1. /\ req'[c] = [at |-> IF status \in {401, 403} THEN "audit" ELSE "answered",
                    route |-> route, token |-> token, status |-> status]
      /\ \A d \in Caller : d # c => req'[d] = req[d]
  BY DEF Rejected, GatewayInv, ReqTypeOK
<1>2. ReqTypeOK'
  BY DEF Rejected, GatewayInv, ReqTypeOK, IssuedInv, Requests
<1>3. done'[c] = {}
  BY DEF GatewayInv, RequestInv
<1>4. RequestInv(c)'
  <2>1. CASE status \in {401, 403}
    BY <1>1, <1>3, <2>1 DEF RequestInv, Calls
  <2>2. CASE status \in {400, 429}
    BY <1>1, <1>3, <2>2 DEF RequestInv, Calls
  <2> QED BY <2>1, <2>2
<1>5. \A d \in Caller : d # c => RequestInv(d)'
  BY <1>1, RequestStays DEF GatewayInv
<1> QED BY <1>2, <1>4, <1>5 DEF GatewayInv, IssuedInv

LEMMA AskTokenStep ==
  ASSUME GatewayInv, NEW c \in Caller, NEW w \in Wanted, NEW shown \in BOOLEAN,
         AskToken(c, w, shown)
  PROVE  GatewayInv'
<1>1. CASE MayIssue(w, shown)
  <2>1. issued' = issued \cup {Token(w, shown)} /\ UNCHANGED <<req, done, trail>>
    BY <1>1 DEF AskToken
  <2>2. Token(w, shown) \in Tokens
    BY GatewayAssumption DEF Token, Tokens, Matches, GatewayAssumption
  <2>3. ~Token(w, shown).trusted => w.role = "free" /\ w.tier = "free"
    BY <1>1 DEF Token, MayIssue, NeedsSecret
  <2>4. IssuedInv'
    BY <2>1, <2>2, <2>3 DEF GatewayInv, IssuedInv, Token
  <2>5. \A d \in Caller : RequestInv(d)'
    BY <2>1, RequestStays DEF GatewayInv
  <2> QED BY <2>1, <2>4, <2>5 DEF GatewayInv, ReqTypeOK
<1>2. CASE ~MayIssue(w, shown)
  BY <1>2, RejectedStep DEF AskToken
<1> QED BY <1>1, <1>2

LEMMA AdmitStep ==
  ASSUME GatewayInv, NEW c \in Caller, NEW route \in Routes,
         NEW token \in issued, req[c].at = "idle", Permits(token, route),
         req' = [req EXCEPT ![c] =
                  [at |-> Stages(route)[1], route |-> route, token |-> token,
                   status |-> 0]],
         UNCHANGED <<issued, done, trail>>
  PROVE  GatewayInv'
<1>1. /\ req'[c] = [at |-> Stages(route)[1], route |-> route, token |-> token,
                    status |-> 0]
      /\ \A d \in Caller : d # c => req'[d] = req[d]
  BY DEF GatewayInv, ReqTypeOK
<1>2. Stages(route)[1] \in Calls /\ Len(Stages(route)) \in {1, 3}
  BY CarriedIs DEF Calls
<1>3. ReqTypeOK'
  <2>1. token \in Tokens /\ route \in Route
    BY GatewayAssumption DEF GatewayInv, IssuedInv, GatewayAssumption
  <2>2. [at |-> Stages(route)[1], route |-> route, token |-> token,
         status |-> 0] \in Requests
    BY <1>2, <2>1 DEF Requests
  <2> QED BY <2>2 DEF GatewayInv, ReqTypeOK
<1>4. done'[c] = Carried(route, 1 - 1)
  <2>1. done[c] = {}
    BY DEF GatewayInv, RequestInv
  <2>2. Carried(route, 0) = {}
    BY CarriedIs
  <2> QED BY <2>1, <2>2
<1>5. RequestInv(c)'
  <2>1. Admitted(req[c])'
    BY <1>1 DEF Admitted
  <2>2. \E n \in 1 .. Len(Stages(route)) :
          /\ Stages(route)[1] = Stages(route)[n]
          /\ done'[c] \in {Carried(route, n - 1), Carried(route, n)}
    BY SMTT(30), <1>2, <1>4
  <2>3. Stages(route)[1] \notin {"late", "idle", "audit", "answered"}
    BY <1>2 DEF Calls
  <2>4. /\ req'[c].token \in issued' /\ req'[c].status = 0
        /\ req'[c].at = Stages(route)[1] /\ req'[c].route = route
    BY <1>1
  <2>5. /\ req'[c].at \notin {"late", "idle", "audit", "answered"}
        /\ \E n \in 1 .. Len(Stages(req'[c].route)) :
             /\ req'[c].at = Stages(req'[c].route)[n]
             /\ done'[c] \in {Carried(req'[c].route, n - 1),
                              Carried(req'[c].route, n)}
    BY ZenonT(60), <2>2, <2>3, <2>4
  <2> QED BY ZenonT(60), <2>1, <2>4, <2>5 DEF RequestInv
<1>6. \A d \in Caller : d # c => RequestInv(d)'
  BY <1>1, RequestStays DEF GatewayInv
<1> QED BY <1>3, <1>5, <1>6 DEF GatewayInv, IssuedInv

LEMMA RequestStep ==
  ASSUME GatewayInv, NEW c \in Caller, NEW route \in Routes, Request(c, route)
  PROVE  GatewayInv'
<1>1. route \in Route /\ req[c].at = "idle" /\ UNCHANGED <<issued, done, trail>>
  BY GatewayAssumption DEF GatewayAssumption, Request
<1>2. CASE Unauthenticated(c, route)
  BY <1>1, <1>2, RejectedStep DEF Unauthenticated
<1>3. ASSUME NEW token \in issued,
             \/ WrongRole(c, route, token) \/ TooMany(c, route, token)
             \/ Admit(c, route, token)
      PROVE  GatewayInv'
  <2>1. CASE \E status \in {400, 403, 429} : Rejected(c, route, token, status)
    BY <1>1, <2>1, RejectedStep
  <2>2. CASE Permits(token, route)
             /\ req' = [req EXCEPT ![c] =
                         [at |-> Stages(route)[1], route |-> route,
                          token |-> token, status |-> 0]]
    BY <1>1, <2>2, AdmitStep
  <2> QED BY <1>3, <2>1, <2>2 DEF WrongRole, TooMany, Admit
<1> QED BY <1>2, <1>3 DEF Request

\* The number of calls carried out is the place of the next one.
LEMMA CarriedCount ==
  ASSUME NEW route, NEW n \in 0 .. Len(Stages(route))
  PROVE  Cardinality(Carried(route, n)) = n
<1>1. Cardinality({}) = 0 /\ IsFiniteSet({})
  BY FS_EmptySet
<1>2. ASSUME NEW a PROVE {a} = {} \cup {a} /\ a \notin {}
  OBVIOUS
<1>3. ASSUME NEW a PROVE Cardinality({a}) = 1 /\ IsFiniteSet({a})
  BY FS_Singleton
<1>4. CASE route # "analyze"
  <2>1. n \in {0, 1}
    BY SMTT(30), <1>4, CarriedIs
  <2> QED BY ZenonT(60), <1>1, <1>3, <1>4, <2>1, CarriedIs
<1>5. CASE route = "analyze"
  <2>1. n \in {0, 1, 2, 3}
    <3>1. Len(Stages(route)) = 3
      BY <1>5, CarriedIs
    <3> QED BY <3>1
  <2>2. /\ Cardinality({"features", "predict"}) = 2
        /\ IsFiniteSet({"features", "predict"})
    <3>1. /\ Cardinality({"features"}) = 1 /\ IsFiniteSet({"features"})
          /\ "predict" \notin {"features"}
      BY <1>3
    <3>2. /\ Cardinality({"features"} \cup {"predict"}) = 1 + 1
          /\ IsFiniteSet({"features"} \cup {"predict"})
      BY <3>1, FS_AddElement
    <3>3. {"features"} \cup {"predict"} = {"features", "predict"}
      OBVIOUS
    <3> QED BY <3>2, <3>3
  <2>3. Cardinality({"features", "predict", "log"}) = 3
    <3>1. "log" \notin {"features", "predict"}
      OBVIOUS
    <3>2. Cardinality({"features", "predict"} \cup {"log"}) = 2 + 1
      BY <2>2, <3>1, FS_AddElement
    <3>3. {"features", "predict"} \cup {"log"} = {"features", "predict", "log"}
      OBVIOUS
    <3> QED BY <3>2, <3>3
  <2>4. Carried(route, n) =
          CASE n = 0 -> {} [] n = 1 -> {"features"}
            [] n = 2 -> {"features", "predict"}
            [] n = 3 -> {"features", "predict", "log"}
    BY <1>5, <2>1, CarriedIs
  <2>5. Cardinality({"features"}) = 1
    BY <1>3
  <2> HIDE <1>2, <1>3
  <2> QED BY <1>1, <2>1, <2>2, <2>3, <2>4, <2>5
<1> QED BY <1>4, <1>5

LEMMA CarriedNext ==
  ASSUME NEW route, NEW n \in 1 .. Len(Stages(route))
  PROVE  /\ Carried(route, n) = Carried(route, n - 1) \cup {Stages(route)[n]}
         /\ Stages(route)[n] \in Calls
         /\ Stages(route)[n] \notin Carried(route, n - 1)
         /\ \A i \in 1 .. Len(Stages(route)) :
              Stages(route)[i] = Stages(route)[n] => i = n
<1>1. CASE route # "analyze"
  <2>1. n = 1 /\ n - 1 = 0
    <3>1. Len(Stages(route)) = 1
      BY <1>1, CarriedIs
    <3> QED BY <3>1
  <2> QED BY <1>1, <2>1, CarriedIs DEF Calls
<1>2. CASE route = "analyze"
  <2> USE <1>2, CarriedIs DEF Calls
  <2>1. CASE n = 1
    <3>1. n - 1 = 0
      BY <2>1
    <3> QED BY <2>1, <3>1
  <2>2. CASE n = 2
    <3>1. n - 1 = 1
      BY <2>2
    <3> QED BY <2>2, <3>1
  <2>3. CASE n = 3
    <3>1. n - 1 = 2
      BY <2>3
    <3> QED BY <2>3, <3>1
  <2>4. Len(Stages(route)) = 3
    OBVIOUS
  <2> HIDE <1>2, CarriedIs
  <2>5. n \in {1, 2, 3}
    BY <2>4
  <2> QED BY <2>1, <2>2, <2>3, <2>5
<1> QED BY <1>1, <1>2

\* A service carries out the call the gateway is at, or one it gave up on.
LEMMA PerformStep ==
  ASSUME GatewayInv, NEW c \in Caller, Perform(c)
  PROVE  GatewayInv'
<1> DEFINE r == req[c]
<1>1. PICK call \in Calls \ done[c] :
        /\ \/ r.at = call
           \/ r.at = "late" /\ \E n \in DOMAIN Stages(r.route) :
                /\ Stages(r.route)[n] = call
                /\ Cardinality(done[c]) = n - 1
        /\ done' = [done EXCEPT ![c] = @ \cup {call}]
        /\ UNCHANGED <<rateVars, issued, req, trail>>
  BY DEF Perform
<1>2. /\ done'[c] = done[c] \cup {call}
      /\ \A d \in Caller : d # c => done'[d] = done[d]
      /\ ReqTypeOK'
  BY <1>1 DEF GatewayInv, ReqTypeOK
<1>3. RequestInv(c)
  BY DEF GatewayInv
<1>4. ASSUME r.at = call PROVE RequestInv(c)'
  <2>1. PICK n \in 1 .. Len(Stages(r.route)) :
          r.at = Stages(r.route)[n]
          /\ done[c] \in {Carried(r.route, n - 1), Carried(r.route, n)}
    BY <1>3, <1>4 DEF RequestInv
  <2>2. done[c] = Carried(r.route, n - 1)
    BY <1>1, <1>4, <2>1, CarriedNext
  <2>3. done'[c] = Carried(r.route, n)
    BY <1>2, <1>4, <2>1, <2>2, CarriedNext
  <2>4. r.at \notin {"late", "idle", "audit", "answered"}
    BY <1>4 DEF Calls
  <2>5. Admitted(r) /\ r.status = 0
    BY <1>3, <1>4 DEF RequestInv
  <2>6. \E k \in 1 .. Len(Stages(r.route)) :
          r.at = Stages(r.route)[k]
          /\ done'[c] \in {Carried(r.route, k - 1), Carried(r.route, k)}
    BY <2>1, <2>3
  <2>7. r.token \in issued /\ req' = req /\ issued' = issued
    BY <1>1, <2>5 DEF Admitted
  <2> QED BY <2>4, <2>5, <2>6, <2>7 DEF RequestInv, Admitted
<1>5. ASSUME r.at = "late" PROVE RequestInv(c)'
  <2>1. PICK m \in 0 .. Len(Stages(r.route)) : done[c] = Carried(r.route, m)
    BY <1>3, <1>5 DEF RequestInv
  <2>2. r.at \notin Calls
    BY <1>5 DEF Calls
  <2>3. PICK n \in DOMAIN Stages(r.route) :
          Stages(r.route)[n] = call /\ Cardinality(done[c]) = n - 1
    BY <1>1, <1>5, <2>2
  <2>4. n \in 1 .. Len(Stages(r.route)) /\ Len(Stages(r.route)) \in Nat
    BY CarriedIs
  <2>5. m = n - 1
    BY <2>1, <2>3, CarriedCount
  <2>6. done'[c] = Carried(r.route, n)
    BY <1>2, <2>1, <2>3, <2>4, <2>5, CarriedNext
  <2>7. n \in 0 .. Len(Stages(r.route))
    BY <2>4
  <2>8. Admitted(r) /\ r.status = 503
    BY <1>3, <1>5 DEF RequestInv
  <2>9. r.token \in issued /\ req' = req /\ issued' = issued
    BY <1>1, <2>8 DEF Admitted
  <2> QED BY <1>5, <2>2, <2>6, <2>7, <2>8, <2>9 DEF RequestInv, Admitted
<1>6. RequestInv(c)'
  <2>1. r.at = call \/ r.at = "late"
    BY <1>1
  <2> QED BY <1>4, <1>5, <2>1
<1>7. \A d \in Caller : d # c => RequestInv(d)'
  BY <1>1, <1>2, RequestStays DEF GatewayInv
<1> QED BY <1>1, <1>2, <1>6, <1>7 DEF GatewayInv, IssuedInv

\* A request that moves on keeps its route and token; the others stay.
Moves(c, at, status) ==
  req' = [req EXCEPT ![c] = [@ EXCEPT !.at = at, !.status = status]]

LEMMA MovesOn ==
  ASSUME NEW c \in Caller, req \in [Caller -> Requests],
         NEW at \in Calls \cup {"idle", "audit", "answered", "late"},
         NEW status \in {0, 200, 400, 401, 403, 429, 503},
         Moves(c, at, status)
  PROVE  /\ req'[c].at = at /\ req'[c].status = status
         /\ req'[c].token = req[c].token /\ req'[c].route = req[c].route
         /\ \A d \in Caller : d # c => req'[d] = req[d]
         /\ req' \in [Caller -> Requests]
<1> DEFINE AtSet == Calls \cup {"idle", "audit", "answered", "late"}
           RouteSet == Route \cup {"token"}
           TokenSet == Tokens \cup {NoToken}
           StatusSet == {0, 200, 400, 401, 403, 429, 503}
           new == [req[c] EXCEPT !.at = at, !.status = status]
<1>1. Requests = [at : AtSet, route : RouteSet, token : TokenSet, status : StatusSet]
  BY DEF Requests
<1>2. /\ new.at = at /\ new.status = status
      /\ new.token = req[c].token /\ new.route = req[c].route
      /\ new \in Requests
  <2>1. req[c] \in Requests /\ at \in AtSet /\ status \in StatusSet
    OBVIOUS
  <2> HIDE DEF AtSet, RouteSet, TokenSet, StatusSet
  <2> QED BY ZenonT(60), <1>1, <2>1
<1>3. req' = [req EXCEPT ![c] = new]
  BY DEF Moves
<1> HIDE DEF new
<1> QED BY <1>2, <1>3

\* The answer to the call the gateway is at: the next call, or 200.
LEMMA ReplyStep ==
  ASSUME GatewayInv, NEW c \in Caller, Reply(c)
  PROVE  GatewayInv'
<1> DEFINE r == req[c]
           calls == Stages(r.route)
<1>1. /\ r.at \in Calls /\ r.at \in done[c] /\ UNCHANGED <<issued, done, trail>>
      /\ req' = [req EXCEPT ![c] =
                  [@ EXCEPT !.at = After(c),
                            !.status = IF After(c) = "answered" THEN 200 ELSE 0]]
  BY DEF Reply
<1>2. RequestInv(c) /\ r \in Requests
  BY DEF GatewayInv, ReqTypeOK
<1>3. PICK n \in 1 .. Len(calls) :
        r.at = calls[n]
        /\ done[c] \in {Carried(r.route, n - 1), Carried(r.route, n)}
  BY <1>1, <1>2 DEF RequestInv
<1>4. done[c] = Carried(r.route, n)
  BY <1>1, <1>3, CarriedNext
<1>5. After(c) = IF n = Len(calls) THEN "answered" ELSE calls[n + 1]
  <2>1. \A i \in 1 .. Len(calls) : calls[i] = r.at => i = n
    BY <1>3, CarriedNext
  <2>2. DOMAIN calls = 1 .. Len(calls)
    BY CarriedIs
  <2>3. (CHOOSE i \in DOMAIN calls : calls[i] = r.at) = n
    BY <1>3, <2>1, <2>2
  <2> HIDE DEF calls
  <2>4. After(c) = LET k == CHOOSE i \in DOMAIN calls : calls[i] = r.at
                   IN IF k = Len(calls) THEN "answered" ELSE calls[k + 1]
    BY DEF After, calls
  <2> QED BY <2>3, <2>4
<1>6. n # Len(calls) => n + 1 \in 1 .. Len(calls)
  <2>1. Len(calls) \in Nat
    BY CarriedIs
  <2> QED BY <1>3, <2>1
<1>7. /\ req'[c].at = After(c) /\ req'[c].token = r.token
      /\ req'[c].route = r.route
      /\ req'[c].status = IF After(c) = "answered" THEN 200 ELSE 0
      /\ \A d \in Caller : d # c => req'[d] = req[d]
      /\ req' \in [Caller -> Requests]
  <2>1. After(c) \in Calls \cup {"idle", "audit", "answered", "late"}
    BY <1>5, <1>6, CarriedNext
  <2>2. (IF After(c) = "answered" THEN 200 ELSE 0)
          \in {0, 200, 400, 401, 403, 429, 503}
    OBVIOUS
  <2>3. req \in [Caller -> Requests]
    BY DEF GatewayInv, ReqTypeOK
  <2> DEFINE at == After(c)
             status == IF at = "answered" THEN 200 ELSE 0
  <2>4. /\ at \in Calls \cup {"idle", "audit", "answered", "late"}
        /\ status \in {0, 200, 400, 401, 403, 429, 503}
        /\ Moves(c, at, status)
    BY <1>1, <2>1, <2>2 DEF Moves
  <2> HIDE DEF at, status
  <2>5. /\ req'[c].at = at /\ req'[c].status = status
        /\ req'[c].token = req[c].token /\ req'[c].route = req[c].route
        /\ \A d \in Caller : d # c => req'[d] = req[d]
        /\ req' \in [Caller -> Requests]
    BY <2>3, <2>4, MovesOn
  <2> QED BY <2>5 DEF at, status
<1>8. Admitted(r) /\ Admitted(req[c])' /\ req'[c].token \in issued'
  BY <1>1, <1>2, <1>7 DEF RequestInv, Admitted
<1>9. CASE n = Len(calls)
  <2>1. req'[c].at = "answered" /\ req'[c].status = 200
    BY <1>5, <1>7, <1>9
  <2>2. done'[c] = Carried(req'[c].route, Len(Stages(req'[c].route)))
    BY <1>1, <1>4, <1>7, <1>9
  <2>3. RequestInv(c)'
    BY <1>8, <2>1, <2>2 DEF RequestInv, Calls
  <2> QED
    BY <1>1, <1>7, <2>3, RequestStays
    DEF GatewayInv, ReqTypeOK, IssuedInv
<1>10. CASE n # Len(calls)
  <2>0. calls[n + 1] \in Calls /\ calls[n + 1] # "answered"
    <3>1. calls[n + 1] \in Calls
      BY <1>6, <1>10, CarriedNext
    <3> QED BY <3>1 DEF Calls
  <2>1. req'[c].at = calls[n + 1] /\ req'[c].status = 0 /\ calls[n + 1] \in Calls
    BY <1>5, <1>7, <1>10, <2>0
  <2>2. done'[c] = Carried(r.route, (n + 1) - 1)
    <3>1. (n + 1) - 1 = n
      BY <1>3
    <3> QED BY <1>1, <1>4, <3>1
  <2>3. \E k \in 1 .. Len(Stages(req'[c].route)) :
          /\ req'[c].at = Stages(req'[c].route)[k]
          /\ done'[c] \in {Carried(req'[c].route, k - 1), Carried(req'[c].route, k)}
    BY <1>6, <1>7, <1>10, <2>1, <2>2
  <2>4. req'[c].at \notin {"late", "idle", "audit", "answered"}
    BY <2>1 DEF Calls
  <2>5. RequestInv(c)'
    BY <1>8, <2>1, <2>3, <2>4 DEF RequestInv
  <2> QED
    BY <1>1, <1>7, <2>5, RequestStays
    DEF GatewayInv, ReqTypeOK, IssuedInv
<1> QED BY <1>9, <1>10

\* The gateway gives up on a call, made or not.
LEMMA FailStep ==
  ASSUME GatewayInv, NEW c \in Caller, Fail(c)
  PROVE  GatewayInv'
<1> DEFINE r == req[c]
<1>1. /\ r.at \in Calls /\ UNCHANGED <<issued, done, trail>>
      /\ req' = [req EXCEPT ![c] = [@ EXCEPT !.at = "late", !.status = 503]]
  BY DEF Fail
<1>2. RequestInv(c) /\ r \in Requests
  BY DEF GatewayInv, ReqTypeOK
<1>3. PICK n \in 1 .. Len(Stages(r.route)) :
        done[c] \in {Carried(r.route, n - 1), Carried(r.route, n)}
  BY <1>1, <1>2 DEF RequestInv
<1>4. /\ req'[c].at = "late" /\ req'[c].token = r.token
      /\ req'[c].route = r.route /\ req'[c].status = 503
      /\ \A d \in Caller : d # c => req'[d] = req[d]
      /\ req' \in [Caller -> Requests]
  <2>1. req \in [Caller -> Requests]
    BY DEF GatewayInv, ReqTypeOK
  <2>2. /\ "late" \in Calls \cup {"idle", "audit", "answered", "late"}
        /\ 503 \in {0, 200, 400, 401, 403, 429, 503}
    OBVIOUS
  <2>3. Moves(c, "late", 503)
    BY <1>1 DEF Moves
  <2> HIDE DEF r
  <2> QED BY <2>1, <2>2, <2>3, MovesOn DEF r
<1>5. Admitted(req[c])' /\ req'[c].token \in issued'
  BY <1>1, <1>2, <1>4 DEF RequestInv, Admitted
<1>6. \E k \in 0 .. Len(Stages(req'[c].route)) :
        done'[c] = Carried(req'[c].route, k)
  <2>1. Len(Stages(r.route)) \in Nat
    BY CarriedIs
  <2>2. n - 1 \in 0 .. Len(Stages(r.route)) /\ n \in 0 .. Len(Stages(r.route))
    BY <1>3, <2>1
  <2> QED BY <1>1, <1>3, <1>4, <2>2
<1>7. RequestInv(c)'
  BY <1>4, <1>5, <1>6 DEF RequestInv, Calls
<1> QED
  BY <1>1, <1>4, <1>7, RequestStays DEF GatewayInv, ReqTypeOK, IssuedInv

\* A refusal is answered whether it could be audited or not; then it is over.
LEMMA AuditStep ==
  ASSUME GatewayInv, NEW c \in Caller, Audit(c)
  PROVE  GatewayInv'
<1>1. /\ req[c].at = "audit" /\ UNCHANGED <<issued, done>>
      /\ trail' \in {trail, trail \cup {req[c].status}}
      /\ req' = [req EXCEPT ![c].at = "answered"]
  BY DEF Audit
<1>2. RequestInv(c) /\ req[c] \in Requests
  BY DEF GatewayInv, ReqTypeOK
<1>3. /\ req'[c].at = "answered" /\ req'[c].token = req[c].token
      /\ req'[c].status = req[c].status
      /\ \A d \in Caller : d # c => req'[d] = req[d]
      /\ req' \in [Caller -> Requests]
  BY <1>1, <1>2 DEF GatewayInv, ReqTypeOK, Requests
<1>4. req[c].status \in {401, 403} /\ done[c] = {}
  BY <1>1, <1>2 DEF RequestInv
<1>5. RequestInv(c)'
  BY <1>1, <1>2, <1>3, <1>4 DEF RequestInv, Calls
<1>6. trail' \subseteq {401, 403}
  BY <1>1, <1>4 DEF GatewayInv, ReqTypeOK
<1> QED
  BY <1>1, <1>3, <1>5, <1>6, RequestStays DEF GatewayInv, ReqTypeOK, IssuedInv

LEMMA LeaveStep ==
  ASSUME GatewayInv, NEW c \in Caller, Leave(c)
  PROVE  GatewayInv'
<1>1. /\ UNCHANGED <<issued, trail>>
      /\ req' = [req EXCEPT ![c] = Idle] /\ done' = [done EXCEPT ![c] = {}]
  BY DEF Leave
<1>2. /\ req'[c] = Idle /\ done'[c] = {}
      /\ \A d \in Caller : d # c => req'[d] = req[d] /\ done'[d] = done[d]
  BY <1>1 DEF GatewayInv, ReqTypeOK
<1>3. Idle \in Requests
  BY DEF Idle, Requests
<1>4. ReqTypeOK'
  BY <1>1, <1>3 DEF GatewayInv, ReqTypeOK
<1>5. RequestInv(c)'
  BY <1>2 DEF RequestInv, Idle, Calls
<1> QED
  BY <1>1, <1>2, <1>4, <1>5, RequestStays DEF GatewayInv, IssuedInv

LEMMA GatewayInit == Init => GatewayInv
<1> SUFFICES ASSUME Init PROVE GatewayInv OBVIOUS
<1>1. ReqTypeOK /\ IssuedInv
  BY DEF Init, ReqTypeOK, IssuedInv, Idle, Requests
<1>2. ASSUME NEW c \in Caller PROVE RequestInv(c)
  BY DEF Init, RequestInv, Idle, Calls
<1> QED BY <1>1, <1>2 DEF GatewayInv

LEMMA GatewayStep == GatewayInv /\ [Next]_gatewayVars => GatewayInv'
<1> SUFFICES ASSUME GatewayInv, [Next]_gatewayVars PROVE GatewayInv' OBVIOUS
<1>1. CASE UNCHANGED <<issued, req, done, trail>>
  <2>1. \A c \in Caller : RequestInv(c)'
    BY <1>1, RequestStays DEF GatewayInv
  <2> QED BY <1>1, <2>1 DEF GatewayInv, IssuedInv, ReqTypeOK
<1>2. ASSUME NEW c \in Caller, NEW w \in Wanted, NEW shown \in BOOLEAN,
             AskToken(c, w, shown)
      PROVE  GatewayInv'
  BY <1>2, AskTokenStep
<1>3. ASSUME NEW c \in Caller, NEW route \in Routes, Request(c, route)
      PROVE  GatewayInv'
  BY <1>3, RequestStep
<1>4. ASSUME NEW c \in Caller,
             Perform(c) \/ Reply(c) \/ Fail(c) \/ Audit(c) \/ Leave(c)
      PROVE  GatewayInv'
  BY <1>4, PerformStep, ReplyStep, FailStep, AuditStep, LeaveStep
<1> QED BY <1>1, <1>2, <1>3, <1>4 DEF Next, gatewayVars

\* What the services are made to do is what a token permits, in the order of
\* its route, however many requests, late answers and lost calls cross.
THEOREM OnlyTheAllowedIsDone == Spec => []DoneIsAllowed
<1>1. Spec => []GatewayInv
  BY GatewayInit, GatewayStep, PTL DEF Spec
<1> QED BY <1>1, InvIsDoneAllowed, PTL

\* Every variable of the gateway has its type, and a bucket its bounds.
THEOREM GatewayTypeCorrect == Spec => []TypeOK
<1>1. Spec => []GatewayInv
  BY GatewayInit, GatewayStep, PTL DEF Spec
<1>2. Spec => []RateInv
  BY RateInitInv, RateStep, GatewayImplementsRateLimit, PTL DEF RateSpec
<1>3. GatewayInv /\ RateInv => TypeOK
  BY DEF GatewayInv, IssuedInv, ReqTypeOK, Requests, TypeOK
<1> QED BY <1>1, <1>2, <1>3, PTL
===============================================================================
