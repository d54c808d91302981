------------------------------- MODULE Scoring -------------------------------
(***************************************************************************)
(* The three ways a file's measurements reach the model of the ML engine,  *)
(* and what is made of its answer: handle_event and pipeline.run in the    *)
(* Monitor, POST /features behind the gateway's /analyze, and the          *)
(* dashboard, which scores an event again from what it shows.              *)
(*                                                                         *)
(* One file, of at least a byte.  What it holds when it is looked at, by   *)
(* what name, and which of  a look's two reads meet a lock, is up to the   *)
(* programs that use it.  The model may be replaced between two requests;  *)
(* the ML engine may be down, or up without a model.  The model is         *)
(* arbitrary: any set of vectors may alarm it.  What a verdict flags is a  *)
(* set of contents, FileRead.tla and Detection.tla have its rules, and     *)
(* Governance.tla those that may suppress an alert.                        *)
(***************************************************************************)
EXTENDS Integers, Sequences, FiniteSets

CONSTANTS
  Content,   \* what the file may be: its bytes, under a name
  Measured,  \* what a read of each content measures
  Flagged,   \* the contents a verdict calls suspicious for their bytes
  Renamed,   \* those under a name with a ransom extension
  MaxEvent,  \* bound on events
  MaxModel,  \* bound on models trained one after the other
  MaxAlarm   \* bound on the vectors that alarm a model

\* The keys of a /predict body.  "magic_bytes" is 1 for a declared container
\* and stands for container_format too; "statistics" for the three byte
\* statistics, "blocks" for the block profile; file_size is left out.
Input == {"shannon_entropy", "magic_bytes", "container_valid",
        "ransom_extension", "statistics", "blocks"}
Null == 9 \* JSON's null, as a value of any key
Reading == [entropy : 0 .. 8, magic : BOOLEAN, valid : {0, 1, Null},
            statistics : 0 .. 8, blocks : 0 .. 8]

\* What the constants must satisfy.
ScoringAssumption ==
  /\ Measured \in [Content -> Reading] /\ Flagged \subseteq Content
  /\ Renamed \subseteq Content
  /\ {MaxEvent, MaxModel, MaxAlarm} \subseteq Nat

VARIABLES
  trained,      \* models trained so far; the newest is on disk
  alarming,     \* the vectors each model is sure, or unsure, about
  loaded,       \* the ML engine's model; 0: down, or up without one
  events,       \* the Monitor's events, oldest first
  jobs,         \* features queued for the pipeline, by event
  acted,        \* what the pipeline made of each event
  shown,        \* what the dashboard shows
  analyzed      \* the last answer of /analyze

vars == <<trained, alarming, loaded, events, jobs, acted, shown, analyzed>>
Engine == <<trained, alarming, loaded>>

-------------------------------------------------------------------------------
(* ml-engine/features.py and the answer of /predict.                       *)

Bit(b) == IF b THEN 1 ELSE 0
Scored(p, key, otherwise) == IF key \in DOMAIN p THEN p[key] ELSE otherwise

\* _structural_validity: null and absent are 0, not the -1 of a forgery.
StructuralValidity(p) ==
  LET value == Scored(p, "container_valid", Null)
  IN IF value = 1 THEN 1 ELSE IF value = 0 THEN -1 ELSE 0

\* features_to_vector.  What the caller did not measure is interpolated
\* from the entropy; a null entropy is a zero.
ToVector(p) ==
  LET sent == Scored(p, "shannon_entropy", 0)
      entropy == IF sent = Null THEN 0 ELSE sent
  IN <<entropy, Scored(p, "magic_bytes", 0), StructuralValidity(p),
       Scored(p, "ransom_extension", 0), Scored(p, "statistics", entropy),
       Scored(p, "blocks", entropy)>>

\* predict and threat_level_from.  NoAnswer: 503, or nobody there.
Levels == <<"low", "medium", "high", "critical">>
Rank(level) == CHOOSE i \in 1 .. 4 : Levels[i] = level
NoAnswer == [ransomware |-> FALSE, level |-> "low", model |-> 0,
             vector |-> <<>>]
Answer(p) ==
  LET v == ToVector(p)
      level == IF v \in alarming[loaded].sure THEN "critical"
               ELSE IF v \in alarming[loaded].unsure THEN "medium" ELSE "low"
  IN [ransomware |-> level # "low", level |-> level, model |-> loaded,
      vector |-> v]
Predictions(p) ==
  {NoAnswer} \cup (IF loaded > 0 THEN {Answer(p)} ELSE {})

-------------------------------------------------------------------------------
(* What the Monitor and the dashboard send.                                *)

\* The two reads of a look: the leading bytes, which decide whether it counts
\* as readable, and the sample.  Each obtains its bytes or meets a lock, taken
\* or let go of since the other; a structure is checked on both.
Reads == {"magic", "sample"}
Read(c, got) ==
  LET found == Measured[c]
      Sampled(n) == IF "sample" \in got THEN n ELSE 0
  IN [entropy |-> Sampled(found.entropy),
      magic |-> "magic" \in got /\ found.magic,
      valid |-> IF got = Reads THEN found.valid ELSE Null,
      statistics |-> Sampled(found.statistics),
      blocks |-> Sampled(found.blocks)]

\* extract_features, and the features handle_event queues with an alert.
Features(c, got) ==
  LET r == Read(c, got)
  IN [shannon_entropy |-> r.entropy, magic_bytes |-> Bit(r.magic),
      container_valid |-> r.valid, ransom_extension |-> Bit(c \in Renamed),
      statistics |-> r.statistics, blocks |-> r.blocks]

\* classify: a ransom extension is an alert with no bytes read at all, what
\* the bytes tell is one when they were.
Suspicious(c, got) == c \in Renamed \/ (got = Reads /\ c \in Flagged)

\* The event handle_event keeps.  Its entropy is the verdict's, null when the
\* look counted as unreadable; a rule may have suppressed the alert.
Event(c, got, suppressed) ==
  [features |-> [Features(c, got) EXCEPT
                   !.shannon_entropy = IF "magic" \in got THEN @ ELSE Null],
   suspicious |-> Suspicious(c, got) /\ ~suppressed, of |-> c, got |-> got]

\* Not the code: bool() of the tri-state, and the block profile not sent.
RequestCollapsed(e) ==
  [k \in Input \ {"blocks"} |->
     IF k = "container_valid" THEN Bit(e.features[k] = 1)
     ELSE e.features[k]]
\* prediction_request: a null entropy is sent as 0.
PredictionRequest(e) ==
  [e.features EXCEPT !.shannon_entropy = IF @ = Null THEN 0 ELSE @]

Higher(a, b) == IF Rank(a) >= Rank(b) THEN a ELSE b
\* Not the code: the model overrules the Monitor.
ModelOnly(level, suspicious) == level
\* effective_threat_level, and the same rule in system_decision.
EffectiveLevel(level, suspicious) ==
  Higher(level, IF suspicious THEN "high" ELSE "low")

-------------------------------------------------------------------------------
NothingShown == [event |-> 0, threat |-> FALSE, level |-> "low",
                 answer |-> NoAnswer]
NotAnalyzed == [of |-> {}, got |-> {}, answer |-> NoAnswer]
\* Every vector a model may be asked about.
Vectors ==
  UNION {{ToVector(Features(c, got)),
          ToVector(PredictionRequest(Event(c, got, FALSE)))} :
           c \in Content, got \in SUBSET Reads}

Init ==
  /\ trained = 0 /\ loaded = 0
  /\ \E alarms \in {v \in SUBSET Vectors : Cardinality(v) <= MaxAlarm} :
       alarming \in [1 .. MaxModel ->
         {[sure |-> v, unsure |-> alarms \ v] : v \in SUBSET alarms}]
  /\ events = <<>> /\ jobs = {} /\ acted = <<>>
  /\ shown = NothingShown /\ analyzed = NotAnalyzed

\* The training scripts write a model; a running engine does not see it.
Train ==
  /\ trained < MaxModel /\ trained' = trained + 1
  /\ UNCHANGED <<alarming, loaded, events, jobs, acted, shown, analyzed>>

\* load_artifacts, once per start: the newest model, from then on.  That the
\* engine is down, or up without a model, is NoAnswer to whoever asks.
StartEngine ==
  /\ loaded # trained /\ loaded' = trained
  /\ UNCHANGED <<trained, alarming, events, jobs, acted, shown, analyzed>>

\* handle_event: an event, and a job for the pipeline when it is an alert.
\* The job has what was measured, of a look that counted as unreadable too.
HandleEvent(c, got, suppressed) ==
  LET event == Event(c, got, suppressed)
  IN /\ Len(events) < MaxEvent
     /\ events' = Append(events, event)
     /\ acted' = Append(acted, NothingShown)
     /\ jobs' = IF event.suspicious
                THEN jobs \cup {[event |-> Len(events) + 1,
                                 features |-> Features(c, got)]}
                ELSE jobs
     /\ UNCHANGED <<Engine, shown, analyzed>>

\* pipeline.run scores the alert and takes the higher of the two levels.
RunPipeline(j) ==
  /\ \E a \in Predictions(j.features) :
       acted' = [acted EXCEPT ![j.event] =
         [event |-> j.event, threat |-> TRUE, answer |-> a,
          level |-> EffectiveLevel(a.level, events[j.event].suspicious)]]
  /\ jobs' = jobs \ {j}
  /\ UNCHANGED <<Engine, events, shown, analyzed>>

\* live_view: the newest alert, or the newest event, scored again.
Focus ==
  LET alerts == {i \in DOMAIN events : events[i].suspicious}
      from == IF alerts = {} THEN DOMAIN events ELSE alerts
  IN CHOOSE i \in from : \A k \in from : k <= i

Show ==
  /\ events # <<>>
  /\ \E a \in Predictions(PredictionRequest(events[Focus])) :
       shown' = [event |-> Focus, answer |-> a,
                 threat |-> a.ransomware \/ events[Focus].suspicious,
                 level |-> EffectiveLevel(a.level, events[Focus].suspicious)]
  /\ UNCHANGED <<Engine, events, jobs, acted, analyzed>>

\* POST /analyze: measured now, scored, answered; without an answer of the ML
\* engine it answers 503 itself.
Analyze(c, got) ==
  /\ loaded > 0
  /\ analyzed' = [of |-> {c}, got |-> got, answer |-> Answer(Features(c, got))]
  /\ UNCHANGED <<Engine, events, jobs, acted, shown>>

Next ==
  \/ Train \/ StartEngine \/ Show
  \/ \E c \in Content, got \in SUBSET Reads :
       \/ Analyze(c, got)
       \/ \E suppressed \in BOOLEAN : HandleEvent(c, got, suppressed)
  \/ \E j \in jobs : RunPipeline(j)

Spec == Init /\ [][Next]_vars

-------------------------------------------------------------------------------
\* Every variable has its type.
TypeOK ==
  /\ trained \in 0 .. MaxModel /\ loaded \in 0 .. trained
  /\ Len(events) <= MaxEvent /\ Len(acted) = Len(events)
  /\ \A j \in jobs : j.event \in DOMAIN events
  /\ shown.event \in 0 .. Len(events) /\ analyzed.of \subseteq Content

\* The look behind an event read its sample and not its leading bytes: the
\* event says that nothing was measured, the queued features what was.
Torn(e) == e.got = {"sample"}
\* The last /analyze measured the same: the same reads of the same content, or
\* nothing of either.  Its name counts as content, it is always known.
Remeasured(e) ==
  /\ analyzed.got = e.got
  /\ \E c \in analyzed.of :
       IF e.got = {} THEN c \in Renamed <=> e.of \in Renamed ELSE c = e.of

\* One file has one score: two answers of one model about one measurement, by
\* whichever two ways it came in, are the same answer, also for an alert about
\* a file of which nothing could be read (detection.py:450-458,
\* urds_ui.py:243-250).  The dashboard is excepted for a torn look: it scores
\* the event's null as a zero, the pipeline the entropy that was measured.
OneFileOneScore ==
  LET alike(a, b) == a.model # 0 /\ a.model = b.model => a = b
  IN \A i \in DOMAIN events :
       /\ acted[i].event = i /\ Remeasured(events[i])
          => alike(acted[i].answer, analyzed.answer)
       /\ shown.event = i /\ ~Torn(events[i]) =>
            /\ acted[i].event = i => alike(shown.answer, acted[i].answer)
            /\ Remeasured(events[i]) => alike(shown.answer, analyzed.answer)

\* An alert is never played down, whatever the model answers and whether or
\* not it answers, and whatever of the file could be read: the pipeline acts on
\* it as high at least, the dashboard shows it so, and where one model served
\* both they show the same level, but for a torn look (pipeline.py:51-71,
\* urds_ui.py:290-298).
AlertIsNeverPlayedDown ==
  \A i \in DOMAIN events : events[i].suspicious =>
    \A d \in {acted[i], shown} : d.event = i =>
      /\ d.threat /\ Rank(d.level) >= Rank("high")
      /\ (/\ ~Torn(events[i])
          /\ d.answer.model # 0 /\ d.answer.model = acted[i].answer.model)
         => d.level = acted[i].level
=============================================================================
