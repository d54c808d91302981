---------------------------- MODULE ResponseProofs ----------------------------
(***************************************************************************)
(* The Response service beside its leases, for every value of the          *)
(* constants.  A block or a kill names only whom a CERTAIN answer named,   *)
(* however the event's fields are read and updated, and a request is       *)
(* answered by what was done.  A flagged content is certified only where   *)
(* the reference went wrong first, and what a restore says of a file is    *)
(* true of the copy it was asked to use.                                   *)
(***************************************************************************)
EXTENDS MCResponse, Integers, Sequences, FiniteSetTheorems, TLAPS

LEMMA FanoutHolds ==
  /\ F_Writer # F_Other /\ F_NoPid \notin {F_Writer, F_Other}
  /\ F_MaxGen \in Nat \ {0}
  /\ F_Backends \subseteq {"off", "none", "iptables", "netsh", "pfctl"}
BY ResponseAssumption DEF ResponseAssumption, F!FanoutAssumption

-------------------------------------------------------------------------------
(* The fan-out: the answers, what the drain has read, what was asked.      *)

Drains == [at : {"idle", "read_pid", "log", "read_pid_again", "ask", "wait", "end"},
           inc : F_Incident \cup {0}, pid : F!Process \cup {F_NoPid},
           level : {"low", "high", "critical"}]

FanoutTypes ==
  /\ F!TypeOK /\ F_drain \in Drains
  /\ F_drain.at # "idle" => F_drain.inc \in F_Incident
  /\ \A b \in F_chain : b.inc \in F_Incident

\* The answer the event shows.
Shown(ques, first, closing) == IF ques \in {"shown", "closed"} THEN closing ELSE first

\* A certain answer names the writer, and no other answer of its incident
\* names anybody else.
AnswersAgree ==
  \A i \in F_Incident :
    /\ F_ques[i] \in {"none", "never", "open"} => F_closing[i] = F!NoAnswer
    /\ F_ques[i] = "none" => F_first[i] = F!NoAnswer
    /\ F_ques[i] \notin {"none", "never"} => F_first[i].conf # "certain"
    /\ F_first[i].conf = "certain" => F_first[i].pid = F_Writer
    /\ F_closing[i].conf = "certain" =>
         F_closing[i].pid = F_Writer /\ F_first[i].pid \in {F_NoPid, F_Writer}
    /\ F_event[i].pid = Shown(F_ques[i], F_first[i], F_closing[i]).pid
    /\ F_event[i].conf = Shown(F_ques[i], F_first[i], F_closing[i]).conf

\* The PID the drain goes by is one the event showed.
DrainRead ==
  F_drain.pid # F_NoPid =>
    /\ F_drain.at # "idle"
    /\ F_drain.pid \in {F_first[F_drain.inc].pid, F_closing[F_drain.inc].pid}

KillsNamed ==
  \A i \in F_Incident :
    /\ F_trig[i].kill => F!Named(i, F_trig[i].pid)
    /\ F_term[i].at = "guard" => F!Named(i, F_term[i].pid)

BlocksNamed == \A b \in F_chain : b.pid # F_NoPid => F!Named(b.inc, b.pid)

\* A request that is about a process holds one that was there; its isolation
\* has applied the commands before its step.
Kept(r, gen, alive, b, rules) ==
  /\ r.at \in {"guard", "open", "signal", "crashed"} => r.kill
  /\ r.at \in {"guard", "open", "signal"} => r.acts = {}
  /\ r.kill => r.pid \in F!Process /\ r.gen <= gen[r.pid]
  /\ "terminated" \in r.acts => r.kill /\ ~(alive[r.pid] /\ gen[r.pid] = r.gen)
  /\ r.at \in {"report", "done"} => r.acts \cap {"isolated", "planned"} # {}
  /\ \A n \in DOMAIN F!Commands(b) :
       n < r.step /\ b # "pfctl" => F!Commands(b)[n] \in rules
  /\ "isolated" \in r.acts => r.step > Len(F!Commands(b))
RequestsKept ==
  \A i \in F_Incident : Kept(F_trig[i], F_gen, F_alive, F_backend, F_rules)

\* Every event is asked about; whoever waits for a reply, or has one, asked.
AskedFor ==
  /\ F_drain.at # "end"
  /\ F_drain.at = "wait" => F_trig[F_drain.inc].at # "none"
  /\ \A k \in DOMAIN F_tail : F_trig[F_tail[k]].at # "none"
  /\ \A i \in F_ended : F_trig[i].at # "none"

FanoutInv ==
  /\ FanoutTypes /\ AnswersAgree /\ DrainRead /\ KillsNamed /\ BlocksNamed
  /\ RequestsKept /\ AskedFor

LEMMA CommandsAre ==
  ASSUME NEW b
  PROVE  /\ Len(F!Commands(b)) \in 0 .. 4
         /\ DOMAIN F!Commands(b) = 1 .. Len(F!Commands(b))
<1>1. CASE b = "iptables"
  BY <1>1 DEF F!Commands
<1>2. CASE b = "netsh"
  BY <1>2 DEF F!Commands
<1>3. CASE b = "pfctl"
  BY <1>3 DEF F!Commands
<1>4. CASE b \notin {"iptables", "netsh", "pfctl"}
  <2>1. F!Commands(b) = <<>>
    BY <1>4 DEF F!Commands
  <2> QED BY <2>1
<1> QED BY <1>1, <1>2, <1>3, <1>4

LEMMA FanoutInit == F!Init => FanoutInv
<1> SUFFICES ASSUME F!Init PROVE FanoutInv
  OBVIOUS
<1>1. F!NoAnswer \in F!Answer /\ F!NoRequest \in F!Request
  BY FanoutHolds DEF F!NoAnswer, F!Answer, F!Conf, F!NoRequest, F!Request
<1>2. FanoutTypes
  <2>1. F_gen \in [F!Process -> 1 .. F_MaxGen] /\ F_alive \in [F!Process -> BOOLEAN]
    BY FanoutHolds DEF F!Init
  <2>2. <<>> \in Seq(F_Incident)
    OBVIOUS
  <2>3. F_event \in [F_Incident -> [pid : F!Process \cup {F_NoPid}, conf : F!Conf]]
    BY DEF F!Init, F!Conf
  <2>4. F_drain \in Drains /\ F_drain.at = "idle"
    BY DEF F!Init, F!IdleDrain, Drains
  <2> QED BY <1>1, <2>1, <2>2, <2>3, <2>4 DEF F!Init, FanoutTypes, F!TypeOK
<1>3. AnswersAgree
  BY FanoutHolds DEF F!Init, AnswersAgree, F!NoAnswer, Shown
<1>4. DrainRead /\ KillsNamed /\ BlocksNamed
  BY DEF F!Init, DrainRead, KillsNamed, BlocksNamed, F!IdleDrain, F!NoRequest
<1>5. RequestsKept
  <2>1. Kept(F!NoRequest, F_gen, F_alive, F_backend, F_rules)
    BY CommandsAre DEF Kept, F!NoRequest
  <2> QED BY <2>1 DEF RequestsKept, F!Init
<1>6. AskedFor
  BY DEF F!Init, AskedFor, F!IdleDrain
<1> QED BY <1>2, <1>3, <1>4, <1>5, <1>6 DEF FanoutInv

-------------------------------------------------------------------------------
(* The answers: only the lane and escalation threads change them.          *)

\* An answer that was given is still there.
NamesStay ==
  \A i \in F_Incident : \A a \in {F_first[i], F_closing[i]} :
    a = F!NoAnswer \/ a \in {F_first'[i], F_closing'[i]}

AnswerTypes ==
  /\ F_first \in [F_Incident -> F!Answer] /\ F_closing \in [F_Incident -> F!Answer]
  /\ F_ques \in [F_Incident -> {"none", "never", "open", "acting", "shown", "closed"}]
  /\ F_event \in [F_Incident -> [pid : F!Process \cup {F_NoPid}, conf : F!Conf]]

LEMMA AnswersSame ==
  ASSUME FanoutInv, UNCHANGED <<F_first, F_closing, F_ques, F_event>>
  PROVE  AnswersAgree' /\ AnswerTypes' /\ NamesStay
BY DEF FanoutInv, FanoutTypes, F!TypeOK, AnswersAgree, AnswerTypes, NamesStay, F!Named

LEMMA CorrelateAnswers ==
  ASSUME FanoutInv, NEW i \in F_Incident, NEW a \in F!FirstAnswers, F!Correlate(i, a)
  PROVE  AnswersAgree' /\ AnswerTypes' /\ NamesStay
<1>1. /\ AnswerTypes /\ AnswersAgree
      /\ a \in F!Answer /\ (a.conf = "certain" => a.pid = F_Writer /\ ~a.pending)
  BY DEF FanoutInv, FanoutTypes, F!TypeOK, AnswerTypes, F!FirstAnswers
<1>2. /\ F_ques[i] = "none" /\ F_first[i] = F!NoAnswer /\ F_closing[i] = F!NoAnswer
      /\ F_first'[i] = a /\ F_closing' = F_closing
      /\ F_event'[i] = [pid |-> a.pid, conf |-> a.conf]
      /\ F_ques'[i] = IF a.pending THEN "open" ELSE "never"
      /\ \A j \in F_Incident : j # i =>
           /\ F_first'[j] = F_first[j] /\ F_event'[j] = F_event[j]
           /\ F_ques'[j] = F_ques[j]
  BY <1>1 DEF F!Correlate, AnswerTypes, AnswersAgree
<1>3. AnswerTypes'
  <2>1. /\ [pid |-> a.pid, conf |-> a.conf]
             \in [pid : F!Process \cup {F_NoPid}, conf : F!Conf]
        /\ (IF a.pending THEN "open" ELSE "never") \in {"open", "never"}
    BY <1>1 DEF F!Answer
  <2> QED BY <1>1, <2>1 DEF F!Correlate, AnswerTypes
<1>4. ASSUME NEW j \in F_Incident
      PROVE  /\ F_ques'[j] \in {"none", "never", "open"} => F_closing'[j] = F!NoAnswer
             /\ F_ques'[j] = "none" => F_first'[j] = F!NoAnswer
             /\ F_ques'[j] \notin {"none", "never"} => F_first'[j].conf # "certain"
             /\ F_first'[j].conf = "certain" => F_first'[j].pid = F_Writer
             /\ F_closing'[j].conf = "certain" =>
                  /\ F_closing'[j].pid = F_Writer
                  /\ F_first'[j].pid \in {F_NoPid, F_Writer}
             /\ F_event'[j].pid = Shown(F_ques'[j], F_first'[j], F_closing'[j]).pid
             /\ F_event'[j].conf = Shown(F_ques'[j], F_first'[j], F_closing'[j]).conf
  <2>1. CASE j = i
    BY <1>1, <1>2, <2>1 DEF F!NoAnswer, Shown
  <2>2. CASE j # i
    BY <1>1, <1>2, <2>2 DEF AnswersAgree
  <2> QED BY <2>1, <2>2
<1>5. NamesStay
  BY <1>2, FanoutHolds DEF NamesStay, F!Named, F!NoAnswer, F!Process
<1> QED BY <1>3, <1>4, <1>5 DEF AnswersAgree

LEMMA CloseAnswers ==
  ASSUME FanoutInv, NEW i \in F_Incident, NEW a \in F!ClosingAnswers(F_first[i]),
         F!CloseAndAct(i, a)
  PROVE  AnswersAgree' /\ AnswerTypes' /\ NamesStay
<1>1. /\ AnswerTypes /\ AnswersAgree /\ a \in F!Answer
      /\ a.conf = "certain" =>
           a.pid = F_Writer /\ F_first[i].pid \in {F_NoPid, F_Writer}
  BY DEF FanoutInv, FanoutTypes, F!TypeOK, AnswerTypes, F!FirstAnswers, F!ClosingAnswers
<1>2. /\ F_ques[i] = "open" /\ F_closing[i] = F!NoAnswer
      /\ F_first[i].conf # "certain"
      /\ F_closing'[i] = a /\ F_ques'[i] = "acting"
      /\ F_first' = F_first /\ F_event' = F_event
      /\ \A j \in F_Incident : j # i =>
           F_closing'[j] = F_closing[j] /\ F_ques'[j] = F_ques[j]
  BY <1>1 DEF F!CloseAndAct, AnswerTypes, AnswersAgree
<1>3. AnswerTypes'
  BY <1>1 DEF F!CloseAndAct, AnswerTypes
<1>5. ASSUME NEW j \in F_Incident
      PROVE  /\ F_ques'[j] \in {"none", "never", "open"} => F_closing'[j] = F!NoAnswer
             /\ F_ques'[j] = "none" => F_first'[j] = F!NoAnswer
             /\ F_ques'[j] \notin {"none", "never"} => F_first'[j].conf # "certain"
             /\ F_first'[j].conf = "certain" => F_first'[j].pid = F_Writer
             /\ F_closing'[j].conf = "certain" =>
                  /\ F_closing'[j].pid = F_Writer
                  /\ F_first'[j].pid \in {F_NoPid, F_Writer}
             /\ F_event'[j].pid = Shown(F_ques'[j], F_first'[j], F_closing'[j]).pid
             /\ F_event'[j].conf = Shown(F_ques'[j], F_first'[j], F_closing'[j]).conf
  <2>1. CASE j = i
    BY <1>1, <1>2, <2>1 DEF AnswersAgree, Shown
  <2>2. CASE j # i
    BY <1>1, <1>2, <2>2 DEF AnswersAgree
  <2> QED BY <2>1, <2>2
<1>6. NamesStay
  BY <1>2, FanoutHolds DEF NamesStay, F!Named, F!NoAnswer, F!Process
<1> QED BY <1>3, <1>5, <1>6 DEF AnswersAgree

LEMMA ShowAnswers ==
  ASSUME FanoutInv, NEW i \in F_Incident, F!ShowClosed(i) \/ F!RecordEscalation(i)
  PROVE  AnswersAgree' /\ AnswerTypes' /\ NamesStay
<1>1. AnswerTypes /\ AnswersAgree
  BY DEF FanoutInv, FanoutTypes, F!TypeOK, AnswerTypes
<1>2. F_first' = F_first /\ F_closing' = F_closing
  BY DEF F!ShowClosed, F!RecordEscalation
<1>3. CASE F!ShowClosed(i)
  <2>1. /\ F_ques[i] = "acting" /\ F_ques'[i] = "shown"
        /\ F_event'[i] = [pid |-> F_closing[i].pid, conf |-> F_closing[i].conf]
        /\ \A j \in F_Incident : j # i =>
             F_event'[j] = F_event[j] /\ F_ques'[j] = F_ques[j]
    BY <1>1, <1>3 DEF F!ShowClosed, AnswerTypes
  <2>2. AnswerTypes'
    <3>1. [pid |-> F_closing[i].pid, conf |-> F_closing[i].conf]
             \in [pid : F!Process \cup {F_NoPid}, conf : F!Conf]
      BY <1>1 DEF AnswerTypes, F!Answer
    <3> QED BY <1>1, <1>3, <3>1 DEF F!ShowClosed, AnswerTypes
  <2>3. AnswersAgree'
    BY <1>1, <1>2, <2>1 DEF AnswersAgree, Shown
  <2> QED BY <1>2, <2>2, <2>3 DEF NamesStay, F!Named
<1>4. CASE F!RecordEscalation(i)
  <2>1. /\ F_ques[i] = "shown" /\ F_ques'[i] = "closed" /\ F_event' = F_event
        /\ \A j \in F_Incident : j # i => F_ques'[j] = F_ques[j]
    BY <1>1, <1>4 DEF F!RecordEscalation, AnswerTypes
  <2>2. AnswerTypes'
    BY <1>1, <1>4 DEF F!RecordEscalation, AnswerTypes
  <2>3. AnswersAgree'
    BY <1>1, <1>2, <2>1 DEF AnswersAgree, Shown
  <2> QED BY <1>2, <2>2, <2>3 DEF NamesStay, F!Named
<1> QED BY <1>3, <1>4

\* The steps by who takes them: the drain and the tail thread, the Response
\* service, and the processes.
DrainSteps ==
  F!Predict \/ F!ReadPid \/ F!LogFileEvent \/ F!Trigger \/ F!Reply \/ F!NoReply
    \/ F!WriteTail
ServiceSteps ==
  \E i \in F_Incident :
    \/ F!GuardTrigger(i) \/ F!OpenTrigger(i) \/ F!SignalTrigger(i)
    \/ F!Isolate(i) \/ F!Report(i) \/ F!Terminate(i)
HostSteps == F!Exit(F_Writer) \/ F!Reuse(F_Writer)

LEMMA OthersKeepAnswers ==
  ASSUME DrainSteps \/ ServiceSteps \/ HostSteps
  PROVE  UNCHANGED <<F_first, F_closing, F_ques, F_event>>
<1>1. DrainSteps => UNCHANGED <<F_first, F_closing, F_ques, F_event>>
  BY DEF DrainSteps, F!Predict, F!ReadPid, F!LogFileEvent, F!Trigger, F!Reply,
         F!NoReply, F!WriteTail, F!Answers
<1>2. ServiceSteps => UNCHANGED <<F_first, F_closing, F_ques, F_event>>
  BY DEF ServiceSteps, F!GuardTrigger, F!OpenTrigger, F!SignalTrigger, F!Isolate,
         F!Report, F!Terminate, F!Answers
<1>3. HostSteps => UNCHANGED <<F_first, F_closing, F_ques, F_event>>
  BY DEF HostSteps, F!Exit, F!Reuse, F!Answers
<1> QED BY <1>1, <1>2, <1>3

LEMMA FanoutAnswers ==
  ASSUME FanoutInv, F!Next
  PROVE  AnswersAgree' /\ AnswerTypes' /\ NamesStay
<1>1. CASE DrainSteps \/ ServiceSteps \/ HostSteps
  BY <1>1, OthersKeepAnswers, AnswersSame
<1>2. ASSUME NEW i \in F_Incident, NEW a \in F!FirstAnswers, F!Correlate(i, a)
      PROVE  AnswersAgree' /\ AnswerTypes' /\ NamesStay
  BY <1>2, CorrelateAnswers
<1>3. ASSUME NEW i \in F_Incident, NEW a \in F!ClosingAnswers(F_first[i]),
             F!CloseAndAct(i, a)
      PROVE  AnswersAgree' /\ AnswerTypes' /\ NamesStay
  BY <1>3, CloseAnswers
<1>4. ASSUME NEW i \in F_Incident, F!ShowClosed(i) \/ F!RecordEscalation(i)
      PROVE  AnswersAgree' /\ AnswerTypes' /\ NamesStay
  BY <1>4, ShowAnswers
<1> QED
  BY <1>1, <1>2, <1>3, <1>4 DEF F!Next, DrainSteps, ServiceSteps, HostSteps

-------------------------------------------------------------------------------
(* What stays true while a step leaves its subject alone.                  *)

\* F!Named, after the step.
NamedAfter(i, pid) ==
  \E a \in {F_first'[i], F_closing'[i]} : a.conf = "certain" /\ a.pid = pid

LEMMA NamedStays ==
  ASSUME NamesStay, NEW i \in F_Incident, NEW pid, F!Named(i, pid)
  PROVE  NamedAfter(i, pid)
BY DEF NamesStay, F!Named, NamedAfter, F!NoAnswer

LEMMA PidStays ==
  ASSUME NamesStay, NEW i \in F_Incident, NEW pid, pid # F_NoPid,
         pid \in {F_first[i].pid, F_closing[i].pid}
  PROVE  pid \in {F_first'[i].pid, F_closing'[i].pid}
BY DEF NamesStay, F!NoAnswer

\* The requests that name a process, by what a step leaves of them.
LEMMA KillsStay ==
  ASSUME KillsNamed, NamesStay,
         NEW trig, NEW term, trig = F_trig', term = F_term',
         \A i \in F_Incident :
           /\ trig[i].kill =>
                \/ F_trig[i].kill /\ trig[i].pid = F_trig[i].pid
                \/ NamedAfter(i, trig[i].pid)
           /\ term[i].at = "guard" =>
                \/ F_term[i].at = "guard" /\ term[i].pid = F_term[i].pid
                \/ NamedAfter(i, term[i].pid)
  PROVE  KillsNamed'
<1>1. ASSUME NEW i \in F_Incident
      PROVE  /\ trig[i].kill => NamedAfter(i, trig[i].pid)
             /\ term[i].at = "guard" => NamedAfter(i, term[i].pid)
  BY NamedStays DEF KillsNamed
<1> QED BY <1>1 DEF KillsNamed, F!Named, NamedAfter

ChainTypes == \A b \in F_chain : b.inc \in F_Incident

LEMMA BlocksStay ==
  ASSUME BlocksNamed, ChainTypes, NamesStay, NEW b, F!Logged(b),
         b.inc \in F_Incident, b.pid # F_NoPid => NamedAfter(b.inc, b.pid)
  PROVE  ChainTypes' /\ BlocksNamed'
BY NamedStays DEF BlocksNamed, ChainTypes, F!Named, NamedAfter, F!Logged

LEMMA ChainStays ==
  ASSUME BlocksNamed, ChainTypes, NamesStay, UNCHANGED F_chain
  PROVE  ChainTypes' /\ BlocksNamed'
BY NamedStays DEF BlocksNamed, ChainTypes, F!Named, NamedAfter

\* What was written of a process stays true of it, and the rules stay.
LEMMA KeptStays ==
  ASSUME NEW r \in F!Request, NEW b, NEW rules, NEW rules2, rules \subseteq rules2,
         NEW gen \in [F!Process -> Nat], NEW gen2 \in [F!Process -> Nat],
         NEW alive, NEW alive2,
         \A p \in F!Process : /\ gen[p] <= gen2[p]
                              /\ alive2[p] /\ gen2[p] = gen[p] => alive[p],
         Kept(r, gen, alive, b, rules)
  PROVE  Kept(r, gen2, alive2, b, rules2)
<1>1. r.gen \in Nat
  BY FanoutHolds DEF F!Request
<1>2. r.kill => r.pid \in F!Process /\ r.gen <= gen2[r.pid]
  BY <1>1 DEF Kept
<1>3. "terminated" \in r.acts => r.kill /\ ~(alive2[r.pid] /\ gen2[r.pid] = r.gen)
  BY <1>1 DEF Kept
<1>4. \A n \in DOMAIN F!Commands(b) :
        n < r.step /\ b # "pfctl" => F!Commands(b)[n] \in rules2
  BY DEF Kept
<1> QED BY <1>2, <1>3, <1>4 DEF Kept

HostMoves ==
  /\ F_gen' \in [F!Process -> 1 .. F_MaxGen] /\ F_alive' \in [F!Process -> BOOLEAN]
  /\ \A p \in F!Process :
       /\ F_gen[p] <= F_gen'[p]
       /\ F_alive'[p] /\ F_gen'[p] = F_gen[p] => F_alive[p]

LEMMA RequestsStay ==
  ASSUME FanoutTypes, RequestsKept, HostMoves, F_backend' = F_backend,
         F_rules \subseteq F_rules', NEW trig, trig = F_trig',
         \A i \in F_Incident :
           \/ trig[i] = F_trig[i]
           \/ Kept(trig[i], F_gen', F_alive', F_backend, F_rules')
  PROVE  RequestsKept'
<1>1. /\ F_gen \in [F!Process -> Nat] /\ F_gen' \in [F!Process -> Nat]
      /\ F_trig \in [F_Incident -> F!Request]
  BY FanoutHolds DEF FanoutTypes, F!TypeOK, HostMoves
<1>2. ASSUME NEW i \in F_Incident
      PROVE  Kept(trig[i], F_gen', F_alive', F_backend, F_rules')
  <2>1. CASE trig[i] = F_trig[i]
    <3>1. /\ Kept(F_trig[i], F_gen, F_alive, F_backend, F_rules)
          /\ F_trig[i] \in F!Request
      BY <1>1 DEF RequestsKept
    <3>2. \A p \in F!Process : /\ F_gen[p] <= F_gen'[p]
                               /\ F_alive'[p] /\ F_gen'[p] = F_gen[p] => F_alive[p]
      BY DEF HostMoves
    <3> QED BY <1>1, <2>1, <3>1, <3>2, KeptStays
  <2> QED BY <2>1
<1> QED BY <1>2 DEF RequestsKept

LEMMA HostStays ==
  ASSUME FanoutTypes, UNCHANGED <<F_gen, F_alive>>
  PROVE  HostMoves
BY FanoutHolds DEF FanoutTypes, F!TypeOK, HostMoves

LEMMA ProcessEnds ==
  ASSUME FanoutTypes, UNCHANGED F_gen,
         NEW p \in F!Process, F_alive' = [F_alive EXCEPT ![p] = FALSE]
  PROVE  HostMoves
BY FanoutHolds DEF FanoutTypes, F!TypeOK, HostMoves

DrainTypes ==
  /\ F_work \in Seq(F_Incident) /\ F_tail \in Seq(F_Incident)
  /\ F_ended \subseteq F_Incident /\ F_drain \in Drains
  /\ F_drain.at # "idle" =>
       F_drain.inc \in F_Incident /\ F_drain.level \in F!Actionable
RequestTypes ==
  /\ F_trig \in [F_Incident -> F!Request] /\ F_term \in [F_Incident -> F!Request]
  /\ F_backend \in F_Backends

LEMMA TypesOf ==
  ASSUME FanoutTypes
  PROVE  AnswerTypes /\ DrainTypes /\ RequestTypes /\ ChainTypes
BY DEF FanoutTypes, F!TypeOK, AnswerTypes, DrainTypes, RequestTypes, ChainTypes

LEMMA TypesFrom ==
  ASSUME HostMoves, AnswerTypes', DrainTypes', RequestTypes', ChainTypes'
  PROVE  FanoutTypes'
<1>1. F_drain'.at \in
        {"idle", "read_pid", "log", "read_pid_again", "ask", "wait", "end"}
  BY DEF DrainTypes, Drains
<1> QED
  BY <1>1 DEF FanoutTypes, F!TypeOK, HostMoves, AnswerTypes, DrainTypes, RequestTypes,
              ChainTypes

LEMMA AskedStays ==
  ASSUME AskedFor, UNCHANGED <<F_drain, F_tail, F_ended>>,
         NEW trig, trig = F_trig',
         \A i : F_trig[i].at # "none" => trig[i].at # "none"
  PROVE  AskedFor'
BY DEF AskedFor

LEMMA ReadStays ==
  ASSUME DrainTypes, DrainRead, NamesStay, DrainTypes',
         F_drain'.pid # F_NoPid =>
           /\ F_drain'.at # "idle" /\ F_drain'.inc = F_drain.inc
           /\ F_drain'.pid = F_drain.pid
  PROVE  DrainRead'
<1> SUFFICES ASSUME F_drain'.pid # F_NoPid
             PROVE  /\ F_drain'.at # "idle"
                    /\ F_drain'.pid \in {F_first'[F_drain'.inc].pid,
                                         F_closing'[F_drain'.inc].pid}
  BY DEF DrainRead
<1>1. /\ F_drain.at # "idle" /\ F_drain.inc \in F_Incident
      /\ F_drain.pid \in {F_first[F_drain.inc].pid, F_closing[F_drain.inc].pid}
  BY DEF DrainRead, DrainTypes
<1> QED BY <1>1, PidStays

LEMMA RequestsSame ==
  ASSUME FanoutInv, NamesStay, HostMoves,
         UNCHANGED <<F_trig, F_term, F_backend, F_rules>>
  PROVE  RequestTypes' /\ KillsNamed' /\ RequestsKept'
<1>1. RequestTypes'
  BY TypesOf DEF FanoutInv, RequestTypes
<1>2. KillsNamed'
  BY KillsStay DEF FanoutInv
<1>3. RequestsKept'
  BY RequestsStay DEF FanoutInv
<1> QED BY <1>1, <1>2, <1>3

\* The drain's own part, when a step leaves it alone.
LEMMA DrainSame ==
  ASSUME FanoutInv, NamesStay, UNCHANGED <<F_work, F_tail, F_ended, F_drain>>
  PROVE  DrainTypes' /\ DrainRead'
<1>1. DrainTypes'
  BY TypesOf DEF FanoutInv, DrainTypes
<1>2. DrainRead'
  BY <1>1, TypesOf, ReadStays DEF FanoutInv, DrainTypes, DrainRead
<1> QED BY <1>1, <1>2

-------------------------------------------------------------------------------
(* Every step keeps what is recorded and asked.                            *)

Recorded ==
  /\ DrainTypes /\ RequestTypes /\ ChainTypes /\ DrainRead /\ KillsNamed
  /\ BlocksNamed /\ RequestsKept /\ AskedFor

LEMMA HostRecords ==
  ASSUME FanoutInv, HostSteps
  PROVE  HostMoves /\ Recorded'
<1>1. UNCHANGED <<F_first, F_closing, F_ques, F_event, F_work, F_drain, F_tail, F_ended,
                  F_trig, F_term, F_backend, F_rules, F_chain>>
  BY DEF HostSteps, F!Exit, F!Reuse, F!Answers, F!Drain, F!Service
<1>2. HostMoves
  <2>1. CASE F!Exit(F_Writer)
    BY <2>1, FanoutHolds
       DEF F!Exit, FanoutInv, FanoutTypes, F!TypeOK, HostMoves, F!Process
  <2>2. CASE F!Reuse(F_Writer)
    BY <2>2, FanoutHolds
       DEF F!Reuse, FanoutInv, FanoutTypes, F!TypeOK, HostMoves, F!Process
  <2> QED BY <2>1, <2>2 DEF HostSteps
<1>3. NamesStay
  BY <1>1 DEF NamesStay
<1>4. ChainTypes' /\ BlocksNamed'
  BY <1>1, <1>3, TypesOf, ChainStays DEF FanoutInv
<1>5. AskedFor'
  BY <1>1 DEF FanoutInv, AskedFor
<1> QED BY <1>1, <1>2, <1>3, <1>4, <1>5, DrainSame, RequestsSame DEF Recorded

LEMMA CorrelateRecords ==
  ASSUME FanoutInv, NamesStay, NEW i \in F_Incident, NEW a, F!Correlate(i, a)
  PROVE  HostMoves /\ Recorded'
<1>1. UNCHANGED <<F_gen, F_alive, F_drain, F_tail, F_ended, F_trig, F_term, F_backend,
                  F_rules, F_chain>>
  BY DEF F!Correlate, F!Host, F!Service
<1>2. HostMoves
  BY <1>1, HostStays DEF FanoutInv
<1>3. DrainTypes' /\ DrainRead'
  <2>1. DrainTypes'
    BY <1>1, TypesOf DEF FanoutInv, DrainTypes, F!Correlate
  <2> QED BY <1>1, <2>1, TypesOf, ReadStays DEF FanoutInv, DrainRead
<1>4. ChainTypes' /\ BlocksNamed'
  BY <1>1, TypesOf, ChainStays DEF FanoutInv
<1>5. AskedFor'
  BY <1>1 DEF FanoutInv, AskedFor
<1> QED BY <1>1, <1>2, <1>3, <1>4, <1>5, RequestsSame DEF Recorded

LEMMA CloseRecords ==
  ASSUME FanoutInv, NamesStay, NEW i \in F_Incident,
         NEW a \in F!ClosingAnswers(F_first[i]),
         F!CloseAndAct(i, a)
  PROVE  HostMoves /\ Recorded'
<1>1. UNCHANGED <<F_gen, F_alive, F_work, F_drain, F_tail, F_ended, F_trig, F_backend,
                  F_rules, F_chain>>
  BY DEF F!CloseAndAct, F!Host, F!Drain
<1>2. HostMoves
  BY <1>1, HostStays DEF FanoutInv
<1>3. ChainTypes' /\ BlocksNamed'
  BY <1>1, TypesOf, ChainStays DEF FanoutInv
<1>4. AskedFor'
  BY <1>1 DEF FanoutInv, AskedFor
<1>5. RequestTypes /\ AnswerTypes /\ a \in F!Answer
  BY TypesOf DEF FanoutInv, F!ClosingAnswers, F!FirstAnswers
<1>6. RequestsKept'
  BY <1>1, <1>2, RequestsStay DEF FanoutInv
<1>7. RequestTypes' /\ KillsNamed'
  <2>1. CASE UNCHANGED F_term
    BY <1>1, <1>5, <2>1, KillsStay DEF FanoutInv, RequestTypes
  <2>2. CASE /\ a.conf = "certain"
             /\ F_term' = [F_term EXCEPT ![i] = [F!NoRequest EXCEPT
                  !.at = "guard", !.kill = TRUE, !.pid = a.pid]]
    <3> DEFINE r == [F!NoRequest EXCEPT !.at = "guard", !.kill = TRUE, !.pid = a.pid]
    <3>0. F!NoRequest \in F!Request
      BY FanoutHolds DEF F!NoRequest, F!Request
    <3>1. r \in F!Request /\ r.pid = a.pid
      <4>1. a.pid \in F!Process \cup {F_NoPid} /\ 0 \in 0 .. F_MaxGen
        BY <1>5, FanoutHolds DEF F!Answer
      <4> QED BY <4>1, <3>0 DEF F!Request
    <3>2. F_closing'[i] = a
      BY <1>5 DEF F!CloseAndAct, AnswerTypes
    <3>3. NamedAfter(i, a.pid)
      BY <2>2, <3>2 DEF NamedAfter
    <3> HIDE DEF r
    <3>4. /\ RequestTypes' /\ F_term'[i] = r
          /\ \A j \in F_Incident : j # i => F_term'[j] = F_term[j]
      BY <1>1, <1>5, <2>2, <3>1 DEF RequestTypes, r
    <3>5. ASSUME NEW j \in F_Incident
          PROVE  /\ F_trig'[j].kill =>
                      \/ F_trig[j].kill /\ F_trig'[j].pid = F_trig[j].pid
                      \/ NamedAfter(j, F_trig'[j].pid)
                 /\ F_term'[j].at = "guard" =>
                      \/ F_term[j].at = "guard" /\ F_term'[j].pid = F_term[j].pid
                      \/ NamedAfter(j, F_term'[j].pid)
      <4>1. CASE j = i
        BY <1>1, <3>1, <3>3, <3>4, <4>1
      <4>2. CASE j # i
        BY <1>1, <3>4, <4>2
      <4> QED BY <4>1, <4>2
    <3>6. KillsNamed
      BY DEF FanoutInv
    <3> QED BY <3>4, <3>5, <3>6, KillsStay
  <2> QED BY <2>1, <2>2 DEF F!CloseAndAct
<1> QED BY <1>1, <1>2, <1>3, <1>4, <1>6, <1>7, DrainSame DEF Recorded

LEMMA ShowRecords ==
  ASSUME FanoutInv, NamesStay, NEW i \in F_Incident,
         F!ShowClosed(i) \/ F!RecordEscalation(i)
  PROVE  HostMoves /\ Recorded'
<1>1. UNCHANGED <<F_gen, F_alive, F_first, F_closing, F_work, F_drain, F_tail, F_ended,
                  F_trig, F_term, F_backend, F_rules>>
  BY DEF F!ShowClosed, F!RecordEscalation, F!Host, F!Drain, F!Service
<1>2. HostMoves
  BY <1>1, HostStays DEF FanoutInv
<1>3. AskedFor'
  BY <1>1 DEF FanoutInv, AskedFor
<1>4. ChainTypes' /\ BlocksNamed'
  <2>1. CASE F!ShowClosed(i)
    BY <2>1, TypesOf, ChainStays DEF FanoutInv, F!ShowClosed
  <2>2. CASE F!RecordEscalation(i)
    <3> DEFINE pid == F!ChainedPid(F_closing[i].pid, F_closing[i].conf)
               b == F!Block("escalation", i, pid, {})
    <3>1. F!Logged(b)
      BY <2>2 DEF F!RecordEscalation
    <3>2. pid # F_NoPid => NamedAfter(i, pid)
      BY <1>1 DEF F!ChainedPid, NamedAfter
    <3>3. b.inc = i /\ b.pid = pid
      BY DEF F!Block
    <3>4. BlocksNamed /\ ChainTypes
      BY TypesOf DEF FanoutInv
    <3> HIDE DEF b, pid
    <3>5. b.pid # F_NoPid => NamedAfter(b.inc, b.pid)
      BY <3>2, <3>3
    <3> QED BY <3>1, <3>3, <3>4, <3>5, BlocksStay
  <2> QED BY <2>1, <2>2
<1> QED BY <1>1, <1>2, <1>3, <1>4, DrainSame, RequestsSame DEF Recorded

\* The drain's own steps, as to what it has read.
LEMMA ReadRecords ==
  ASSUME FanoutInv, NamesStay, F!Predict \/ F!ReadPid
  PROVE  HostMoves /\ Recorded'
<1>1. UNCHANGED <<F_gen, F_alive, F_first, F_closing, F_ques, F_event, F_tail, F_ended,
                  F_trig, F_term, F_backend, F_rules, F_chain>>
  BY DEF F!Predict, F!ReadPid, F!Host, F!Answers, F!Service
<1>2. HostMoves
  BY <1>1, HostStays DEF FanoutInv
<1>3. ChainTypes' /\ BlocksNamed'
  BY <1>1, TypesOf, ChainStays DEF FanoutInv
<1>4. DrainTypes /\ DrainRead /\ AnswersAgree
  BY TypesOf DEF FanoutInv
<1>5. CASE F!Predict
  <2>1. PICK model \in {"none", "low", "critical"} :
          F_drain' = [F_drain EXCEPT !.at = "read_pid", !.inc = Head(F_work),
                                     !.level = F!EffectiveLevel(model)]
    BY <1>5 DEF F!Predict
  <2>2. /\ Head(F_work) \in F_Incident /\ Tail(F_work) \in Seq(F_Incident)
        /\ F_work' = Tail(F_work) /\ F_drain.at = "idle"
    BY <1>4, <1>5 DEF F!Predict, DrainTypes
  <2>3. F!EffectiveLevel(model) \in {"high", "critical"}
    BY <2>1 DEF F!EffectiveLevel, F!Highest
  <2>4. /\ F_drain' \in Drains /\ F_drain'.at = "read_pid"
        /\ F_drain'.inc = Head(F_work) /\ F_drain'.pid = F_drain.pid
        /\ F_drain'.level \in F!Actionable
    BY <1>4, <2>1, <2>2, <2>3 DEF DrainTypes, Drains, F!Actionable
  <2>5. DrainTypes'
    BY <1>1, <1>4, <2>2, <2>4 DEF DrainTypes
  <2>6. DrainRead' /\ AskedFor'
    BY <1>1, <1>4, <2>2, <2>4 DEF FanoutInv, DrainRead, AskedFor
  <2> QED BY <1>1, <1>2, <1>3, <2>5, <2>6, RequestsSame DEF Recorded
<1>6. CASE F!ReadPid
  <2> DEFINE i == F_drain.inc
             at == IF F_drain.at = "read_pid" THEN "log" ELSE "ask"
  <2>1. /\ i \in F_Incident /\ F_event[i].pid \in F!Process \cup {F_NoPid}
        /\ F_event[i].pid \in {F_first[i].pid, F_closing[i].pid}
        /\ at \in {"log", "ask"}
    BY <1>4, <1>6, TypesOf
       DEF FanoutInv, F!ReadPid, DrainTypes, AnswerTypes, AnswersAgree, Shown
  <2>2. /\ F_drain' = [F_drain EXCEPT !.pid = F_event[i].pid, !.at = at]
        /\ F_work' = F_work
    BY <1>6 DEF F!ReadPid
  <2>3. F_drain.at # "idle" /\ F_drain \in Drains
    BY <1>4, <1>6 DEF F!ReadPid, DrainTypes
  <2> HIDE DEF i, at
  <2>4. /\ F_drain' \in Drains /\ F_drain'.at = at /\ F_drain'.inc = F_drain.inc
        /\ F_drain'.pid = F_event[i].pid /\ F_drain'.level = F_drain.level
    BY <2>1, <2>2, <2>3 DEF Drains
  <2>5. DrainTypes'
    BY <1>1, <1>4, <2>1, <2>2, <2>3, <2>4 DEF DrainTypes
  <2>6. DrainRead' /\ AskedFor'
    BY <1>1, <2>1, <2>4 DEF FanoutInv, DrainRead, AskedFor, i
  <2> QED BY <1>1, <1>2, <1>3, <2>5, <2>6, RequestsSame DEF Recorded
<1> QED BY <1>5, <1>6

\* A block names whom the event's confidence spoke of: what the event shows
\* is the first answer until the closing one replaces it.
LEMMA CertainIsNamed ==
  ASSUME FanoutInv, F_drain.at # "idle", F_drain.pid # F_NoPid,
         F_event[F_drain.inc].conf = "certain"
  PROVE  F!Named(F_drain.inc, F_drain.pid)
<1> DEFINE i == F_drain.inc
<1>1. /\ i \in F_Incident
      /\ F_drain.pid \in {F_first[i].pid, F_closing[i].pid}
      /\ F_ques[i] \in {"none", "never", "open", "acting", "shown", "closed"}
  BY TypesOf DEF FanoutInv, DrainTypes, DrainRead, AnswerTypes
<1>2. /\ F_ques[i] \in {"none", "never", "open"} => F_closing[i] = F!NoAnswer
      /\ F_ques[i] \notin {"none", "never"} => F_first[i].conf # "certain"
      /\ F_first[i].conf = "certain" => F_first[i].pid = F_Writer
      /\ F_closing[i].conf = "certain" =>
           F_closing[i].pid = F_Writer /\ F_first[i].pid \in {F_NoPid, F_Writer}
      /\ F_event[i].conf = Shown(F_ques[i], F_first[i], F_closing[i]).conf
  BY <1>1 DEF FanoutInv, AnswersAgree
<1> HIDE DEF i
<1>3. CASE F_ques[i] \in {"shown", "closed"}
  <2>1. F_closing[i].conf = "certain"
    BY <1>2, <1>3 DEF Shown, i
  <2>2. F_drain.pid = F_closing[i].pid
    BY <1>1, <1>2, <2>1
  <2> QED BY <2>1, <2>2 DEF F!Named, i
<1>4. CASE F_ques[i] \notin {"shown", "closed"}
  <2>1. F_first[i].conf = "certain"
    BY <1>2, <1>4 DEF Shown, i
  <2>2. F_closing[i].pid = F_NoPid
    BY <1>1, <1>2, <2>1 DEF F!NoAnswer
  <2> QED BY <1>1, <2>1, <2>2 DEF F!Named, i
<1> QED BY <1>3, <1>4

LEMMA LogRecords ==
  ASSUME FanoutInv, NamesStay, F!LogFileEvent
  PROVE  HostMoves /\ Recorded'
<1>1. UNCHANGED <<F_gen, F_alive, F_first, F_closing, F_ques, F_event, F_work, F_tail,
                  F_ended, F_trig, F_term, F_backend, F_rules>>
  BY DEF F!LogFileEvent, F!Host, F!Answers, F!Service
<1>2. HostMoves
  BY <1>1, HostStays DEF FanoutInv
<1>3. DrainTypes /\ DrainRead
  BY TypesOf DEF FanoutInv
<1>4. /\ F_drain.at = "log" /\ F_drain.level \in F!Actionable
      /\ F_drain.inc \in F_Incident
  BY <1>3 DEF F!LogFileEvent, DrainTypes
<1>5. ChainTypes' /\ BlocksNamed'
  <2> DEFINE pid == F!ChainedPid(F_drain.pid, F_event[F_drain.inc].conf)
             b == F!Block("file_event", F_drain.inc, pid, {})
  <2>1. F!Logged(b)
    BY DEF F!LogFileEvent
  <2>2. pid # F_NoPid => NamedAfter(F_drain.inc, pid)
    BY <1>1, <1>4, CertainIsNamed DEF F!ChainedPid, F!Named, NamedAfter
  <2>3. b.inc = F_drain.inc /\ b.pid = pid
    BY DEF F!Block
  <2>4. BlocksNamed /\ ChainTypes
    BY TypesOf DEF FanoutInv
  <2> HIDE DEF b, pid
  <2>5. b.pid # F_NoPid => NamedAfter(b.inc, b.pid)
    BY <2>2, <2>3
  <2> QED BY <1>4, <2>1, <2>3, <2>4, <2>5, BlocksStay
<1>6. F_drain' = [F_drain EXCEPT !.at = "read_pid_again"]
  BY <1>4 DEF F!LogFileEvent, F!Go
<1>7. /\ F_drain' \in Drains /\ F_drain'.at = "read_pid_again"
      /\ F_drain'.inc = F_drain.inc /\ F_drain'.pid = F_drain.pid
      /\ F_drain'.level = F_drain.level
  BY <1>3, <1>6 DEF DrainTypes, Drains
<1>8. DrainTypes'
  BY <1>1, <1>3, <1>4, <1>7 DEF DrainTypes
<1>9. DrainRead' /\ AskedFor'
  BY <1>1, <1>4, <1>7 DEF FanoutInv, DrainRead, AskedFor
<1> QED BY <1>1, <1>2, <1>5, <1>8, <1>9, RequestsSame DEF Recorded

\* A new request, which holds no process yet and has applied no rule.
Asked(at, kill, pid) ==
  [F!NoRequest EXCEPT !.at = at, !.kill = kill, !.pid = pid]

LEMMA AskedIs ==
  ASSUME NEW at \in {"guard", "isolate", "lost"}, NEW kill \in BOOLEAN,
         NEW pid \in F!Process \cup {F_NoPid}
  PROVE  /\ Asked(at, kill, pid) \in F!Request
         /\ Asked(at, kill, pid).at = at /\ Asked(at, kill, pid).kill = kill
         /\ Asked(at, kill, pid).pid = pid /\ Asked(at, kill, pid).gen = 0
         /\ Asked(at, kill, pid).step = 1 /\ Asked(at, kill, pid).acts = {}
<1>1. F!NoRequest \in F!Request /\ F!NoRequest.gen = 0 /\ F!NoRequest.step = 1
      /\ F!NoRequest.acts = {}
  BY FanoutHolds DEF F!NoRequest, F!Request
<1> QED BY <1>1 DEF Asked, F!Request

LEMMA TriggerRecords ==
  ASSUME FanoutInv, NamesStay, F!Trigger
  PROVE  HostMoves /\ Recorded'
<1> DEFINE i == F_drain.inc
           kill == F_drain.pid # F_NoPid /\ F_event[i].conf = "certain"
<1>1. UNCHANGED <<F_gen, F_alive, F_first, F_closing, F_ques, F_event, F_work, F_tail,
                  F_ended, F_term, F_backend, F_rules, F_chain>>
  BY DEF F!Trigger, F!Host, F!Answers
<1>2. HostMoves
  BY <1>1, HostStays DEF FanoutInv
<1>3. ChainTypes' /\ BlocksNamed'
  BY <1>1, TypesOf, ChainStays DEF FanoutInv
<1>4. DrainTypes /\ DrainRead /\ RequestTypes /\ F_drain.at = "ask"
  BY TypesOf DEF FanoutInv, F!Trigger
<1>5. PICK at \in {IF kill THEN "guard" ELSE "isolate", "lost"} :
        F_trig' = [F_trig EXCEPT ![i] = Asked(at, kill, F_drain.pid)]
  BY DEF F!Trigger, Asked
<1>6. i \in F_Incident /\ F_drain.pid \in F!Process \cup {F_NoPid}
  BY <1>4 DEF DrainTypes, Drains
<1>7. kill => F!Named(i, F_drain.pid)
  BY <1>4, CertainIsNamed
<1>8. /\ at \in {"guard", "isolate", "lost"} /\ kill \in BOOLEAN
      /\ at = "guard" => kill
  BY <1>5
<1> HIDE DEF kill
<1> DEFINE r == Asked(at, kill, F_drain.pid)
<1>9. /\ r \in F!Request /\ r.at = at /\ r.kill = kill /\ r.pid = F_drain.pid
      /\ r.gen = 0 /\ r.step = 1 /\ r.acts = {}
  BY <1>6, <1>8, AskedIs
<1> HIDE DEF r
<1>10. /\ F_trig' \in [F_Incident -> F!Request] /\ F_trig'[i] = r
       /\ \A j \in F_Incident : j # i => F_trig'[j] = F_trig[j]
  BY <1>4, <1>5, <1>6, <1>9 DEF RequestTypes, r
<1>11. KillsNamed'
  <2>1. kill => NamedAfter(i, r.pid)
    BY <1>1, <1>7, <1>9 DEF F!Named, NamedAfter
  <2>2. \A j \in F_Incident :
          /\ F_trig'[j].kill =>
               \/ F_trig[j].kill /\ F_trig'[j].pid = F_trig[j].pid
               \/ NamedAfter(j, F_trig'[j].pid)
          /\ F_term'[j].at = "guard" =>
               \/ F_term[j].at = "guard" /\ F_term'[j].pid = F_term[j].pid
               \/ NamedAfter(j, F_term'[j].pid)
    BY <1>1, <1>9, <1>10, <2>1
  <2>3. KillsNamed
    BY DEF FanoutInv
  <2> QED BY <2>2, <2>3, KillsStay
<1>12. RequestsKept'
  <2>1. kill => F_drain.pid \in F!Process
    BY <1>6 DEF kill
  <2>2. Kept(r, F_gen', F_alive', F_backend, F_rules')
    BY <1>2, <1>8, <1>9, <2>1, CommandsAre, FanoutHolds DEF Kept, HostMoves
  <2>3. \A j \in F_Incident :
          \/ F_trig'[j] = F_trig[j]
          \/ Kept(F_trig'[j], F_gen', F_alive', F_backend, F_rules')
    BY <1>10, <2>2
  <2>4. FanoutTypes /\ RequestsKept
    BY DEF FanoutInv
  <2> QED BY <1>1, <1>2, <2>3, <2>4, RequestsStay
<1>13. F_drain' = [F_drain EXCEPT !.at = "wait"]
  BY DEF F!Trigger, F!Go
<1>14. /\ F_drain' \in Drains /\ F_drain'.at = "wait"
       /\ F_drain'.inc = F_drain.inc /\ F_drain'.pid = F_drain.pid
       /\ F_drain'.level = F_drain.level
  BY <1>4, <1>13 DEF DrainTypes, Drains
<1>15. DrainTypes'
  BY <1>1, <1>4, <1>14 DEF DrainTypes
<1>16. DrainRead'
  BY <1>1, <1>4, <1>14 DEF DrainRead
<1>17. AskedFor'
  <2>1. \A j \in F_Incident : F_trig[j].at # "none" => F_trig'[j].at # "none"
    BY <1>8, <1>9, <1>10
  <2>2. \A k \in DOMAIN F_tail : F_tail[k] \in F_Incident
    BY <1>4 DEF DrainTypes
  <2> QED BY <1>1, <1>4, <1>8, <1>9, <1>10, <1>14, <2>1, <2>2
          DEF FanoutInv, AskedFor, DrainTypes
<1>18. RequestTypes'
  BY <1>1, <1>4, <1>10 DEF RequestTypes
<1> QED BY <1>2, <1>3, <1>11, <1>12, <1>15, <1>16, <1>17, <1>18 DEF Recorded

LEMMA ReplyRecords ==
  ASSUME FanoutInv, NamesStay, F!Reply \/ F!NoReply
  PROVE  HostMoves /\ Recorded'
<1>1. UNCHANGED <<F_gen, F_alive, F_first, F_closing, F_ques, F_event, F_work, F_trig,
                  F_term, F_backend, F_rules, F_chain>>
  BY DEF F!Reply, F!NoReply, F!Host, F!Answers, F!Service
<1>2. HostMoves
  BY <1>1, HostStays DEF FanoutInv
<1>3. ChainTypes' /\ BlocksNamed'
  BY <1>1, TypesOf, ChainStays DEF FanoutInv
<1>4. DrainTypes /\ AskedFor
  BY TypesOf DEF FanoutInv
<1>5. /\ F_drain.at = "wait" /\ F_drain.inc \in F_Incident
      /\ F_trig[F_drain.inc].at # "none"
  BY <1>4 DEF F!Reply, F!NoReply, DrainTypes, AskedFor
<1>6. /\ F_drain' \in Drains /\ F_drain'.at = "idle" /\ F_drain'.pid = F_NoPid
  BY DEF F!Reply, F!NoReply, F!IdleDrain, Drains
<1>7. CASE F!Reply
  <2>1. F_tail' = Append(F_tail, F_drain.inc) /\ F_ended' = F_ended
    BY <1>7 DEF F!Reply
  <2>2. DrainTypes'
    BY <1>1, <1>4, <1>5, <1>6, <2>1 DEF DrainTypes
  <2>3. \A k \in DOMAIN F_tail' : F_trig'[F_tail'[k]].at # "none"
    BY <1>1, <1>4, <1>5, <2>1 DEF DrainTypes, AskedFor
  <2>4. AskedFor'
    BY <1>1, <1>4, <1>6, <2>1, <2>3 DEF AskedFor
  <2> QED BY <1>1, <1>2, <1>3, <1>6, <2>2, <2>4, RequestsSame DEF Recorded, DrainRead
<1>8. CASE F!NoReply
  <2>1. F_ended' = F_ended \cup {F_drain.inc} /\ F_tail' = F_tail
    BY <1>8 DEF F!NoReply
  <2>2. DrainTypes'
    BY <1>1, <1>4, <1>5, <1>6, <2>1 DEF DrainTypes
  <2>3. AskedFor'
    BY <1>1, <1>4, <1>5, <1>6, <2>1 DEF AskedFor
  <2> QED BY <1>1, <1>2, <1>3, <1>6, <2>2, <2>3, RequestsSame DEF Recorded, DrainRead
<1> QED BY <1>7, <1>8

LEMMA TailRecords ==
  ASSUME FanoutInv, NamesStay, F!WriteTail
  PROVE  HostMoves /\ Recorded'
<1>1. UNCHANGED <<F_gen, F_alive, F_first, F_closing, F_ques, F_event, F_work, F_drain,
                  F_trig, F_term, F_backend, F_rules>>
  BY DEF F!WriteTail, F!Host, F!Answers, F!Service
<1>2. HostMoves
  BY <1>1, HostStays DEF FanoutInv
<1>3. DrainTypes /\ DrainRead /\ AskedFor
  BY TypesOf DEF FanoutInv
<1>4. /\ F_tail # <<>> /\ F_tail' = Tail(F_tail)
      /\ F_ended' = F_ended \cup {Head(F_tail)}
      /\ Head(F_tail) \in F_Incident /\ F_tail' \in Seq(F_Incident)
  BY <1>3 DEF F!WriteTail, DrainTypes
<1>5. ChainTypes' /\ BlocksNamed'
  <2> DEFINE b == F!Block("tail", Head(F_tail), F_NoPid, F_trig[Head(F_tail)].acts)
  <2>1. F!Logged(b) /\ b.inc = Head(F_tail) /\ b.pid = F_NoPid
    BY DEF F!WriteTail, F!Block
  <2>2. BlocksNamed /\ ChainTypes
    BY TypesOf DEF FanoutInv
  <2> HIDE DEF b
  <2> QED BY <1>4, <2>1, <2>2, BlocksStay
<1>6. DrainTypes'
  BY <1>1, <1>3, <1>4 DEF DrainTypes
<1>7. DrainRead'
  BY <1>1, <1>3 DEF DrainRead
<1>8. /\ F_trig[Head(F_tail)].at # "none"
      /\ \A k \in DOMAIN F_tail' : F_trig[F_tail'[k]].at # "none"
  <2>1. Len(F_tail) \in Nat \ {0} /\ Head(F_tail) = F_tail[1]
    BY <1>3, <1>4 DEF DrainTypes
  <2>2. \A k \in DOMAIN F_tail' : k + 1 \in DOMAIN F_tail /\ F_tail'[k] = F_tail[k + 1]
    BY <1>3, <1>4 DEF DrainTypes
  <2>3. 1 \in DOMAIN F_tail
    BY <1>3, <2>1 DEF DrainTypes
  <2> QED BY <1>3, <2>1, <2>2, <2>3 DEF AskedFor
<1>9. AskedFor'
  BY <1>1, <1>3, <1>4, <1>8 DEF AskedFor
<1> QED BY <1>1, <1>2, <1>5, <1>6, <1>7, <1>9, RequestsSame DEF Recorded

(* The Response service's steps move one request on.                       *)

RequestAt == {"lost", "guard", "open", "signal", "isolate", "report", "done",
              "crashed", "refused", "terminated"}

LEMMA MovedIs ==
  ASSUME NEW r \in F!Request, NEW at \in RequestAt,
         NEW act, act \subseteq {"terminated", "isolated", "planned"}
  PROVE  /\ F!Moved(r, at, act) \in F!Request
         /\ F!Moved(r, at, act).at = at /\ F!Moved(r, at, act).kill = r.kill
         /\ F!Moved(r, at, act).pid = r.pid /\ F!Moved(r, at, act).gen = r.gen
         /\ F!Moved(r, at, act).step = r.step
         /\ \A x : x \in F!Moved(r, at, act).acts <=> x \in r.acts \/ x \in act
BY DEF F!Moved, F!Request, RequestAt

LEMMA MovedSame ==
  ASSUME NEW r \in F!Request, NEW at
  PROVE  F!Moved(r, at, {}).acts = r.acts
BY DEF F!Moved, F!Request

LEMMA TrigMoves ==
  ASSUME NEW i \in F_Incident, NEW at, NEW act, F!TrigTo(i, at, act),
         F_trig \in [F_Incident -> F!Request]
  PROVE  F_trig' = [F_trig EXCEPT ![i] = F!Moved(F_trig[i], at, act)]
BY DEF F!TrigTo

LEMMA RequestMoves ==
  ASSUME FanoutInv, NamesStay, HostMoves, NEW i \in F_Incident, NEW r \in F!Request,
         F_trig' = [F_trig EXCEPT ![i] = r],
         r.at # "none", F_trig[i].at # "none",
         r.kill = F_trig[i].kill, r.pid = F_trig[i].pid,
         Kept(r, F_gen', F_alive', F_backend, F_rules'), F_rules \subseteq F_rules',
         UNCHANGED <<F_work, F_drain, F_tail, F_ended, F_term, F_backend>>
  PROVE  /\ DrainTypes' /\ DrainRead' /\ RequestTypes' /\ KillsNamed' /\ RequestsKept'
         /\ AskedFor'
<1>1. /\ RequestTypes /\ KillsNamed /\ RequestsKept /\ FanoutTypes
      /\ AskedFor /\ DrainTypes
  BY TypesOf DEF FanoutInv
<1>2. /\ F_trig' \in [F_Incident -> F!Request] /\ F_trig'[i] = r
      /\ \A j \in F_Incident : j # i => F_trig'[j] = F_trig[j]
  BY <1>1 DEF RequestTypes
<1>3. RequestTypes'
  BY <1>1, <1>2 DEF RequestTypes
<1>4. KillsNamed'
  <2>1. \A j \in F_Incident :
          /\ F_trig'[j].kill => F_trig[j].kill /\ F_trig'[j].pid = F_trig[j].pid
          /\ F_term'[j].at = "guard" =>
               F_term[j].at = "guard" /\ F_term'[j].pid = F_term[j].pid
    BY <1>2
  <2> QED BY <1>1, <2>1, KillsStay
<1>5. RequestsKept'
  <2>1. \A j \in F_Incident :
          \/ F_trig'[j] = F_trig[j]
          \/ Kept(F_trig'[j], F_gen', F_alive', F_backend, F_rules')
    BY <1>2
  <2> QED BY <1>1, <2>1, RequestsStay
<1>6. AskedFor'
  <2>1. \A j \in F_Incident : F_trig[j].at # "none" => F_trig'[j].at # "none"
    BY <1>2
  <2>2. \A k \in DOMAIN F_tail : F_tail[k] \in F_Incident
    BY <1>1 DEF DrainTypes
  <2> QED BY <1>1, <2>1, <2>2 DEF AskedFor, DrainTypes
<1> QED BY <1>3, <1>4, <1>5, <1>6, DrainSame

\* What the guard and the handle leave of a request.
LEMMA GuardRecords ==
  ASSUME FanoutInv, NamesStay, NEW i \in F_Incident,
         F!GuardTrigger(i) \/ F!OpenTrigger(i)
  PROVE  HostMoves /\ Recorded'
<1>1. UNCHANGED <<F_gen, F_alive, F_first, F_closing, F_ques, F_event, F_work, F_drain,
                  F_tail, F_ended, F_term, F_backend, F_rules, F_chain>>
  BY DEF F!GuardTrigger, F!OpenTrigger, F!Host, F!Answers, F!Drain
<1>2. HostMoves
  BY <1>1, HostStays DEF FanoutInv
<1>3. ChainTypes' /\ BlocksNamed'
  BY <1>1, TypesOf, ChainStays DEF FanoutInv
<1> DEFINE q == F_trig[i]
<1>4. /\ q \in F!Request /\ q.at \in {"guard", "open"} /\ q.kill
      /\ q.pid \in F!Process
      /\ Kept(q, F_gen, F_alive, F_backend, F_rules)
      /\ F_trig \in [F_Incident -> F!Request]
  BY TypesOf
     DEF FanoutInv, RequestTypes, RequestsKept, Kept, F!GuardTrigger, F!OpenTrigger
<1> HIDE DEF q
<1>5. ASSUME NEW at \in {"isolate", "open", "crashed"},
             F_trig' = [F_trig EXCEPT ![i] = F!Moved(q, at, {})]
      PROVE  HostMoves /\ Recorded'
  <2> DEFINE r == F!Moved(q, at, {})
  <2>1. /\ r \in F!Request /\ r.at = at /\ r.kill = q.kill /\ r.pid = q.pid
        /\ r.gen = q.gen /\ r.step = q.step /\ r.acts = q.acts
    <3>1. at \in RequestAt /\ {} \subseteq {"terminated", "isolated", "planned"}
      BY DEF RequestAt
    <3>2. q \in F!Request
      BY <1>4
    <3>3. /\ r \in F!Request /\ r.at = at /\ r.kill = q.kill /\ r.pid = q.pid
          /\ r.gen = q.gen /\ r.step = q.step
      BY <3>1, <3>2, MovedIs
    <3> QED BY <3>2, <3>3, MovedSame
  <2> HIDE DEF r
  <2>2. Kept(r, F_gen', F_alive', F_backend, F_rules')
    BY <1>1, <1>4, <2>1 DEF Kept
  <2> QED
    BY <1>1, <1>2, <1>3, <1>4, <1>5, <2>1, <2>2, RequestMoves DEF Recorded, r, q
<1>6. ASSUME F_trig' = [F_trig EXCEPT ![i] =
                          [@ EXCEPT !.at = "signal", !.gen = F_gen[q.pid]]]
      PROVE  HostMoves /\ Recorded'
  <2> DEFINE r == [q EXCEPT !.at = "signal", !.gen = F_gen[q.pid]]
  <2>1. F_gen[q.pid] \in 0 .. F_MaxGen /\ F_gen[q.pid] \in Nat /\ q.gen \in Nat
    BY <1>4, FanoutHolds DEF FanoutInv, FanoutTypes, F!TypeOK, F!Request
  <2>2. /\ r \in F!Request /\ r.at = "signal" /\ r.kill = q.kill /\ r.pid = q.pid
        /\ r.gen = F_gen[q.pid] /\ r.step = q.step /\ r.acts = q.acts
    BY <1>4, <2>1 DEF F!Request
  <2>3. F_trig' = [F_trig EXCEPT ![i] = r]
    BY <1>4, <1>6 DEF q
  <2> HIDE DEF r
  <2>4. Kept(r, F_gen', F_alive', F_backend, F_rules')
    BY <1>1, <1>4, <2>1, <2>2 DEF Kept
  <2> QED BY <1>1, <1>2, <1>3, <1>4, <2>2, <2>3, <2>4, RequestMoves DEF Recorded, q
<1>7. CASE F!GuardTrigger(i)
  <2>1. PICK at \in {"isolate", "open"} : F!TrigTo(i, at, {})
    BY <1>7 DEF F!GuardTrigger
  <2> QED BY <1>4, <1>5, <2>1, TrigMoves DEF q
<1>8. CASE F!OpenTrigger(i)
  <2>1. CASE F!TrigTo(i, "crashed", {})
    BY <1>4, <1>5, <2>1, TrigMoves DEF q
  <2>2. CASE ~F!TrigTo(i, "crashed", {})
    BY <1>6, <1>8, <2>2 DEF F!OpenTrigger, q
  <2> QED BY <2>1, <2>2
<1> QED BY <1>7, <1>8

\* A process that was made to end is not one that runs.
LEMMA SignalRecords ==
  ASSUME FanoutInv, NamesStay, NEW i \in F_Incident, F!SignalTrigger(i)
  PROVE  HostMoves /\ Recorded'
<1> DEFINE q == F_trig[i]
           same == F_alive[q.pid] /\ F_gen[q.pid] = q.gen
<1>1. UNCHANGED <<F_gen, F_first, F_closing, F_ques, F_event, F_work, F_drain, F_tail,
                  F_ended, F_term, F_backend, F_rules, F_chain>>
  BY DEF F!SignalTrigger, F!Answers, F!Drain
<1>2. /\ q \in F!Request /\ q.at = "signal" /\ q.kill /\ q.acts = {}
      /\ q.pid \in F!Process
      /\ Kept(q, F_gen, F_alive, F_backend, F_rules)
      /\ F_trig \in [F_Incident -> F!Request] /\ F_alive \in [F!Process -> BOOLEAN]
  BY TypesOf DEF FanoutInv, FanoutTypes, F!TypeOK, RequestTypes, RequestsKept, Kept,
                 F!SignalTrigger
<1>3. ChainTypes' /\ BlocksNamed'
  BY <1>1, TypesOf, ChainStays DEF FanoutInv
<1> HIDE DEF q
<1>4. ASSUME NEW act, act \in {{"terminated"}, {}}, F!TrigTo(i, "isolate", act),
             HostMoves,
             act = {"terminated"} => ~(F_alive'[q.pid] /\ F_gen[q.pid] = q.gen)
      PROVE  Recorded'
  <2> DEFINE r == F!Moved(q, "isolate", act)
  <2>1. q \in F!Request /\ "isolate" \in RequestAt
        /\ act \subseteq {"terminated", "isolated", "planned"}
    BY <1>2, <1>4 DEF RequestAt
  <2>2. /\ r \in F!Request /\ r.at = "isolate" /\ r.kill = q.kill /\ r.pid = q.pid
        /\ r.gen = q.gen /\ r.step = q.step
    BY <2>1, MovedIs
  <2>3. \A x : x \in r.acts <=> x \in act
    <3>1. \A x : x \in r.acts <=> x \in q.acts \/ x \in act
      BY <2>1, MovedIs
    <3> QED BY <1>2, <3>1
  <2>4. F_trig' = [F_trig EXCEPT ![i] = r]
    BY <1>2, <1>4, TrigMoves DEF q
  <2> HIDE DEF r
  <2>5. Kept(r, F_gen', F_alive', F_backend, F_rules')
    <3>1. "terminated" \in r.acts => ~(F_alive'[r.pid] /\ F_gen'[r.pid] = r.gen)
      BY <1>1, <1>4, <2>2, <2>3
    <3>2. "isolated" \notin r.acts
      BY <1>4, <2>3
    <3> QED BY <1>1, <1>2, <2>2, <3>1, <3>2 DEF Kept
  <2>6. F_trig[i].at # "none" /\ r.kill = F_trig[i].kill /\ r.pid = F_trig[i].pid
    BY <1>2, <2>2 DEF q
  <2> QED BY <1>1, <1>3, <1>4, <2>2, <2>4, <2>5, <2>6, RequestMoves DEF Recorded
<1>5. CASE /\ F!TrigTo(i, "isolate", {"terminated"})
           /\ F_alive' = IF same THEN [F_alive EXCEPT ![q.pid] = FALSE] ELSE F_alive
  <2>1. HostMoves /\ ~(F_alive'[q.pid] /\ F_gen[q.pid] = q.gen)
    <3>1. CASE same
      BY <1>1, <1>2, <1>5, <3>1, ProcessEnds DEF FanoutInv
    <3>2. CASE ~same
      BY <1>1, <1>2, <1>5, <3>2, HostStays DEF FanoutInv
    <3> QED BY <3>1, <3>2
  <2> QED BY <1>4, <1>5, <2>1
<1>6. CASE F!TrigTo(i, "isolate", {}) /\ UNCHANGED F_alive
  BY <1>1, <1>4, <1>6, HostStays DEF FanoutInv
<1> QED BY <1>5, <1>6 DEF F!SignalTrigger, q

\* A command adds its rule; the answer claims the isolation only after all.
LEMMA IsolateRecords ==
  ASSUME FanoutInv, NamesStay, NEW i \in F_Incident, F!Isolate(i)
  PROVE  HostMoves /\ Recorded'
<1> DEFINE q == F_trig[i]
           cmds == F!Commands(F_backend)
<1>1. UNCHANGED <<F_gen, F_alive, F_first, F_closing, F_ques, F_event, F_work, F_drain,
                  F_tail, F_ended, F_term, F_backend, F_chain>>
  BY DEF F!Isolate, F!Host, F!Answers, F!Drain
<1>2. HostMoves
  BY <1>1, HostStays DEF FanoutInv
<1>3. ChainTypes' /\ BlocksNamed'
  BY <1>1, TypesOf, ChainStays DEF FanoutInv
<1>4. /\ q \in F!Request /\ q.at = "isolate" /\ q.step \in 1 .. 5
      /\ Kept(q, F_gen, F_alive, F_backend, F_rules)
      /\ F_trig \in [F_Incident -> F!Request]
  BY TypesOf DEF FanoutInv, RequestTypes, RequestsKept, F!Isolate, F!Request
<1>5. Len(cmds) \in 0 .. 4 /\ DOMAIN cmds = 1 .. Len(cmds)
  BY CommandsAre
<1> HIDE DEF q, cmds
<1>6. CASE /\ q.step <= Len(cmds)
           /\ F_rules' = IF F_backend = "pfctl" THEN F_rules
                         ELSE F_rules \cup {cmds[q.step]}
           /\ F_trig' = [F_trig EXCEPT ![i].step = q.step + 1]
  <2> DEFINE r == [q EXCEPT !.step = q.step + 1]
  <2>1. q.step + 1 \in 1 .. 5
    BY <1>4, <1>5, <1>6
  <2>2. /\ r \in F!Request /\ r.at = "isolate" /\ r.kill = q.kill /\ r.pid = q.pid
        /\ r.gen = q.gen /\ r.step = q.step + 1 /\ r.acts = q.acts
    BY <1>4, <2>1 DEF F!Request
  <2>3. F_trig' = [F_trig EXCEPT ![i] = r]
    BY <1>4, <1>6 DEF q
  <2> HIDE DEF r
  <2>4. F_rules \subseteq F_rules'
    BY <1>6
  <2>5. \A n \in DOMAIN cmds : n < r.step /\ F_backend # "pfctl" => cmds[n] \in F_rules'
    <3>1. \A n \in DOMAIN cmds : n < q.step /\ F_backend # "pfctl" => cmds[n] \in F_rules
      BY <1>4 DEF Kept, cmds
    <3>2. F_backend # "pfctl" => cmds[q.step] \in F_rules'
      BY <1>6
    <3> QED BY <1>4, <1>5, <2>2, <2>4, <3>1, <3>2
  <2>6. "isolated" \notin r.acts
    BY <1>4, <1>5, <1>6, <2>2 DEF Kept, cmds
  <2>7. Kept(r, F_gen', F_alive', F_backend, F_rules')
    BY <1>1, <1>4, <2>2, <2>5, <2>6 DEF Kept, cmds
  <2>8. F_trig[i].at # "none" /\ r.kill = F_trig[i].kill /\ r.pid = F_trig[i].pid
    BY <1>4, <2>2 DEF q
  <2> QED BY <1>1, <1>2, <1>3, <2>2, <2>3, <2>4, <2>7, <2>8, RequestMoves DEF Recorded
<1>7. ASSUME NEW act, act \in {{"isolated"}, {"planned"}},
             act = {"isolated"} => q.step > Len(cmds),
             F!TrigTo(i, "report", act), UNCHANGED F_rules
      PROVE  HostMoves /\ Recorded'
  <2> DEFINE r == F!Moved(q, "report", act)
  <2>1. q \in F!Request /\ "report" \in RequestAt
        /\ act \subseteq {"terminated", "isolated", "planned"}
    BY <1>4, <1>7 DEF RequestAt
  <2>2. /\ r \in F!Request /\ r.at = "report" /\ r.kill = q.kill /\ r.pid = q.pid
        /\ r.gen = q.gen /\ r.step = q.step
    BY <2>1, MovedIs
  <2>3. \A x : x \in r.acts <=> x \in q.acts \/ x \in act
    BY <2>1, MovedIs
  <2>4. F_trig' = [F_trig EXCEPT ![i] = r]
    BY <1>4, <1>7, TrigMoves DEF q
  <2> HIDE DEF r
  <2>5. Kept(r, F_gen', F_alive', F_backend, F_rules')
    <3>1. "isolated" \in r.acts => r.step > Len(cmds)
      BY <1>4, <1>7, <2>2, <2>3 DEF Kept, cmds
    <3>2. r.acts \cap {"isolated", "planned"} # {}
      BY <1>7, <2>3
    <3>3. "terminated" \in r.acts =>
             r.kill /\ ~(F_alive'[r.pid] /\ F_gen'[r.pid] = r.gen)
      BY <1>1, <1>4, <1>7, <2>2, <2>3 DEF Kept
    <3> QED BY <1>1, <1>4, <1>7, <2>2, <3>1, <3>2, <3>3 DEF Kept, cmds
  <2>6. F_trig[i].at # "none" /\ r.kill = F_trig[i].kill /\ r.pid = F_trig[i].pid
    BY <1>4, <2>2 DEF q
  <2> QED BY <1>1, <1>2, <1>3, <1>7, <2>2, <2>4, <2>5, <2>6, RequestMoves DEF Recorded
<1>8. CASE /\ F!TrigTo(i, "report", {IF F!Enforced(F_backend, q.step)
                                     THEN "isolated" ELSE "planned"})
           /\ UNCHANGED F_rules
  <2>1. CASE F!Enforced(F_backend, q.step)
    BY <1>7, <1>8, <2>1 DEF F!Enforced, cmds
  <2>2. CASE ~F!Enforced(F_backend, q.step)
    BY <1>7, <1>8, <2>2
  <2> QED BY <2>1, <2>2
<1> QED BY <1>6, <1>8 DEF F!Isolate, q, cmds

LEMMA ReportRecords ==
  ASSUME FanoutInv, NamesStay, NEW i \in F_Incident, F!Report(i)
  PROVE  HostMoves /\ Recorded'
<1> DEFINE q == F_trig[i]
           r == F!Moved(q, "done", {})
<1>1. UNCHANGED <<F_gen, F_alive, F_first, F_closing, F_ques, F_event, F_work, F_drain,
                  F_tail, F_ended, F_term, F_backend, F_rules>>
  BY DEF F!Report, F!Host, F!Answers, F!Drain
<1>2. HostMoves
  BY <1>1, HostStays DEF FanoutInv
<1>3. ChainTypes' /\ BlocksNamed'
  <2> DEFINE pid == IF q.kill THEN q.pid ELSE F_NoPid
             b == F!Block("trigger", i, pid, q.acts)
  <2>1. F!Logged(b) /\ b.inc = i /\ b.pid = pid
    BY DEF F!Report, F!Block
  <2>2. BlocksNamed /\ ChainTypes /\ KillsNamed
    BY TypesOf DEF FanoutInv
  <2>3. pid # F_NoPid => NamedAfter(i, pid)
    BY <1>1, <2>2 DEF KillsNamed, F!Named, NamedAfter
  <2> HIDE DEF b, pid
  <2>4. b.pid # F_NoPid => NamedAfter(b.inc, b.pid)
    BY <2>1, <2>3
  <2> QED BY <2>1, <2>2, <2>4, BlocksStay
<1>4. /\ q \in F!Request /\ q.at = "report" /\ "done" \in RequestAt
      /\ {} \subseteq {"terminated", "isolated", "planned"}
      /\ Kept(q, F_gen, F_alive, F_backend, F_rules)
      /\ F_trig \in [F_Incident -> F!Request]
  BY TypesOf DEF FanoutInv, RequestTypes, RequestsKept, F!Report, RequestAt
<1> HIDE DEF q
<1>5. q \in F!Request /\ "done" \in RequestAt
      /\ {} \subseteq {"terminated", "isolated", "planned"}
  BY <1>4
<1>6. /\ r \in F!Request /\ r.at = "done" /\ r.kill = q.kill /\ r.pid = q.pid
      /\ r.gen = q.gen /\ r.step = q.step
  BY <1>5, MovedIs
<1>7. r.acts = q.acts
  BY <1>5, MovedSame
<1>8. F_trig' = [F_trig EXCEPT ![i] = r]
  BY <1>4, TrigMoves DEF F!Report, q
<1> HIDE DEF r
<1>9. Kept(r, F_gen', F_alive', F_backend, F_rules')
  BY <1>1, <1>4, <1>6, <1>7 DEF Kept
<1>10. F_trig[i].at # "none" /\ r.kill = F_trig[i].kill /\ r.pid = F_trig[i].pid
  BY <1>4, <1>6 DEF q
<1> QED BY <1>1, <1>2, <1>3, <1>6, <1>8, <1>9, <1>10, RequestMoves DEF Recorded

\* Only a process that a certain answer named is there to be ended.
LEMMA NamedIsTheWriter ==
  ASSUME AnswersAgree, NEW i \in F_Incident, NEW pid, F!Named(i, pid)
  PROVE  pid = F_Writer
BY DEF AnswersAgree, F!Named

LEMMA TerminateRecords ==
  ASSUME FanoutInv, NamesStay, NEW i \in F_Incident, F!Terminate(i)
  PROVE  HostMoves /\ Recorded'
<1> DEFINE pid == F_term[i].pid
<1>1. UNCHANGED <<F_gen, F_first, F_closing, F_ques, F_event, F_work, F_drain, F_tail,
                  F_ended, F_trig, F_backend, F_rules>>
  BY DEF F!Terminate, F!Answers, F!Drain
<1>2. /\ F!Named(i, pid) /\ pid = F_Writer /\ F_term[i].at = "guard"
      /\ F_alive \in [F!Process -> BOOLEAN]
      /\ RequestTypes /\ KillsNamed /\ RequestsKept /\ AskedFor /\ FanoutTypes
  BY NamedIsTheWriter, TypesOf
     DEF FanoutInv, F!Terminate, KillsNamed, FanoutTypes, F!TypeOK
<1>3. PICK went \in {"refused", "terminated", "crashed"} :
        /\ F_term' = [F_term EXCEPT ![i].at = went]
        /\ F_alive' = IF went = "refused" THEN F_alive
                      ELSE [F_alive EXCEPT ![pid] = FALSE]
        /\ IF went = "crashed" THEN UNCHANGED F_chain
           ELSE F!Logged(F!Block("terminate", i, pid, {went} \cap {"terminated"}))
  BY DEF F!Terminate
<1> HIDE DEF pid
<1>4. HostMoves
  <2>1. pid \in F!Process
    BY <1>2 DEF F!Process
  <2>2. CASE went = "refused"
    BY <1>1, <1>2, <1>3, <2>2, HostStays
  <2>3. CASE went # "refused"
    BY <1>1, <1>2, <1>3, <2>1, <2>3, ProcessEnds
  <2> QED BY <2>2, <2>3
<1>5. ChainTypes' /\ BlocksNamed'
  <2> DEFINE b == F!Block("terminate", i, pid, {went} \cap {"terminated"})
  <2>1. BlocksNamed /\ ChainTypes
    BY TypesOf DEF FanoutInv
  <2>2. b.inc = i /\ b.pid = pid
    BY DEF F!Block
  <2>3. CASE UNCHANGED F_chain
    BY <2>1, <2>3, ChainStays
  <2>4. CASE F!Logged(b)
    <3>1. NamedAfter(i, pid)
      BY <1>1, <1>2 DEF F!Named, NamedAfter
    <3> HIDE DEF b
    <3>2. b.pid # F_NoPid => NamedAfter(b.inc, b.pid)
      BY <2>2, <3>1
    <3> QED BY <2>1, <2>2, <2>4, <3>2, BlocksStay
  <2> QED BY <1>3, <2>3, <2>4
<1>6. RequestTypes' /\ KillsNamed'
  <2> DEFINE r == [F_term[i] EXCEPT !.at = went]
  <2>1. r \in F!Request /\ r.at = went
    <3>1. F_term[i] \in F!Request
      BY <1>2 DEF RequestTypes
    <3> QED BY <1>3, <3>1 DEF F!Request
  <2>2. F_term' = [F_term EXCEPT ![i] = r]
    BY <1>2, <1>3 DEF RequestTypes
  <2> HIDE DEF r
  <2>3. /\ F_term' \in [F_Incident -> F!Request] /\ F_term'[i] = r
        /\ \A j \in F_Incident : j # i => F_term'[j] = F_term[j]
    BY <1>2, <2>1, <2>2 DEF RequestTypes
  <2>4. RequestTypes'
    BY <1>1, <1>2, <2>3 DEF RequestTypes
  <2>5. \A j \in F_Incident :
          /\ F_trig'[j].kill => F_trig[j].kill /\ F_trig'[j].pid = F_trig[j].pid
          /\ F_term'[j].at = "guard" =>
               F_term[j].at = "guard" /\ F_term'[j].pid = F_term[j].pid
    BY <1>1, <1>3, <2>1, <2>3
  <2> QED BY <1>2, <2>4, <2>5, KillsStay
<1>7. RequestsKept'
  BY <1>1, <1>2, <1>4, RequestsStay
<1>8. AskedFor'
  BY <1>1, <1>2 DEF AskedFor
<1> QED BY <1>1, <1>4, <1>5, <1>6, <1>7, <1>8, DrainSame DEF Recorded

-------------------------------------------------------------------------------
(* The invariant holds, and says what the properties say.                  *)

LEMMA FanoutRecords ==
  ASSUME FanoutInv, F!Next
  PROVE  HostMoves /\ Recorded'
<1>1. NamesStay
  BY FanoutAnswers
<1>2. ASSUME NEW i \in F_Incident
      PROVE  /\ F!GuardTrigger(i) => HostMoves /\ Recorded'
             /\ F!OpenTrigger(i) => HostMoves /\ Recorded'
             /\ F!SignalTrigger(i) => HostMoves /\ Recorded'
             /\ F!Isolate(i) => HostMoves /\ Recorded'
             /\ F!Report(i) => HostMoves /\ Recorded'
             /\ F!Terminate(i) => HostMoves /\ Recorded'
  BY <1>1, GuardRecords, SignalRecords, IsolateRecords, ReportRecords, TerminateRecords
<1>3. ASSUME NEW i \in F_Incident
      PROVE  /\ F!ShowClosed(i) => HostMoves /\ Recorded'
             /\ F!RecordEscalation(i) => HostMoves /\ Recorded'
             /\ \A a \in F!FirstAnswers : F!Correlate(i, a) => HostMoves /\ Recorded'
             /\ \A a \in F!ClosingAnswers(F_first[i]) :
                  F!CloseAndAct(i, a) => HostMoves /\ Recorded'
  BY <1>1, ShowRecords, CorrelateRecords, CloseRecords
<1>4. DrainSteps => HostMoves /\ Recorded'
  BY <1>1, ReadRecords, LogRecords, TriggerRecords, ReplyRecords, TailRecords
     DEF DrainSteps
<1>5. HostSteps => HostMoves /\ Recorded'
  BY HostRecords
<1> QED BY <1>2, <1>3, <1>4, <1>5 DEF F!Next, DrainSteps, HostSteps

LEMMA FanoutStep ==
  ASSUME FanoutInv, F!Next
  PROVE  FanoutInv'
<1>1. AnswersAgree' /\ AnswerTypes' /\ HostMoves /\ Recorded'
  BY FanoutAnswers, FanoutRecords
<1>2. FanoutTypes'
  BY <1>1, TypesFrom DEF Recorded
<1> QED BY <1>1, <1>2 DEF FanoutInv, Recorded

LEMMA FanoutStays ==
  ASSUME FanoutInv, UNCHANGED F_vars
  PROVE  FanoutInv'
BY DEF F_vars, FanoutInv, FanoutTypes, F!TypeOK, AnswersAgree, DrainRead, KillsNamed,
       BlocksNamed, RequestsKept, AskedFor, F!Named

LEMMA FanoutSays ==
  ASSUME FanoutInv
  PROVE  F!NamedIsCertain /\ F!AnsweredInFull
<1>1. F!NamedIsCertain
  BY DEF FanoutInv, KillsNamed, BlocksNamed, F!NamedIsCertain
<1>2. ASSUME NEW i \in F_Incident
      PROVE  /\ i \in F_ended => F_trig[i].at # "none"
             /\ F_trig[i].at = "crashed" => F_trig[i].kill
             /\ F_trig[i].at = "done" => F_trig[i].acts \cap {"isolated", "planned"} # {}
             /\ "terminated" \in F_trig[i].acts =>
                  ~(F_alive[F_trig[i].pid] /\ F_gen[F_trig[i].pid] = F_trig[i].gen)
  BY DEF FanoutInv, AskedFor, RequestsKept, Kept
<1>3. ASSUME NEW i \in F_Incident, "isolated" \in F_trig[i].acts, F_backend # "pfctl"
      PROVE  F!ToSet(F!Commands(F_backend)) \subseteq F_rules
  <2>1. /\ \A n \in DOMAIN F!Commands(F_backend) :
             n < F_trig[i].step => F!Commands(F_backend)[n] \in F_rules
        /\ F_trig[i].step > Len(F!Commands(F_backend))
        /\ F_trig[i].step \in 1 .. 5
    BY <1>3, TypesOf DEF FanoutInv, RequestsKept, Kept, RequestTypes, F!Request
  <2>2. \A n \in DOMAIN F!Commands(F_backend) : F!Commands(F_backend)[n] \in F_rules
    BY <2>1, CommandsAre
  <2> QED BY <2>2 DEF F!ToSet
<1> QED BY <1>1, <1>2, <1>3 DEF F!AnsweredInFull

ResponseInv == part = "fanout" => FanoutInv

LEMMA ResponseHolds == ResponseSpec => []ResponseInv
<1>1. ResponseInit => ResponseInv
  BY FanoutInit DEF ResponseInit, ResponseInv
<1>2. ResponseInv /\ [ResponseNext]_ResponseVars => ResponseInv'
  <2> SUFFICES ASSUME ResponseInv, [ResponseNext]_ResponseVars, part' = "fanout"
               PROVE  FanoutInv'
    BY DEF ResponseInv
  <2>1. part = "fanout" /\ (F!Next \/ UNCHANGED F_vars)
    BY DEF ResponseNext, ResponseVars
  <2>2. FanoutInv
    BY <2>1 DEF ResponseInv
  <2> QED BY <2>1, <2>2, FanoutStep, FanoutStays
<1> QED BY <1>1, <1>2, PTL DEF ResponseSpec

\* Whatever reads and updates of an event cross on its way through the
\* services, a block or a request to kill names only the process that a
\* CERTAIN answer of its own incident named (chained_pid, trigger_response).
THEOREM OnlyTheCertainIsNamed == ResponseSpec => []NamedIsCertain
<1>1. ResponseInv => NamedIsCertain
  BY FanoutSays DEF ResponseInv, NamedIsCertain
<1> QED BY <1>1, ResponseHolds, PTL

\* Every event pipeline.run has dealt with was asked about, every request
\* trigger_response finished tried the isolation, and what it says it did
\* was done.
THEOREM WhatIsSaidWasDone == ResponseSpec => []AnsweredInFull
<1>1. ResponseInv => AnsweredInFull
  BY FanoutSays DEF ResponseInv, AnsweredInFull
<1> QED BY <1>1, ResponseHolds, PTL

-------------------------------------------------------------------------------
(* The recovery: what a restored file is compared with, and where a        *)
(* restore finds it.                                                       *)

LEMMA GoodHolds ==
  /\ G_Flagged \subseteq G_Content /\ G_Partial \in G_Content \ G_Flagged
  /\ G_Gone \notin G_Content
  /\ G_Lookback \in Nat /\ G_MaxChange \in Nat /\ G_MaxAsk \in Nat
  /\ G_MaxBlock \in Nat /\ G_MaxRun \in Nat \ {0}
BY ResponseAssumption DEF ResponseAssumption, G!GoodStateAssumption

\* Every set of numbers has a least one; one that is bounded, a greatest.
LEMMA LeastOf ==
  ASSUME NEW T, T \subseteq Nat, T # {}
  PROVE  \E x \in T : \A y \in T : x <= y
<1> DEFINE R == {ss \in Nat \X Nat : ss[1] < ss[2]}
<1>1. R = OpToRel(<, Nat)
  BY DEF OpToRel
<1>2. IsWellFoundedOn(R, Nat)
  BY <1>1, NatLessThanWellFounded
<1> HIDE DEF R
<1>3. PICK x \in T : \A y \in T : ~ (<<y, x>> \in R)
  BY <1>2, WFMin
<1>4. \A y \in T : ~ (y < x)
  BY <1>3 DEF R
<1> QED BY <1>4

LEMMA GreatestOf ==
  ASSUME NEW T, NEW n \in Nat, T \subseteq 0 .. n, T # {}
  PROVE  \E x \in T : \A y \in T : y <= x
<1> DEFINE gaps == {n - t : t \in T}
<1>1. \A t \in T : n - t \in Nat
  OBVIOUS
<1>2. gaps \subseteq Nat /\ gaps # {}
  BY <1>1
<1>3. PICK x \in gaps : \A y \in gaps : x <= y
  BY <1>2, LeastOf
<1>4. PICK t \in T : x = n - t
  BY <1>3
<1>5. \A y \in T : n - y \in gaps
  OBVIOUS
<1>6. \A y \in T : x <= n - y
  BY <1>3, <1>5
<1> QED BY <1>4, <1>6

-------------------------------------------------------------------------------
(* The reference of a restore.                                             *)

\* The block records a content no lookup vouched for.
Vouchless(b) == b.type = "baseline" \/ (b.type = "recovered" /\ ~b.verified)

\* A good state has its cause in the chain: a baseline, or a recovery logged
\* without being verified.
Caused ==
  \A i \in DOMAIN G_chain : G!GoodState(G_chain[i]) =>
    \E j \in 1 .. i :
      G_chain[j].hash = G_chain[i].hash /\ Vouchless(G_chain[j])

\* A reference is a block that records a good state.
Referenced ==
  /\ \A r \in G_Recoverer :
       /\ G_rec[r].ref # 0 =>
            G_rec[r].ref \in DOMAIN G_chain /\ G!GoodState(G_chain[G_rec[r].ref])
       /\ G_rec[r].at \in {"lookup", "log"} => G_rec[r].hash \in G_Content
  /\ \A a \in G_answers :
       /\ a.ref \in DOMAIN G_chain /\ G!GoodState(G_chain[a.ref])
       /\ G_chain[a.ref].hash = a.hash

IsBase(b, run) == b.type = "baseline" /\ b.run = run
\* A run has one baseline, in the chain or queued, and the path was seen.
BaselineOnce ==
  /\ \A i \in DOMAIN G_chain : G_chain[i].run <= G_run
  /\ \A i, j \in DOMAIN G_chain :
       G_chain[i].type = "baseline" /\ IsBase(G_chain[j], G_chain[i].run) => i = j
  /\ \A i, j \in DOMAIN G_work :
       G_work[i].kind = "baseline" /\ G_work[j].kind = "baseline" => i = j
  /\ \A i \in DOMAIN G_chain, k \in DOMAIN G_work :
       ~(IsBase(G_chain[i], G_run) /\ G_work[k].kind = "baseline")
  /\ ~G_seen =>
       /\ \A i \in DOMAIN G_chain : ~IsBase(G_chain[i], G_run)
       /\ \A k \in DOMAIN G_work : G_work[k].kind # "baseline"

FileTypes ==
  /\ G_disk \in G!Hashes /\ G_changes \in 0 .. G_MaxChange
  /\ G_notes \subseteq {"changed", "deleted"}
MonitorTypes ==
  /\ G_run \in 1 .. G_MaxRun /\ G_seen \in BOOLEAN
  /\ G_watch \in [G_Watcher -> [at : {"idle", "hash", "record"},
                                suspicious : BOOLEAN, hash : G!Hashes]]
  /\ G_lane \in Seq(G!Hashes) /\ G_work \in Seq(G!Item)
LedgerTypes == G_chain \in Seq(G!Block) /\ Len(G_chain) <= G_MaxBlock
RestoreTypes ==
  /\ G_snaps \subseteq G_Content /\ G_asked \in 0 .. G_MaxAsk
  /\ G_rec \in [G_Recoverer -> [at : {"idle", "open", "copy", "hash", "lookup", "log"},
                                from : G!Hashes, hash : G!Hashes,
                                ref : 0 .. G_MaxBlock]]
  /\ G_answers \subseteq [hash : G_Content, ref : 1 .. G_MaxBlock]

GoodInv ==
  /\ FileTypes /\ MonitorTypes /\ LedgerTypes /\ RestoreTypes
  /\ Caused /\ Referenced /\ BaselineOnce

LEMMA GoodInit == ResponseInit /\ part = "good_state" => GoodInv
<1> SUFFICES ASSUME G!Init PROVE GoodInv
  BY DEF ResponseInit
<1>1. FileTypes
  BY GoodHolds DEF G!Init, FileTypes, G!Hashes, G!NoHash
<1>2. MonitorTypes
  <2>1. G!IdleWatch \in [at : {"idle", "hash", "record"}, suspicious : BOOLEAN,
                         hash : G!Hashes]
    BY DEF G!IdleWatch, G!Hashes
  <2>2. <<>> \in Seq(G!Hashes) /\ <<>> \in Seq(G!Item) /\ 1 \in 1 .. G_MaxRun
    BY GoodHolds
  <2> QED BY <2>1, <2>2 DEF G!Init, MonitorTypes
<1>3. LedgerTypes
  <2>1. <<>> \in Seq(G!Block) /\ Len(<<>>) <= G_MaxBlock
    BY GoodHolds
  <2> QED BY <2>1 DEF G!Init, LedgerTypes
<1>4. RestoreTypes
  <2>1. G!IdleRec \in [at : {"idle", "open", "copy", "hash", "lookup", "log"},
                       from : G!Hashes, hash : G!Hashes, ref : 0 .. G_MaxBlock]
    BY GoodHolds DEF G!IdleRec, G!Hashes
  <2> QED BY <2>1, GoodHolds DEF G!Init, RestoreTypes
<1>5. Caused /\ BaselineOnce
  BY GoodHolds DEF G!Init, Caused, BaselineOnce
<1>6. Referenced
  BY DEF G!Init, Referenced, G!IdleRec
<1> QED BY <1>1, <1>2, <1>3, <1>4, <1>5, <1>6 DEF GoodInv

\* What the ledger knows of the path is a block that records a good state.
LEMMA KnownIsGood ==
  ASSUME LedgerTypes, NEW ref \in {0, G!LastKnown(G_chain)}, ref # 0
  PROVE  ref \in DOMAIN G_chain /\ G!GoodState(G_chain[ref])
<1> DEFINE good == {i \in DOMAIN G_chain :
                      /\ i + G_Lookback > Len(G_chain)
                      /\ G!GoodState(G_chain[i]) /\ G_chain[i].hash # G!NoHash}
<1>1. good # {} /\ ref = CHOOSE i \in good : \A j \in good : j <= i
  BY DEF G!LastKnown
<1>2. Len(G_chain) \in Nat /\ good \subseteq 0 .. Len(G_chain)
  BY DEF LedgerTypes
<1>3. \E i \in good : \A j \in good : j <= i
  BY <1>1, <1>2, GreatestOf
<1>4. ref \in good
  BY <1>1, <1>3
<1> QED BY <1>4

\* An append that may fail.
LEMMA LedgerGrows ==
  ASSUME LedgerTypes, NEW b \in G!Block, G!Logged(b)
  PROVE  /\ LedgerTypes'
         /\ \A i \in DOMAIN G_chain : i \in DOMAIN G_chain' /\ G_chain'[i] = G_chain[i]
         /\ G_chain' = G_chain
              \/ /\ DOMAIN G_chain' = DOMAIN G_chain \cup {Len(G_chain) + 1}
                 /\ G_chain'[Len(G_chain) + 1] = b
<1>1. CASE G_chain' = G_chain
  BY <1>1 DEF LedgerTypes
<1>2. CASE Len(G_chain) < G_MaxBlock /\ G_chain' = Append(G_chain, b)
  <2>1. Len(G_chain) \in Nat /\ DOMAIN G_chain = 1 .. Len(G_chain)
    BY DEF LedgerTypes
  <2>2. /\ G_chain' \in Seq(G!Block) /\ Len(G_chain') = Len(G_chain) + 1
        /\ G_chain'[Len(G_chain) + 1] = b
        /\ \A i \in 1 .. Len(G_chain) : G_chain'[i] = G_chain[i]
    BY <1>2 DEF LedgerTypes
  <2>3. DOMAIN G_chain' = 1 .. (Len(G_chain) + 1)
    BY <2>2
  <2>4. DOMAIN G_chain' = DOMAIN G_chain \cup {Len(G_chain) + 1}
    BY <2>1, <2>3
  <2>5. Len(G_chain') <= G_MaxBlock
    BY <1>2, <2>1, <2>2, GoodHolds
  <2> QED BY <2>1, <2>2, <2>3, <2>4, <2>5 DEF LedgerTypes
<1> QED BY <1>1, <1>2 DEF G!Logged

\* A verified recovery has the cause of its reference.
LEMMA CausesGrow ==
  ASSUME LedgerTypes, Caused, NEW b \in G!Block, G!Logged(b),
         G!GoodState(b) /\ ~Vouchless(b) =>
           \E ref \in DOMAIN G_chain :
             G!GoodState(G_chain[ref]) /\ G_chain[ref].hash = b.hash
  PROVE  Caused'
<1>1. /\ \A i \in DOMAIN G_chain : i \in DOMAIN G_chain' /\ G_chain'[i] = G_chain[i]
      /\ G_chain' = G_chain
           \/ /\ DOMAIN G_chain' = DOMAIN G_chain \cup {Len(G_chain) + 1}
              /\ G_chain'[Len(G_chain) + 1] = b
  BY LedgerGrows
<1>2. Len(G_chain) \in Nat /\ DOMAIN G_chain = 1 .. Len(G_chain)
  BY DEF LedgerTypes
<1> SUFFICES ASSUME NEW i \in DOMAIN G_chain', G!GoodState(G_chain'[i])
             PROVE  \E j \in 1 .. i : /\ G_chain'[j].hash = G_chain'[i].hash
                                      /\ Vouchless(G_chain'[j])
  BY DEF Caused, G!GoodState, Vouchless
<1>3. CASE i \in DOMAIN G_chain
  <2>1. PICK j \in 1 .. i : G_chain[j].hash = G_chain[i].hash /\ Vouchless(G_chain[j])
    BY <1>1, <1>3 DEF Caused
  <2>2. j \in DOMAIN G_chain
    BY <1>2, <1>3, <2>1
  <2> QED BY <1>1, <1>3, <2>1, <2>2
<1>4. CASE i \notin DOMAIN G_chain
  <2>1. i = Len(G_chain) + 1 /\ G_chain'[i] = b
    BY <1>1, <1>4
  <2>2. CASE Vouchless(b)
    BY <1>2, <2>1, <2>2
  <2>3. CASE ~Vouchless(b)
    <3>1. PICK ref \in DOMAIN G_chain :
            G!GoodState(G_chain[ref]) /\ G_chain[ref].hash = b.hash
      BY <2>1, <2>3
    <3>2. PICK j \in 1 .. ref :
            G_chain[j].hash = G_chain[ref].hash /\ Vouchless(G_chain[j])
      BY <3>1 DEF Caused
    <3>3. j \in DOMAIN G_chain /\ j \in 1 .. i
      BY <1>2, <2>1, <3>1, <3>2
    <3> QED BY <1>1, <2>1, <3>1, <3>2, <3>3
  <2> QED BY <2>2, <2>3
<1> QED BY <1>3, <1>4

\* Blocks keep their places, so references do.
LEMMA ReferencesGrow ==
  ASSUME Referenced, NEW rec, rec = G_rec', NEW answers, answers = G_answers',
         \A i \in DOMAIN G_chain : i \in DOMAIN G_chain' /\ G_chain'[i] = G_chain[i],
         \A r \in G_Recoverer :
           /\ rec[r].ref # 0 =>
                \/ rec[r].ref = G_rec[r].ref
                \/ rec[r].ref \in DOMAIN G_chain /\ G!GoodState(G_chain[rec[r].ref])
           /\ rec[r].at \in {"lookup", "log"} => rec[r].hash \in G_Content,
         \A a \in answers :
           \/ a \in G_answers
           \/ /\ a.ref \in DOMAIN G_chain /\ G!GoodState(G_chain[a.ref])
              /\ G_chain[a.ref].hash = a.hash
  PROVE  Referenced'
BY DEF Referenced, G!GoodState

LEMMA LedgerStays ==
  ASSUME LedgerTypes, Caused, Referenced, UNCHANGED <<G_chain, G_rec, G_answers>>
  PROVE  LedgerTypes' /\ Caused' /\ Referenced'
BY DEF LedgerTypes, Caused, Referenced

LEMMA BaselineStays ==
  ASSUME BaselineOnce, UNCHANGED <<G_chain, G_run, G_work>>, G_seen => G_seen'
  PROVE  BaselineOnce'
BY DEF BaselineOnce

-------------------------------------------------------------------------------
(* Every step keeps the invariant.                                         *)

\* The disk, its watchers and the snapshots.
WatchSteps ==
  \/ \E c \in G_Content \cup {G_Gone} : G!Change(c)
  \/ \E w \in G_Watcher : G!TakeDeletion(w) \/ G!TakeChange(w) \/ G!HashFile(w)
  \/ G!TakeSnapshot

LEMMA WatchKeeps ==
  ASSUME GoodInv, WatchSteps
  PROVE  GoodInv'
<1>1. /\ FileTypes /\ MonitorTypes /\ LedgerTypes /\ RestoreTypes
      /\ Caused /\ Referenced /\ BaselineOnce
  BY DEF GoodInv
<1>2. /\ UNCHANGED <<G_chain, G_rec, G_answers, G_run, G_work, G_lane, G_asked>>
      /\ G_seen' \in {G_seen, TRUE}
  BY DEF WatchSteps, G!Change, G!TakeDeletion, G!TakeChange, G!HashFile, G!TakeSnapshot,
         G!Monitor, G!Response
<1>3. FileTypes'
  <2>1. ASSUME NEW c \in G_Content \cup {G_Gone}, G!Change(c) PROVE FileTypes'
    BY <1>1, <2>1, GoodHolds DEF FileTypes, G!Change, G!Hashes, G!NoHash
  <2>2. ASSUME ~\E c \in G_Content \cup {G_Gone} : G!Change(c) PROVE FileTypes'
    BY <1>1, <2>2 DEF FileTypes, WatchSteps, G!TakeDeletion, G!TakeChange, G!HashFile,
                      G!TakeSnapshot
  <2> QED BY <2>1, <2>2
<1>4. MonitorTypes'
  <2> DEFINE Watch == [at : {"idle", "hash", "record"}, suspicious : BOOLEAN,
                       hash : G!Hashes]
  <2>1. CASE UNCHANGED G_watch
    BY <1>1, <1>2, <2>1 DEF MonitorTypes
  <2>2. ASSUME NEW w \in G_Watcher, G!TakeChange(w), ~UNCHANGED G_watch
        PROVE  G_watch' \in [G_Watcher -> Watch]
    <3>1. G_watch[w] \in Watch /\ G_watch \in [G_Watcher -> Watch]
      BY <1>1 DEF MonitorTypes
    <3>2. PICK x \in Watch : G_watch' = [G_watch EXCEPT ![w] = x]
      <4> DEFINE a == [G_watch[w] EXCEPT !.at = "hash",
                                         !.suspicious = G_disk \in G_Flagged]
                 b == [G_watch[w] EXCEPT !.at = "record"]
      <4>1. \A f \in BOOLEAN :
              [G_watch[w] EXCEPT !.at = "hash", !.suspicious = f] \in Watch
        BY <3>1
      <4>2. a \in Watch
        <5>1. (G_disk \in G_Flagged) \in BOOLEAN
          OBVIOUS
        <5> QED BY ZenonT(30), <4>1, <5>1
      <4>3. b \in Watch
        BY <3>1
      <4>4. \/ G_watch' = [G_watch EXCEPT ![w] = a]
            \/ G_watch' = [G_watch EXCEPT ![w] = b]
        BY <2>2, <3>1 DEF G!TakeChange
      <4> QED BY <4>2, <4>3, <4>4
    <3> QED BY <3>1, <3>2
  <2>3. ASSUME NEW w \in G_Watcher, G!HashFile(w)
        PROVE  G_watch' \in [G_Watcher -> Watch]
    <3> DEFINE a == [G_watch[w] EXCEPT !.at = "record", !.hash = G_disk]
    <3>1. G_watch[w] \in Watch /\ G_watch \in [G_Watcher -> Watch] /\ G_disk \in G!Hashes
      BY <1>1 DEF MonitorTypes, FileTypes
    <3>2. a \in Watch
      BY <3>1
    <3>3. G_watch' = [G_watch EXCEPT ![w] = a]
      BY <2>3 DEF G!HashFile
    <3> HIDE DEF a
    <3> QED BY <3>1, <3>2, <3>3
  <2>4. UNCHANGED G_watch \/ \E w \in G_Watcher : G!TakeChange(w) \/ G!HashFile(w)
    BY DEF WatchSteps, G!Change, G!TakeDeletion, G!TakeSnapshot, G!Monitor
  <2>5. G_watch' \in [G_Watcher -> Watch]
    BY <1>1, <2>2, <2>3, <2>4 DEF MonitorTypes
  <2> QED BY <1>1, <1>2, <2>5 DEF MonitorTypes
<1>5. RestoreTypes'
  <2>1. CASE G!TakeSnapshot
    BY <1>1, <1>2, <2>1 DEF RestoreTypes, G!TakeSnapshot, FileTypes, G!Hashes, G!NoHash
  <2>2. CASE ~G!TakeSnapshot
    BY <1>1, <1>2, <2>2 DEF RestoreTypes, WatchSteps, G!Change, G!TakeDeletion,
                            G!TakeChange, G!HashFile, G!Response
  <2> QED BY <2>1, <2>2
<1>6. LedgerTypes' /\ Caused' /\ Referenced'
  BY <1>1, <1>2, LedgerStays
<1>7. BaselineOnce'
  BY <1>1, <1>2, BaselineStays DEF MonitorTypes
<1> QED BY <1>3, <1>4, <1>5, <1>6, <1>7 DEF GoodInv

LEMMA AppendWorks ==
  ASSUME NEW T, NEW s \in Seq(T), NEW x \in T
  PROVE  /\ Append(s, x) \in Seq(T)
         /\ DOMAIN Append(s, x) = DOMAIN s \cup {Len(s) + 1}
         /\ \A i \in DOMAIN s : Append(s, x)[i] = s[i] /\ i # Len(s) + 1
         /\ Append(s, x)[Len(s) + 1] = x
<1>1. Len(s) \in Nat /\ DOMAIN s = 1 .. Len(s)
  OBVIOUS
<1>2. DOMAIN Append(s, x) = 1 .. (Len(s) + 1)
  OBVIOUS
<1> QED BY <1>1, <1>2

LEMMA TailWorks ==
  ASSUME NEW T, NEW s \in Seq(T), s # <<>>
  PROVE  /\ Tail(s) \in Seq(T) /\ Head(s) \in T /\ Head(s) = s[1] /\ 1 \in DOMAIN s
         /\ \A i \in DOMAIN Tail(s) :
              i + 1 \in DOMAIN s /\ i + 1 # 1 /\ Tail(s)[i] = s[i + 1]
<1>1. Len(s) \in Nat \ {0} /\ DOMAIN s = 1 .. Len(s)
  OBVIOUS
<1>2. Tail(s) \in Seq(T) /\ Len(Tail(s)) = Len(s) - 1
      /\ DOMAIN Tail(s) = 1 .. (Len(s) - 1)
  OBVIOUS
<1> QED BY <1>1, <1>2

LEMMA RecordKeeps ==
  ASSUME GoodInv, NEW w \in G_Watcher, G!RecordEvent(w)
  PROVE  GoodInv'
<1> DEFINE hash == G_watch[w].hash
           baseline == G!First(w) /\ hash # G!NoHash /\ ~G_watch[w].suspicious
           item == [kind |-> "baseline", hash |-> hash]
<1>1. /\ FileTypes /\ MonitorTypes /\ LedgerTypes /\ RestoreTypes
      /\ Caused /\ Referenced /\ BaselineOnce
  BY DEF GoodInv
<1>2. /\ UNCHANGED <<G_disk, G_changes, G_notes, G_run, G_chain, G_snaps, G_asked, G_rec,
                     G_answers>>
      /\ G_seen' = TRUE /\ G_watch' = [G_watch EXCEPT ![w] = G!IdleWatch]
      /\ G_lane' = IF G_watch[w].suspicious THEN Append(G_lane, hash) ELSE G_lane
      /\ G_work' = IF baseline THEN Append(G_work, item) ELSE G_work
  BY DEF G!RecordEvent, G!Response
<1>3. hash \in G!Hashes /\ G_lane \in Seq(G!Hashes) /\ G_work \in Seq(G!Item)
  BY <1>1 DEF MonitorTypes
<1>4. item \in G!Item
  BY <1>3 DEF G!Item
<1>5. baseline => ~G_seen
  BY DEF G!First
<1> HIDE DEF hash, baseline, item
<1>6. G_lane' \in Seq(G!Hashes)
  BY <1>2, <1>3, AppendWorks
<1>7. G_work' \in Seq(G!Item)
  BY <1>2, <1>3, <1>4, AppendWorks
<1>8. MonitorTypes'
  <2>1. G!IdleWatch \in [at : {"idle", "hash", "record"}, suspicious : BOOLEAN,
                         hash : G!Hashes]
    BY DEF G!IdleWatch, G!Hashes
  <2> QED BY <1>1, <1>2, <1>6, <1>7, <2>1 DEF MonitorTypes
<1>9. BaselineOnce'
  <2>1. CASE ~baseline
    BY <1>1, <1>2, <2>1, BaselineStays
  <2>2. CASE baseline
    <3>1. G_work' = Append(G_work, item)
      BY <1>2, <2>2
    <3>2. /\ DOMAIN G_work' = DOMAIN G_work \cup {Len(G_work) + 1}
          /\ \A i \in DOMAIN G_work : G_work'[i] = G_work[i]
      BY <1>3, <1>4, <3>1, AppendWorks
    <3>3. /\ \A k \in DOMAIN G_work' : G_work'[k].kind = "baseline" => k = Len(G_work) + 1
          /\ \A i \in DOMAIN G_chain : ~IsBase(G_chain[i], G_run)
      BY <1>1, <1>5, <2>2, <3>2 DEF BaselineOnce
    <3> QED BY <1>1, <1>2, <3>3 DEF BaselineOnce
  <2> QED BY <2>1, <2>2
<1>10. LedgerTypes' /\ Caused' /\ Referenced'
  BY <1>1, <1>2, LedgerStays
<1>11. FileTypes' /\ RestoreTypes'
  BY <1>1, <1>2 DEF FileTypes, RestoreTypes
<1> QED BY <1>8, <1>9, <1>10, <1>11 DEF GoodInv

LEMMA CorrelateKeeps ==
  ASSUME GoodInv, G!Correlate
  PROVE  GoodInv'
<1> DEFINE item == [kind |-> "alert", hash |-> Head(G_lane)]
<1>1. /\ FileTypes /\ MonitorTypes /\ LedgerTypes /\ RestoreTypes
      /\ Caused /\ Referenced /\ BaselineOnce
  BY DEF GoodInv
<1>2. /\ UNCHANGED <<G_disk, G_changes, G_notes, G_run, G_seen, G_watch, G_chain, G_snaps,
                     G_asked, G_rec, G_answers>>
      /\ G_lane # <<>> /\ G_lane' = Tail(G_lane) /\ G_work' = Append(G_work, item)
  BY DEF G!Correlate, G!Response
<1>3. G_lane \in Seq(G!Hashes) /\ G_work \in Seq(G!Item)
  BY <1>1 DEF MonitorTypes
<1>4. Head(G_lane) \in G!Hashes /\ G_lane' \in Seq(G!Hashes)
  BY <1>2, <1>3, TailWorks
<1>5. item \in G!Item /\ item.kind = "alert"
  BY <1>4 DEF G!Item
<1> HIDE DEF item
<1>6. /\ G_work' \in Seq(G!Item)
      /\ DOMAIN G_work' = DOMAIN G_work \cup {Len(G_work) + 1}
      /\ \A i \in DOMAIN G_work : G_work'[i] = G_work[i]
      /\ G_work'[Len(G_work) + 1] = item
  BY <1>2, <1>3, <1>5, AppendWorks
<1>7. MonitorTypes'
  BY <1>1, <1>2, <1>4, <1>6 DEF MonitorTypes
<1>8. BaselineOnce'
  <2>1. \A k \in DOMAIN G_work' : G_work'[k].kind = "baseline" =>
          k \in DOMAIN G_work /\ G_work[k].kind = "baseline"
    BY <1>5, <1>6
  <2> QED BY <1>1, <1>2, <2>1 DEF BaselineOnce
<1>9. LedgerTypes' /\ Caused' /\ Referenced'
  BY <1>1, <1>2, LedgerStays
<1>10. FileTypes' /\ RestoreTypes'
  BY <1>1, <1>2 DEF FileTypes, RestoreTypes
<1> QED BY <1>7, <1>8, <1>9, <1>10 DEF GoodInv

LEMMA RestartKeeps ==
  ASSUME GoodInv, G!RestartMonitor
  PROVE  GoodInv'
<1>1. /\ FileTypes /\ MonitorTypes /\ LedgerTypes /\ RestoreTypes
      /\ Caused /\ Referenced /\ BaselineOnce
  BY DEF GoodInv
<1>2. /\ UNCHANGED <<G_disk, G_changes, G_chain, G_snaps, G_asked, G_rec, G_answers>>
      /\ G_run < G_MaxRun /\ G_run' = G_run + 1 /\ G_notes' = {} /\ G_seen' = FALSE
      /\ G_watch' = [w \in G_Watcher |-> G!IdleWatch]
      /\ G_lane' = <<>> /\ G_work' = <<>>
  BY DEF G!RestartMonitor, G!Response
<1>3. MonitorTypes'
  <2>1. G!IdleWatch \in [at : {"idle", "hash", "record"}, suspicious : BOOLEAN,
                         hash : G!Hashes]
    BY DEF G!IdleWatch, G!Hashes
  <2>2. G_run + 1 \in 1 .. G_MaxRun
    BY <1>1, <1>2, GoodHolds DEF MonitorTypes
  <2>3. <<>> \in Seq(G!Hashes) /\ <<>> \in Seq(G!Item)
    OBVIOUS
  <2> QED BY <1>2, <2>1, <2>2, <2>3 DEF MonitorTypes
<1>4. BaselineOnce'
  <2>1. ASSUME NEW i \in DOMAIN G_chain
        PROVE  G_chain[i].run <= G_run' /\ ~IsBase(G_chain[i], G_run')
    <3>1. G_chain[i].run \in Nat
      <4>1. G_chain[i] \in G!Block
        BY <1>1 DEF LedgerTypes
      <4> QED BY <4>1 DEF G!Block
    <3>2. G_run \in Nat /\ G_run' = G_run + 1
      BY <1>1, <1>2 DEF MonitorTypes
    <3>3. G_chain[i].run <= G_run
      BY <1>1 DEF BaselineOnce
    <3> QED BY <3>1, <3>2, <3>3 DEF IsBase
  <2>3. DOMAIN G_work' = {}
    BY <1>2
  <2> QED BY <1>1, <1>2, <2>1, <2>3 DEF BaselineOnce
<1>5. LedgerTypes' /\ Caused' /\ Referenced'
  BY <1>1, <1>2, LedgerStays
<1>6. FileTypes' /\ RestoreTypes'
  BY <1>1, <1>2 DEF FileTypes, RestoreTypes
<1> QED BY <1>3, <1>4, <1>5, <1>6 DEF GoodInv

\* The drain posts the oldest item: what was queued is now in the chain, or
\* lost.
LEMMA DrainKeeps ==
  ASSUME GoodInv, G!Drain
  PROVE  GoodInv'
<1> DEFINE b == [type |-> Head(G_work).kind, hash |-> Head(G_work).hash,
                 verified |-> FALSE, run |-> G_run]
<1>1. /\ FileTypes /\ MonitorTypes /\ LedgerTypes /\ RestoreTypes
      /\ Caused /\ Referenced /\ BaselineOnce
  BY DEF GoodInv
<1>2. /\ UNCHANGED <<G_disk, G_changes, G_notes, G_run, G_seen, G_watch, G_lane,
                     G_snaps, G_asked, G_rec, G_answers>>
      /\ G_work # <<>> /\ G_work' = Tail(G_work) /\ G!Logged(b)
  BY DEF G!Drain, G!Response
<1>3. /\ Head(G_work) \in G!Item /\ Head(G_work) = G_work[1] /\ 1 \in DOMAIN G_work
      /\ G_work' \in Seq(G!Item)
      /\ \A i \in DOMAIN G_work' :
           i + 1 \in DOMAIN G_work /\ i + 1 # 1 /\ G_work'[i] = G_work[i + 1]
  <2>1. G_work \in Seq(G!Item)
    BY <1>1 DEF MonitorTypes
  <2> QED BY <1>2, <2>1, TailWorks
<1>4. /\ b \in G!Block /\ b.type = Head(G_work).kind /\ ~b.verified /\ b.run = G_run
      /\ b.type \in {"baseline", "alert"}
  <2>1. G_run \in 0 .. G_MaxRun
    BY <1>1, GoodHolds DEF MonitorTypes
  <2>2. Head(G_work).kind \in {"baseline", "alert"} /\ Head(G_work).hash \in G!Hashes
    BY <1>3 DEF G!Item
  <2> QED BY <2>1, <2>2 DEF G!Block
<1> HIDE DEF b
<1>5. Caused'
  <2>1. G!GoodState(b) => Vouchless(b)
    BY <1>4 DEF G!GoodState, Vouchless
  <2> QED BY <1>1, <1>2, <1>4, <2>1, CausesGrow
<1>6. /\ LedgerTypes'
      /\ \A i \in DOMAIN G_chain : i \in DOMAIN G_chain' /\ G_chain'[i] = G_chain[i]
      /\ G_chain' = G_chain
           \/ /\ DOMAIN G_chain' = DOMAIN G_chain \cup {Len(G_chain) + 1}
              /\ G_chain'[Len(G_chain) + 1] = b
  BY <1>1, <1>2, <1>4, LedgerGrows
<1>7. Referenced'
  <2>1. \A r \in G_Recoverer :
          /\ G_rec'[r].ref = G_rec[r].ref
          /\ G_rec'[r].at \in {"lookup", "log"} => G_rec'[r].hash \in G_Content
    BY <1>1, <1>2 DEF Referenced
  <2> QED BY <1>1, <1>2, <1>6, <2>1, ReferencesGrow
<1>8. MonitorTypes'
  BY <1>1, <1>2, <1>3 DEF MonitorTypes
<1>9. FileTypes' /\ RestoreTypes'
  BY <1>1, <1>2 DEF FileTypes, RestoreTypes
<1>10. BaselineOnce'
  <2>1. /\ \A i, j \in DOMAIN G_work' :
             G_work'[i].kind = "baseline" /\ G_work'[j].kind = "baseline" => i = j
        /\ b.type = "baseline" => \A k \in DOMAIN G_work' : G_work'[k].kind # "baseline"
        /\ \A k \in DOMAIN G_work' : G_work'[k].kind = "baseline" =>
             \E n \in DOMAIN G_work : G_work[n].kind = "baseline"
    <3>1. \A i, j \in DOMAIN G_work' : i + 1 = j + 1 => i = j
      BY <1>3
    <3> QED BY <1>1, <1>3, <1>4, <3>1 DEF BaselineOnce
  <2>2. \E n \in DOMAIN G_work : b.type = "baseline" => G_work[n].kind = "baseline"
    BY <1>3, <1>4
  <2>3. CASE G_chain' = G_chain
    BY <1>1, <1>2, <2>1, <2>3 DEF BaselineOnce
  <2>4. CASE /\ DOMAIN G_chain' = DOMAIN G_chain \cup {Len(G_chain) + 1}
             /\ G_chain'[Len(G_chain) + 1] = b
    <3>1. \A i \in DOMAIN G_chain' : G_chain'[i].run <= G_run
      <4>1. G_run <= G_run
        BY <1>1 DEF MonitorTypes
      <4> QED BY <1>1, <1>4, <1>6, <2>4, <4>1 DEF BaselineOnce
    <3>2. b.type = "baseline" =>
            G_seen /\ \A i \in DOMAIN G_chain : ~IsBase(G_chain[i], G_run)
      BY <1>1, <2>2 DEF BaselineOnce
    <3>3. \A i, j \in DOMAIN G_chain' :
            G_chain'[i].type = "baseline" /\ IsBase(G_chain'[j], G_chain'[i].run) => i = j
      BY <1>1, <1>4, <1>6, <2>4, <3>2 DEF BaselineOnce, IsBase
    <3>4. \A i \in DOMAIN G_chain', k \in DOMAIN G_work' :
            ~(IsBase(G_chain'[i], G_run) /\ G_work'[k].kind = "baseline")
      BY <1>1, <1>4, <1>6, <2>1, <2>4 DEF BaselineOnce, IsBase
    <3>5. ~G_seen => /\ \A i \in DOMAIN G_chain' : ~IsBase(G_chain'[i], G_run)
                     /\ \A k \in DOMAIN G_work' : G_work'[k].kind # "baseline"
      BY <1>1, <1>4, <1>6, <2>1, <2>4, <3>2 DEF BaselineOnce, IsBase
    <3> QED BY <1>2, <2>1, <3>1, <3>3, <3>4, <3>5 DEF BaselineOnce, IsBase
  <2> QED BY <1>6, <2>3, <2>4
<1> QED BY <1>5, <1>6, <1>7, <1>8, <1>9, <1>10 DEF GoodInv

-------------------------------------------------------------------------------
(* The Response service's steps.                                           *)

Recovery == [at : {"idle", "open", "copy", "hash", "lookup", "log"},
             from : G!Hashes, hash : G!Hashes, ref : 0 .. G_MaxBlock]

\* A recovery moves on, with no block and no answer: its reference, if it
\* has one, is a block that records a good state.
LEMMA RecoveryMoves ==
  ASSUME GoodInv, NEW r \in G_Recoverer, NEW q \in Recovery,
         G_rec' = [G_rec EXCEPT ![r] = q],
         q.ref # 0 => \/ q.ref = G_rec[r].ref
                      \/ q.ref \in DOMAIN G_chain /\ G!GoodState(G_chain[q.ref]),
         q.at \in {"lookup", "log"} => q.hash \in G_Content,
         UNCHANGED <<G_changes, G_run, G_seen, G_watch, G_lane, G_work, G_chain, G_snaps,
                     G_answers>>,
         G_disk' \in G!Hashes, G_notes' \subseteq {"changed", "deleted"},
         G_asked' \in 0 .. G_MaxAsk
  PROVE  GoodInv'
<1>1. /\ FileTypes /\ MonitorTypes /\ LedgerTypes /\ RestoreTypes
      /\ Caused /\ Referenced /\ BaselineOnce
  BY DEF GoodInv
<1>2. /\ G_rec' \in [G_Recoverer -> Recovery] /\ G_rec'[r] = q
      /\ \A s \in G_Recoverer : s # r => G_rec'[s] = G_rec[s]
  BY <1>1 DEF RestoreTypes, Recovery
<1>3. Referenced'
  <2>1. \A s \in G_Recoverer :
          /\ G_rec'[s].ref # 0 =>
               \/ G_rec'[s].ref = G_rec[s].ref
               \/ G_rec'[s].ref \in DOMAIN G_chain /\ G!GoodState(G_chain[G_rec'[s].ref])
          /\ G_rec'[s].at \in {"lookup", "log"} => G_rec'[s].hash \in G_Content
    BY <1>1, <1>2 DEF Referenced
  <2> QED BY <1>1, <2>1, ReferencesGrow
<1>4. FileTypes'
  BY <1>1 DEF FileTypes
<1>5. RestoreTypes'
  BY <1>1, <1>2 DEF RestoreTypes, Recovery
<1>6. MonitorTypes' /\ LedgerTypes' /\ Caused'
  BY <1>1 DEF MonitorTypes, LedgerTypes, Caused
<1>7. BaselineOnce'
  BY <1>1, BaselineStays
<1> QED BY <1>3, <1>4, <1>5, <1>6, <1>7 DEF GoodInv

LEMMA CopyKeeps ==
  ASSUME GoodInv, NEW r \in G_Recoverer,
         \/ \E c \in G_Content : G!AskRecover(r, c)
         \/ G!OpenCopy(r) \/ G!FinishCopy(r) \/ G!HashRestored(r) \/ G!LookUp(r)
  PROVE  GoodInv'
<1>1. /\ FileTypes /\ MonitorTypes /\ LedgerTypes /\ RestoreTypes
      /\ Caused /\ Referenced /\ BaselineOnce
  BY DEF GoodInv
<1>2. /\ UNCHANGED <<G_changes, G_run, G_seen, G_watch, G_lane, G_work, G_chain,
                     G_snaps, G_answers>>
  BY DEF G!AskRecover, G!OpenCopy, G!FinishCopy, G!HashRestored, G!LookUp, G!Monitor
<1>3. /\ G_disk' \in G!Hashes /\ G_notes' \subseteq {"changed", "deleted"}
      /\ G_asked' \in 0 .. G_MaxAsk
  <2>1. G_rec[r].from \in G!Hashes
    BY <1>1 DEF RestoreTypes
  <2>2. G_asked < G_MaxAsk => G_asked + 1 \in 0 .. G_MaxAsk
    BY <1>1, GoodHolds DEF RestoreTypes
  <2>3. G_Partial \in G!Hashes
    BY GoodHolds DEF G!Hashes
  <2> QED BY <1>1, <2>1, <2>2, <2>3
          DEF FileTypes, RestoreTypes, G!AskRecover, G!OpenCopy, G!FinishCopy,
              G!HashRestored, G!LookUp
<1> DEFINE q == G_rec[r]
<1>4. q \in Recovery /\ G_rec \in [G_Recoverer -> Recovery]
  BY <1>1 DEF RestoreTypes, Recovery
<1>5. ASSUME NEW c \in G_Content, G!AskRecover(r, c)
      PROVE  GoodInv'
  <2> DEFINE x == [G!IdleRec EXCEPT !.at = "open", !.from = c]
  <2>1. G!IdleRec \in Recovery /\ G!IdleRec.ref = 0 /\ c \in G!Hashes
    BY GoodHolds DEF G!IdleRec, Recovery, G!Hashes
  <2>2. x \in Recovery /\ x.at = "open" /\ x.ref = 0
    BY <2>1 DEF Recovery
  <2>3. G_rec' = [G_rec EXCEPT ![r] = x]
    BY <1>5 DEF G!AskRecover
  <2> HIDE DEF x
  <2> QED BY <1>2, <1>3, <2>2, <2>3, RecoveryMoves
<1> HIDE DEF q
<1>6. ASSUME NEW at \in {"copy", "hash"}, G!Step(r, at)
      PROVE  GoodInv'
  <2> DEFINE x == [q EXCEPT !.at = at]
  <2>1. x \in Recovery /\ x.at = at /\ x.ref = q.ref
    BY <1>4 DEF Recovery
  <2>2. G_rec' = [G_rec EXCEPT ![r] = x]
    BY <1>4, <1>6 DEF G!Step, q
  <2> HIDE DEF x
  <2> QED BY <1>2, <1>3, <2>1, <2>2, RecoveryMoves DEF q
<1>7. CASE G!OpenCopy(r) \/ G!FinishCopy(r)
  BY <1>6, <1>7 DEF G!OpenCopy, G!FinishCopy
<1>8. CASE G!HashRestored(r)
  <2>1. PICK next \in {"lookup", "log"} :
          G_rec' = [G_rec EXCEPT ![r] = [@ EXCEPT !.at = next, !.hash = G_disk]]
    BY <1>8 DEF G!HashRestored
  <2> DEFINE x == [q EXCEPT !.at = next, !.hash = G_disk]
  <2>2. G_disk \in G_Content
    BY <1>1, <1>8 DEF FileTypes, G!HashRestored, G!Hashes, G!NoHash
  <2>3. G_disk \in G!Hashes
    BY <1>1 DEF FileTypes
  <2>4. x \in Recovery /\ x.hash = G_disk /\ x.ref = q.ref
    BY <1>4, <2>3 DEF Recovery
  <2>5. G_rec' = [G_rec EXCEPT ![r] = x]
    BY <1>4, <2>1 DEF q
  <2> HIDE DEF x
  <2> QED BY <1>2, <1>3, <2>2, <2>4, <2>5, RecoveryMoves DEF q
<1>9. CASE G!LookUp(r)
  <2>1. PICK ref \in {0, G!LastKnown(G_chain)} :
          G_rec' = [G_rec EXCEPT ![r] = [@ EXCEPT !.at = "log", !.ref = ref]]
    BY <1>9 DEF G!LookUp
  <2> DEFINE x == [q EXCEPT !.at = "log", !.ref = ref]
  <2>2. ref # 0 => ref \in DOMAIN G_chain /\ G!GoodState(G_chain[ref])
    BY <1>1, <2>1, KnownIsGood
  <2>3. ref \in 0 .. G_MaxBlock
    BY <1>1, <2>2, GoodHolds DEF LedgerTypes
  <2>4. x \in Recovery /\ x.hash = q.hash /\ x.ref = ref
    BY <1>4, <2>3 DEF Recovery
  <2>5. G_rec' = [G_rec EXCEPT ![r] = x]
    BY <1>4, <2>1 DEF q
  <2>6. q.hash \in G_Content
    BY <1>1, <1>9 DEF Referenced, G!LookUp, q
  <2> HIDE DEF x
  <2> QED BY <1>2, <1>3, <2>2, <2>4, <2>5, <2>6, RecoveryMoves DEF q
<1> QED BY <1>5, <1>7, <1>8, <1>9

\* A recovery ends with a block, or with none, and perhaps an answer.
LEMMA RecoveryEnds ==
  ASSUME GoodInv, NEW r \in G_Recoverer, NEW b \in G!Block, G!Logged(b),
         b.type \in {"recovered", "failed"}, b.run = 0,
         G!GoodState(b) /\ ~Vouchless(b) =>
           \E ref \in DOMAIN G_chain :
             G!GoodState(G_chain[ref]) /\ G_chain[ref].hash = b.hash,
         G_rec' = [G_rec EXCEPT ![r] = G!IdleRec],
         UNCHANGED <<G_disk, G_changes, G_notes, G_run, G_seen, G_watch, G_lane, G_work,
                     G_snaps, G_asked>>,
         NEW answers, answers = G_answers',
         answers \subseteq [hash : G_Content, ref : 1 .. G_MaxBlock],
         \A a \in answers :
           \/ a \in G_answers
           \/ /\ a.ref \in DOMAIN G_chain /\ G!GoodState(G_chain[a.ref])
              /\ G_chain[a.ref].hash = a.hash
  PROVE  GoodInv'
<1>1. /\ FileTypes /\ MonitorTypes /\ LedgerTypes /\ RestoreTypes
      /\ Caused /\ Referenced /\ BaselineOnce
  BY DEF GoodInv
<1>2. G!IdleRec \in Recovery /\ G!IdleRec.ref = 0 /\ G!IdleRec.at = "idle"
  BY GoodHolds DEF G!IdleRec, Recovery, G!Hashes
<1>3. /\ G_rec' \in [G_Recoverer -> Recovery] /\ G_rec'[r] = G!IdleRec
      /\ \A s \in G_Recoverer : s # r => G_rec'[s] = G_rec[s]
  BY <1>1, <1>2 DEF RestoreTypes, Recovery
<1>4. /\ LedgerTypes'
      /\ \A i \in DOMAIN G_chain : i \in DOMAIN G_chain' /\ G_chain'[i] = G_chain[i]
      /\ G_chain' = G_chain
           \/ /\ DOMAIN G_chain' = DOMAIN G_chain \cup {Len(G_chain) + 1}
              /\ G_chain'[Len(G_chain) + 1] = b
  BY <1>1, LedgerGrows
<1>5. Caused'
  BY <1>1, CausesGrow
<1>6. Referenced'
  <2>1. \A s \in G_Recoverer :
          /\ G_rec'[s].ref # 0 => G_rec'[s].ref = G_rec[s].ref
          /\ G_rec'[s].at \in {"lookup", "log"} => G_rec'[s].hash \in G_Content
    BY <1>1, <1>2, <1>3 DEF Referenced
  <2> QED BY <1>1, <1>4, <2>1, ReferencesGrow
<1>7. RestoreTypes'
  BY <1>1, <1>3 DEF RestoreTypes, Recovery
<1>8. FileTypes' /\ MonitorTypes'
  BY <1>1 DEF FileTypes, MonitorTypes
<1>9. BaselineOnce'
  <2>1. 0 <= G_run
    BY <1>1 DEF MonitorTypes
  <2>2. \A i \in DOMAIN G_chain' :
          \/ i \in DOMAIN G_chain /\ G_chain'[i] = G_chain[i]
          \/ G_chain'[i].type # "baseline" /\ G_chain'[i].run = 0
    BY <1>4
  <2> QED BY <1>1, <2>1, <2>2 DEF BaselineOnce, IsBase
<1> QED BY <1>4, <1>5, <1>6, <1>7, <1>8, <1>9 DEF GoodInv

LEMMA FailKeeps ==
  ASSUME GoodInv, NEW r \in G_Recoverer, G!FailRestore(r)
  PROVE  GoodInv'
<1> DEFINE b == [type |-> "failed", hash |-> G!NoHash, verified |-> FALSE, run |-> 0]
<1>1. b \in G!Block /\ b.type = "failed" /\ b.run = 0
  BY GoodHolds DEF G!Block, G!Hashes
<1>2. ~G!GoodState(b)
  BY DEF G!GoodState
<1>3. /\ G!Logged(b) /\ G_rec' = [G_rec EXCEPT ![r] = G!IdleRec]
      /\ UNCHANGED <<G_disk, G_changes, G_notes, G_run, G_seen, G_watch, G_lane, G_work,
                     G_snaps, G_asked, G_answers>>
  BY DEF G!FailRestore, G!Monitor
<1>4. G_answers' \subseteq [hash : G_Content, ref : 1 .. G_MaxBlock]
  BY <1>3 DEF GoodInv, RestoreTypes
<1> HIDE DEF b
<1> QED BY <1>1, <1>2, <1>3, <1>4, RecoveryEnds

LEMMA LogKeeps ==
  ASSUME GoodInv, NEW r \in G_Recoverer, G!LogRecovered(r)
  PROVE  GoodInv'
<1> DEFINE b == G!Recovered(r)
           q == G_rec[r]
           a == [hash |-> q.hash, ref |-> q.ref]
<1>1. /\ FileTypes /\ MonitorTypes /\ LedgerTypes /\ RestoreTypes
      /\ Caused /\ Referenced /\ BaselineOnce
  BY DEF GoodInv
<1>2. /\ q.at = "log" /\ G!Logged(b) /\ G_rec' = [G_rec EXCEPT ![r] = G!IdleRec]
      /\ G_answers' = IF b.verified THEN G_answers \cup {a} ELSE G_answers
      /\ UNCHANGED <<G_disk, G_changes, G_notes, G_run, G_seen, G_watch, G_lane, G_work,
                     G_snaps, G_asked>>
  BY DEF G!LogRecovered, G!Monitor
<1>3. q \in Recovery
  BY <1>1 DEF RestoreTypes, Recovery
<1>4. /\ b.type = "recovered" /\ b.hash = q.hash /\ b.run = 0
      /\ b.verified <=> q.ref # 0 /\ G_chain[q.ref].hash = q.hash
      /\ b \in G!Block
  <2>1. G!Verified(q.ref, q.hash) \in BOOLEAN
    BY DEF G!Verified
  <2>2. q.hash \in G!Hashes /\ 0 \in 0 .. G_MaxRun
    BY <1>3, GoodHolds DEF Recovery
  <2>3. b = [type |-> "recovered", hash |-> q.hash,
             verified |-> G!Verified(q.ref, q.hash), run |-> 0]
    BY DEF G!Recovered
  <2>4. \A v \in BOOLEAN :
          [type |-> "recovered", hash |-> q.hash, verified |-> v, run |-> 0] \in G!Block
    BY <2>2 DEF G!Block
  <2>5. b \in G!Block
    BY ZenonT(30), <2>1, <2>3, <2>4
  <2>6. b.verified = G!Verified(q.ref, q.hash)
    BY <2>3
  <2>7. b.verified <=> q.ref # 0 /\ G_chain[q.ref].hash = q.hash
    BY ZenonT(30), <2>6 DEF G!Verified
  <2>8. b.type = "recovered" /\ b.hash = q.hash /\ b.run = 0
    BY <2>3
  <2> QED BY <2>5, <2>7, <2>8
<1>5. q.ref # 0 => q.ref \in DOMAIN G_chain /\ G!GoodState(G_chain[q.ref])
  BY <1>1 DEF Referenced
<1>6. q.hash \in G_Content
  BY <1>1, <1>2 DEF Referenced
<1> HIDE DEF b, q
<1>7. G!GoodState(b) /\ ~Vouchless(b) =>
        \E ref \in DOMAIN G_chain :
          G!GoodState(G_chain[ref]) /\ G_chain[ref].hash = b.hash
  BY <1>4, <1>5 DEF Vouchless
<1>8. b.verified => a \in [hash : G_Content, ref : 1 .. G_MaxBlock]
  <2>1. b.verified => q.ref \in 1 .. G_MaxBlock
    BY <1>3, <1>4, GoodHolds DEF Recovery
  <2> QED BY <1>6, <2>1
<1>9. G_answers' \subseteq [hash : G_Content, ref : 1 .. G_MaxBlock]
  BY <1>1, <1>2, <1>8 DEF RestoreTypes
<1>10. \A x \in G_answers' :
         \/ x \in G_answers
         \/ /\ x.ref \in DOMAIN G_chain /\ G!GoodState(G_chain[x.ref])
            /\ G_chain[x.ref].hash = x.hash
  BY <1>2, <1>4, <1>5
<1> QED BY <1>2, <1>4, <1>7, <1>9, <1>10, RecoveryEnds

LEMMA ResponseRestarts ==
  ASSUME GoodInv, G!RestartResponse
  PROVE  GoodInv'
<1>1. /\ FileTypes /\ MonitorTypes /\ LedgerTypes /\ RestoreTypes
      /\ Caused /\ Referenced /\ BaselineOnce
  BY DEF GoodInv
<1>2. /\ G_rec' = [s \in G_Recoverer |-> G!IdleRec]
      /\ UNCHANGED <<G_disk, G_changes, G_notes, G_run, G_seen, G_watch, G_lane, G_work,
                     G_chain, G_snaps, G_asked, G_answers>>
  BY DEF G!RestartResponse, G!Monitor
<1>3. G!IdleRec \in Recovery /\ G!IdleRec.ref = 0 /\ G!IdleRec.at = "idle"
  BY GoodHolds DEF G!IdleRec, Recovery, G!Hashes
<1>4. RestoreTypes'
  BY <1>1, <1>2, <1>3 DEF RestoreTypes, Recovery
<1>5. Referenced'
  BY <1>1, <1>2, <1>3 DEF Referenced
<1>6. FileTypes' /\ MonitorTypes' /\ LedgerTypes' /\ Caused' /\ BaselineOnce'
  BY <1>1, <1>2 DEF FileTypes, MonitorTypes, LedgerTypes, Caused, BaselineOnce
<1> QED BY <1>4, <1>5, <1>6 DEF GoodInv

LEMMA GoodStep ==
  ASSUME GoodInv, G!Next
  PROVE  GoodInv'
<1>1. ASSUME NEW w \in G_Watcher, G!RecordEvent(w)
      PROVE  GoodInv'
  BY <1>1, RecordKeeps
<1>2. WatchSteps \/ G!Correlate \/ G!Drain \/ G!RestartMonitor \/ G!RestartResponse
        => GoodInv'
  BY WatchKeeps, CorrelateKeeps, DrainKeeps, RestartKeeps, ResponseRestarts
<1>3. ASSUME NEW r \in G_Recoverer
      PROVE  /\ (\E c \in G_Content : G!AskRecover(r, c)) => GoodInv'
             /\ G!OpenCopy(r) \/ G!FinishCopy(r) \/ G!HashRestored(r) \/ G!LookUp(r)
                  => GoodInv'
             /\ G!FailRestore(r) \/ G!LogRecovered(r) => GoodInv'
  BY CopyKeeps, FailKeeps, LogKeeps
<1> QED BY <1>1, <1>2, <1>3 DEF G!Next, WatchSteps

LEMMA GoodStays ==
  ASSUME GoodInv, UNCHANGED G_vars
  PROVE  GoodInv'
BY DEF G_vars, GoodInv, FileTypes, MonitorTypes, LedgerTypes, RestoreTypes, Caused,
       Referenced, BaselineOnce

\* A set of which any two members are the same has one at most.
LEMMA OneAtMost ==
  ASSUME NEW T, \A x, y \in T : x = y
  PROVE  IsFiniteSet(T) /\ Cardinality(T) \in 0 .. 1 /\ (Cardinality(T) = 1 => T # {})
<1>1. CASE T = {}
  BY <1>1, FS_EmptySet
<1>2. CASE T # {}
  <2>1. PICK x \in T : T = {x}
    BY <1>2
  <2> QED BY <2>1, FS_Singleton
<1> QED BY <1>1, <1>2

LEMMA SameCount == \A T : G!Cardinality(T) = Cardinality(T)
BY DEF G!Cardinality, Cardinality

LEMMA GoodSays ==
  ASSUME GoodInv
  PROVE  G!TypeOK /\ G!CertifiedHasCause /\ G!OneBaselinePerRun
<1>1. G!TypeOK
  BY DEF GoodInv, FileTypes, MonitorTypes, LedgerTypes, RestoreTypes, G!TypeOK
<1>2. G!CertifiedHasCause
  <2>1. ASSUME NEW a \in G_answers
        PROVE  \E i \in 1 .. a.ref :
                 G_chain[i].hash = a.hash /\ Vouchless(G_chain[i])
    BY DEF GoodInv, Referenced, Caused
  <2> QED BY <2>1 DEF G!CertifiedHasCause, Vouchless
<1>3. G!OneBaselinePerRun
  <2> DEFINE made(n) == {i \in DOMAIN G_chain :
                           G_chain[i].type = "baseline" /\ G_chain[i].run = n}
             queued == {i \in DOMAIN G_work : G_work[i].kind = "baseline"}
  <2>1. ASSUME NEW n
        PROVE  /\ Cardinality(made(n)) \in 0 .. 1
               /\ Cardinality(made(n)) = 1 => made(n) # {}
    <3>1. \A i, j \in made(n) : i = j
      BY DEF GoodInv, BaselineOnce, IsBase
    <3> HIDE DEF made
    <3> QED BY <3>1, OneAtMost
  <2>2. Cardinality(queued) \in 0 .. 1 /\ (Cardinality(queued) = 1 => queued # {})
    <3>1. \A i, j \in queued : i = j
      BY DEF GoodInv, BaselineOnce
    <3> HIDE DEF queued
    <3> QED BY <3>1, OneAtMost
  <2>3. made(G_run) = {} \/ queued = {}
    BY DEF GoodInv, BaselineOnce, IsBase
  <2> HIDE DEF made, queued
  <2>4. Cardinality(made(G_run)) + Cardinality(queued) <= 1
    BY <2>1, <2>2, <2>3
  <2>5. \A n \in 1 .. G_MaxRun : Cardinality(made(n)) <= 1
    BY <2>1
  <2> QED BY <2>4, <2>5, SameCount DEF G!OneBaselinePerRun, made, queued
<1> QED BY <1>1, <1>2, <1>3

-------------------------------------------------------------------------------
(* Where a restore finds a file.                                           *)

LEMMA SnapsHold ==
  /\ S_Kept \subseteq [copy : S_Copy, form : {"bare"}]
  /\ S_Asked \subseteq S!Name /\ S_Request \subseteq Seq(S!Path)
  /\ S_MaxWrite \in Nat /\ S_MaxAsk \in Nat /\ S_MaxRecord \in Nat /\ S_MaxRun \in Nat
BY ResponseAssumption
   DEF ResponseAssumption, S!SnapshotsAssumption, S!Name, S!Form, S!Path

MakerRec == [at : {"idle", "create", "resolve", "log"}, copy : SUBSET S_Copy,
             device : S!Root]
SnapRow == [type : {"created", "failed"}, copy : SUBSET S_Copy, device : S!Root]
Reason == {"", "absent", "error"}
Outcome == [file : S_File, restored : BOOLEAN, put : Nat,
            why : Reason]
ReqRec == [at : {"idle", "root", "restore", "not_found", "no_access"},
           name : SUBSET S!Name, root : S!Root, left : Seq(S!Path),
           results : Seq(Outcome)]

HostTypes ==
  /\ S_host \in S!Hosts /\ S_folders \in [S_Kept -> S!Held]
  /\ S_disk \in S!Held /\ S_writes \in S!Version
CopyTypes ==
  S_copies \in [S_Copy -> [held : S!Held, state : {"unmade", "live", "deleted"}]]
MakerTypes ==
  /\ S_sched \in {"off", "paused", "on"} /\ S_runs \in 0 .. S_MaxRun
  /\ S_maker \in [S!Maker -> MakerRec]
RowTypes == S_ledger \in Seq(SnapRow) /\ Len(S_ledger) <= S_MaxRecord
ReqTypes == S_asks \in 0 .. S_MaxAsk /\ S_req \in ReqRec

HasBeen(c) == S_copies[c].state # "unmade"
\* A caller of create_snapshot holds a copy that was made, and the device it
\* found for it, if any, is that copy's own.
MakersKnow ==
  \A m \in S!Maker : S_maker[m].at \in {"resolve", "log"} =>
    \E c \in S_Copy :
      /\ S_maker[m].copy = {c} /\ HasBeen(c)
      /\ S_maker[m].at = "log" => S_maker[m].device \in {S!NoRoot, S!Device(c)}

RowsLead ==
  \A i \in DOMAIN S_ledger : S_ledger[i].type = "created" =>
    \E c \in S_Copy :
      /\ S_ledger[i].copy = {c} /\ HasBeen(c)
      /\ S_ledger[i].device \in {S!NoRoot, S!Device(c)}

\* The root a request found is the directory it named, or else the device of
\* the copy it named.
RootOf(n) ==
  \/ n \in S_Kept /\ S_req.root = S!Folder(n)
  \/ n \notin S_Kept /\ HasBeen(n.copy) /\ S_req.root = S!Device(n.copy)
RootIsNamed ==
  /\ S_req.at \in {"root", "restore"} => \E n \in S!Name : S_req.name = {n}
  /\ S_req.at = "restore" => \A n \in S_req.name : RootOf(n)
  /\ S_req.at # "restore" => S_req.results = <<>>

HeldOf(n, f) == IF n \in S_Kept THEN S_folders[n][f] ELSE S_copies[n.copy].held[f]
ResultsTrue ==
  \A i \in DOMAIN S_req.results, n \in S_req.name :
    LET r == S_req.results[i]
    IN /\ r.restored => r.put = HeldOf(n, r.file) /\ r.put # S!Absent
       /\ r.why = "absent" =>
            \/ HeldOf(n, r.file) = S!Absent
            \/ n \notin S_Kept /\ S_copies[n.copy].state = "deleted"

SnapTypes == HostTypes /\ CopyTypes /\ MakerTypes /\ RowTypes /\ ReqTypes
SnapInv == SnapTypes /\ MakersKnow /\ RowsLead /\ RootIsNamed /\ ResultsTrue

LEMMA SnapInit == ResponseInit /\ part = "snapshots" => SnapInv
<1> SUFFICES ASSUME S!Init PROVE SnapInv
  BY DEF ResponseInit
<1>1. \A v \in S!Version : [f \in S_File |-> v] \in S!Held
  BY DEF S!Held
<1>2. [f \in S_File |-> S!Absent] \in S!Held /\ 0 \in S!Version
  BY SnapsHold DEF S!Held, S!Version
<1>3. HostTypes
  BY <1>1, <1>2 DEF S!Init, HostTypes
<1>4. CopyTypes
  BY <1>2 DEF S!Init, CopyTypes, S!Blank
<1>5. S!NoRoot \in S!Root
  BY DEF S!Root
<1>6. MakerTypes
  BY <1>5, SnapsHold DEF S!Init, MakerTypes, S!IdleMaker, MakerRec
<1>7. RowTypes
  BY SnapsHold DEF S!Init, RowTypes
<1>8. ReqTypes
  BY <1>5, SnapsHold DEF S!Init, ReqTypes, ReqRec, S!IdleReq
<1>9. MakersKnow /\ RowsLead /\ RootIsNamed /\ ResultsTrue
  BY DEF S!Init, MakersKnow, S!IdleMaker, RowsLead, RootIsNamed, S!IdleReq, ResultsTrue
<1> QED BY <1>3, <1>4, <1>6, <1>7, <1>8, <1>9 DEF SnapInv, SnapTypes

\* A copy that was made keeps what it holds, and one deleted stays so.
CopiesGrow ==
  \A c \in S_Copy : HasBeen(c) =>
    /\ S_copies'[c].state # "unmade"
    /\ S_copies'[c].held = S_copies[c].held
    /\ S_copies[c].state = "deleted" => S_copies'[c].state = "deleted"

\* What is said of copies stays true as they grow.
LEMMA TrueOfCopies ==
  ASSUME SnapInv, CopiesGrow, UNCHANGED <<S_folders, S_req>>
  PROVE  (RootIsNamed /\ ResultsTrue)'
<1>1. ASSUME S_req.at = "restore", NEW n \in S_req.name
      PROVE  n \in S!Name /\ n.copy \in S_Copy /\ RootOf(n)
  BY <1>1 DEF SnapInv, SnapTypes, ReqTypes, ReqRec, RootIsNamed, S!Name
<1>2. RootIsNamed'
  BY <1>1 DEF SnapInv, RootIsNamed, RootOf, CopiesGrow, HasBeen
<1>3. ASSUME NEW i \in DOMAIN S_req.results, NEW n \in S_req.name
      PROVE  LET r == S_req.results[i]
             IN /\ r.restored => r.put = HeldOf(n, r.file)' /\ r.put # S!Absent
                /\ r.why = "absent" =>
                     \/ HeldOf(n, r.file)' = S!Absent
                     \/ n \notin S_Kept /\ S_copies'[n.copy].state = "deleted"
  <2>1. S_req.at = "restore"
    BY DEF SnapInv, RootIsNamed
  <2>2. n.copy \in S_Copy /\ RootOf(n)
    BY <1>1, <2>1
  <2>3. \A f : HeldOf(n, f)' = HeldOf(n, f)
    BY <2>2 DEF RootOf, HeldOf, CopiesGrow
  <2>4. n \notin S_Kept /\ S_copies[n.copy].state = "deleted"
          => S_copies'[n.copy].state = "deleted"
    BY <2>2 DEF RootOf, CopiesGrow
  <2> QED BY <2>3, <2>4 DEF SnapInv, ResultsTrue
<1>4. ResultsTrue'
  BY <1>3 DEF ResultsTrue
<1> QED BY <1>2, <1>4

LEMMA TrueOfMakers ==
  ASSUME SnapInv, CopiesGrow
  PROVE  /\ UNCHANGED S_maker => MakersKnow'
         /\ UNCHANGED S_ledger => RowsLead'
<1>1. ASSUME UNCHANGED S_maker PROVE MakersKnow'
  BY <1>1 DEF SnapInv, MakersKnow, CopiesGrow, HasBeen
<1>2. ASSUME UNCHANGED S_ledger PROVE RowsLead'
  BY <1>2 DEF SnapInv, RowsLead, CopiesGrow, HasBeen
<1> QED BY <1>1, <1>2

LEMMA SameCopies == UNCHANGED S_copies => CopiesGrow
BY DEF CopiesGrow, HasBeen

\* A copy that comes to be holds the files as they are.
LEMMA MadeGrows ==
  ASSUME SnapInv, NEW c \in S_Copy, S!Made(c)
  PROVE  CopiesGrow /\ CopyTypes' /\ S_copies'[c].state # "unmade"
<1>1. S_copies' = [S_copies EXCEPT ![c] = [held |-> S_disk, state |-> "live"]]
      /\ S_copies[c].state = "unmade"
  BY DEF S!Made
<1>2. S_disk \in S!Held /\ CopyTypes
  BY DEF SnapInv, SnapTypes, HostTypes
<1>3. CopyTypes'
  BY <1>1, <1>2 DEF CopyTypes
<1>4. S_copies'[c].state = "live" /\ \A x \in S_Copy : x # c => S_copies'[x] = S_copies[x]
  BY <1>1, <1>2 DEF CopyTypes
<1>5. CopiesGrow
  BY <1>1, <1>4 DEF CopiesGrow, HasBeen
<1> QED BY <1>3, <1>4, <1>5

WorldSteps ==
  \/ \E f \in S_File : S!Write(f)
  \/ \E c \in S_Copy : S!MadeByWindows(c) \/ S!Deleted(c)

LEMMA WorldKeeps ==
  ASSUME SnapInv, WorldSteps
  PROVE  SnapInv'
<1>1. UNCHANGED <<S_host, S_folders, S_sched, S_runs, S_maker, S_ledger, S_asks, S_req>>
  BY DEF WorldSteps, S!Write, S!MadeByWindows, S!Deleted, S!Making, S!Restoring
<1>2. S_disk' \in S!Held /\ S_writes' \in S!Version
  <2>1. ASSUME NEW f \in S_File, S!Write(f)
        PROVE  S_disk' \in S!Held /\ S_writes' \in S!Version
    <3>1. S_writes \in S!Version /\ S_writes' = S_writes + 1 /\ S_writes < S_MaxWrite
      BY <2>1 DEF S!Write, SnapInv, SnapTypes, HostTypes
    <3>2. S_writes' \in S!Version
      BY <3>1, SnapsHold DEF S!Version
    <3>3. PICK v \in S!Version \cup {S!Absent} : S_disk' = [S_disk EXCEPT ![f] = v]
      BY <2>1, <3>1, <3>2 DEF S!Write
    <3> QED BY <3>2, <3>3 DEF S!Held, SnapInv, SnapTypes, HostTypes
  <2>2. WorldSteps /\ ~(\E f \in S_File : S!Write(f)) => UNCHANGED <<S_disk, S_writes>>
    BY DEF WorldSteps, S!MadeByWindows, S!Deleted
  <2> QED BY <2>1, <2>2 DEF SnapInv, SnapTypes, HostTypes
<1>3. CopiesGrow /\ CopyTypes'
  <2>1. ASSUME NEW f \in S_File, S!Write(f) PROVE CopiesGrow /\ CopyTypes'
    BY <2>1, SameCopies DEF S!Write, SnapInv, SnapTypes, CopyTypes
  <2>2. ASSUME NEW c \in S_Copy, S!MadeByWindows(c) PROVE CopiesGrow /\ CopyTypes'
    BY <2>2, MadeGrows DEF S!MadeByWindows
  <2>3. ASSUME NEW c \in S_Copy, S!Deleted(c) PROVE CopiesGrow /\ CopyTypes'
    <3>1. S_copies' = [S_copies EXCEPT ![c].state = "deleted"] /\ CopyTypes
      BY <2>3 DEF S!Deleted, SnapInv, SnapTypes
    <3>2. CopyTypes'
      BY <3>1 DEF CopyTypes
    <3>3. \A x \in S_Copy : /\ S_copies'[x].held = S_copies[x].held
                            /\ S_copies'[x].state \in {S_copies[x].state, "deleted"}
      BY <3>1 DEF CopyTypes
    <3> QED BY <3>2, <3>3 DEF CopiesGrow, HasBeen
  <2> QED BY <2>1, <2>2, <2>3 DEF WorldSteps
<1>4. MakersKnow' /\ RowsLead' /\ RootIsNamed' /\ ResultsTrue'
  BY <1>1, <1>3, TrueOfCopies, TrueOfMakers
<1>5. SnapTypes'
  BY <1>1, <1>2, <1>3 DEF SnapInv, SnapTypes, HostTypes, MakerTypes, RowTypes, ReqTypes
<1> QED BY <1>4, <1>5 DEF SnapInv

SchedulerSteps ==
  \/ \E now \in S_RunNow : S!StartScheduler(now)
  \/ S!StopScheduler \/ S!Fire \/ S!ScriptAsks

LEMMA SchedulerKeeps ==
  ASSUME SnapInv, SchedulerSteps
  PROVE  SnapInv'
<1>1. UNCHANGED <<S_host, S_folders, S_disk, S_writes, S_copies, S_ledger, S_asks, S_req>>
  BY DEF SchedulerSteps, S!StartScheduler, S!StopScheduler, S!Fire, S!ScriptAsks,
         S!Restoring
<1>2. S_sched' \in {"off", "paused", "on"} /\ S_runs' \in 0 .. S_MaxRun
  BY SnapsHold DEF SchedulerSteps, S!StartScheduler, S!StopScheduler, S!Fire, S!ScriptAsks,
         S!Restoring, SnapInv, SnapTypes, MakerTypes
<1>3. \/ UNCHANGED S_maker
      \/ \E m \in S!Maker : S_maker' = [S_maker EXCEPT ![m].at = "create"]
  BY DEF SchedulerSteps, S!StartScheduler, S!StopScheduler, S!Fire, S!ScriptAsks, S!Maker
<1>4. S_maker' \in [S!Maker -> MakerRec]
      /\ \A m \in S!Maker :
           S_maker'[m].at \in {"resolve", "log"} => S_maker'[m] = S_maker[m]
  BY <1>3 DEF SnapInv, SnapTypes, MakerTypes, MakerRec
<1>5. CopiesGrow
  BY <1>1, SameCopies
<1>6. MakersKnow'
  BY <1>1, <1>4 DEF SnapInv, MakersKnow, HasBeen
<1>7. RowsLead' /\ RootIsNamed' /\ ResultsTrue'
  BY <1>1, <1>5, TrueOfCopies, TrueOfMakers
<1>8. SnapTypes'
  BY <1>1, <1>2, <1>4
     DEF SnapInv, SnapTypes, HostTypes, CopyTypes, MakerTypes, RowTypes, ReqTypes
<1> QED BY <1>6, <1>7, <1>8 DEF SnapInv

\* A block that is logged or lost, with what it says of a copy.
LEMMA RowLogged ==
  ASSUME SnapInv, NEW b \in SnapRow, S!Logged(b), CopiesGrow,
         b.type = "created" =>
           \E c \in S_Copy : /\ b.copy = {c} /\ S_copies'[c].state # "unmade"
                             /\ b.device \in {S!NoRoot, S!Device(c)}
  PROVE  RowTypes' /\ RowsLead'
<1>1. CASE UNCHANGED S_ledger
  BY <1>1, TrueOfMakers DEF SnapInv, SnapTypes, RowTypes
<1>2. CASE Len(S_ledger) < S_MaxRecord /\ S_ledger' = Append(S_ledger, b)
  <2>1. S_ledger \in Seq(SnapRow)
    BY DEF SnapInv, SnapTypes, RowTypes
  <2>2. RowTypes'
    BY <1>2, <2>1, SnapsHold DEF RowTypes
  <2>3. /\ DOMAIN S_ledger' = DOMAIN S_ledger \cup {Len(S_ledger) + 1}
        /\ \A i \in DOMAIN S_ledger : S_ledger'[i] = S_ledger[i]
        /\ S_ledger'[Len(S_ledger) + 1] = b
    BY <1>2, <2>1, AppendWorks
  <2>4. ASSUME NEW i \in DOMAIN S_ledger', S_ledger'[i].type = "created"
        PROVE  \E c \in S_Copy :
                 /\ S_ledger'[i].copy = {c} /\ S_copies'[c].state # "unmade"
                 /\ S_ledger'[i].device \in {S!NoRoot, S!Device(c)}
    <3>1. CASE i \in DOMAIN S_ledger
      BY <2>3, <2>4, <3>1 DEF SnapInv, RowsLead, CopiesGrow, HasBeen
    <3>2. CASE i = Len(S_ledger) + 1
      BY <2>3, <2>4, <3>2
    <3> QED BY <2>3, <3>1, <3>2
  <2> QED BY <2>2, <2>4 DEF RowsLead, HasBeen
<1> QED BY <1>1, <1>2 DEF S!Logged

LEMMA NothingIs == S!NoRoot \in S!Root /\ \A c \in S_Copy : S!Device(c) \in S!Root
BY DEF S!Root

LEMMA MakerIdles ==
  ASSUME SnapInv, NEW m \in S!Maker, S_maker' = [S_maker EXCEPT ![m] = S!IdleMaker],
         CopiesGrow
  PROVE  S_maker' \in [S!Maker -> MakerRec] /\ MakersKnow'
<1>1. S!IdleMaker \in MakerRec /\ S!IdleMaker.at = "idle"
  BY NothingIs DEF S!IdleMaker, MakerRec
<1>2. S_maker' \in [S!Maker -> MakerRec]
  BY <1>1 DEF SnapInv, SnapTypes, MakerTypes
<1>3. \A x \in S!Maker : S_maker'[x].at \in {"resolve", "log"} => S_maker'[x] = S_maker[x]
  BY <1>1 DEF SnapInv, SnapTypes, MakerTypes
<1>4. MakersKnow'
  BY <1>3 DEF SnapInv, MakersKnow, CopiesGrow, HasBeen
<1> QED BY <1>2, <1>4

LEMMA FailedKeeps ==
  ASSUME SnapInv, NEW m \in S!Maker, S!Failed(m), CopiesGrow
  PROVE  /\ S_maker' \in [S!Maker -> MakerRec] /\ MakersKnow'
         /\ RowTypes' /\ RowsLead'
<1>1. S_maker' \in [S!Maker -> MakerRec] /\ MakersKnow'
  BY MakerIdles DEF S!Failed
<1>2. RowTypes' /\ RowsLead'
  <2> DEFINE b == [type |-> "failed", copy |-> {}, device |-> S!NoRoot]
  <2>1. b \in SnapRow /\ b.type # "created"
    BY NothingIs DEF SnapRow
  <2>2. CASE m = "job"
    <3>1. S!Logged(b)
      BY <2>2 DEF S!Failed
    <3> QED BY <2>1, <3>1, RowLogged
  <2>3. CASE m # "job"
    BY <2>3, TrueOfMakers DEF S!Failed, SnapInv, SnapTypes, RowTypes
  <2> QED BY <2>2, <2>3
<1> QED BY <1>1, <1>2

LEMMA CreateKeeps ==
  ASSUME SnapInv, NEW m \in S!Maker, NEW c \in S_Copy, S!Create(m, c)
  PROVE  /\ S_maker' \in [S!Maker -> MakerRec] /\ MakersKnow'
         /\ RowTypes' /\ RowsLead' /\ CopyTypes' /\ CopiesGrow
<1>1. CopiesGrow /\ CopyTypes' /\ S_copies'[c].state # "unmade"
  BY MadeGrows DEF S!Create
<1>2. CASE S!Failed(m)
  BY <1>1, <1>2, FailedKeeps
<1>3. CASE /\ S_maker' = [S_maker EXCEPT ![m] = [@ EXCEPT !.at = "resolve", !.copy = {c}]]
           /\ UNCHANGED S_ledger
  <2>1. /\ S_maker' \in [S!Maker -> MakerRec]
        /\ S_maker'[m].at = "resolve" /\ S_maker'[m].copy = {c}
        /\ \A x \in S!Maker : x # m => S_maker'[x] = S_maker[x]
    BY <1>3 DEF SnapInv, SnapTypes, MakerTypes, MakerRec
  <2>2. MakersKnow'
    BY <1>1, <2>1 DEF SnapInv, MakersKnow, CopiesGrow, HasBeen
  <2> QED BY <1>1, <1>3, <2>1, <2>2, TrueOfMakers DEF SnapInv, SnapTypes, RowTypes
<1> QED BY <1>2, <1>3 DEF S!Create

LEMMA ResolveKeeps ==
  ASSUME SnapInv, NEW m \in S!Maker, S!Resolve(m)
  PROVE  S_maker' \in [S!Maker -> MakerRec] /\ MakersKnow'
<1>1. PICK c \in S_Copy : S_maker[m].copy = {c} /\ HasBeen(c)
  BY DEF SnapInv, MakersKnow, S!Resolve
<1>2. UNION {S!DeviceOf(x) : x \in {c}} \subseteq {S!NoRoot, S!Device(c)}
  BY DEF S!DeviceOf
<1>3. PICK d \in {S!NoRoot, S!Device(c)} :
        S_maker' = [S_maker EXCEPT ![m] = [@ EXCEPT !.at = "log", !.device = d]]
  BY <1>1, <1>2 DEF S!Resolve
<1>4. d \in S!Root
  BY NothingIs
<1>5. /\ S_maker' \in [S!Maker -> MakerRec]
      /\ S_maker'[m].copy = {c} /\ S_maker'[m].device = d
      /\ \A x \in S!Maker : x # m => S_maker'[x] = S_maker[x]
  BY <1>1, <1>3, <1>4 DEF SnapInv, SnapTypes, MakerTypes, MakerRec
<1>6. UNCHANGED S_copies
  BY DEF S!Resolve
<1>7. MakersKnow'
  BY <1>1, <1>5, <1>6 DEF SnapInv, MakersKnow, HasBeen
<1> QED BY <1>5, <1>7

LEMMA LogCreatedKeeps ==
  ASSUME SnapInv, NEW m \in S!Maker, S!LogCreated(m)
  PROVE  /\ S_maker' \in [S!Maker -> MakerRec] /\ MakersKnow'
         /\ RowTypes' /\ RowsLead'
<1> DEFINE b == [type |-> "created", copy |-> S_maker[m].copy,
                 device |-> S_maker[m].device]
<1>1. CopiesGrow /\ UNCHANGED S_copies
  BY SameCopies DEF S!LogCreated
<1>2. S_maker' \in [S!Maker -> MakerRec] /\ MakersKnow'
  BY <1>1, MakerIdles DEF S!LogCreated
<1>3. b \in SnapRow
  BY DEF SnapInv, SnapTypes, MakerTypes, MakerRec, SnapRow
<1>4. \E c \in S_Copy : /\ b.copy = {c} /\ S_copies'[c].state # "unmade"
                        /\ b.device \in {S!NoRoot, S!Device(c)}
  BY <1>1 DEF S!LogCreated, SnapInv, MakersKnow, HasBeen
<1>5. S!Logged(b)
  BY DEF S!LogCreated
<1> QED BY <1>1, <1>2, <1>3, <1>4, <1>5, RowLogged

MakerSteps ==
  \E m \in S!Maker :
    \/ S!CreateFails(m) \/ S!Resolve(m) \/ S!LogCreated(m)
    \/ \E c \in S_Copy : S!Create(m, c)

LEMMA MakerKeeps ==
  ASSUME SnapInv, MakerSteps
  PROVE  SnapInv'
<1>1. UNCHANGED <<S_host, S_folders, S_disk, S_writes, S_sched, S_runs, S_asks, S_req>>
  BY DEF MakerSteps, S!CreateFails, S!Resolve, S!LogCreated, S!Create, S!Restoring
<1>2. /\ S_maker' \in [S!Maker -> MakerRec] /\ MakersKnow'
      /\ RowTypes' /\ RowsLead' /\ CopyTypes' /\ CopiesGrow
  <2>1. ASSUME UNCHANGED S_copies PROVE CopyTypes' /\ CopiesGrow
    BY <2>1, SameCopies DEF SnapInv, SnapTypes, CopyTypes
  <2>2. ASSUME UNCHANGED S_ledger, UNCHANGED S_copies PROVE RowTypes' /\ RowsLead'
    BY <2>1, <2>2, TrueOfMakers DEF SnapInv, SnapTypes, RowTypes
  <2>3. ASSUME NEW m \in S!Maker, S!CreateFails(m)
        PROVE  /\ S_maker' \in [S!Maker -> MakerRec] /\ MakersKnow'
               /\ RowTypes' /\ RowsLead' /\ CopyTypes' /\ CopiesGrow
    BY <2>1, <2>3, FailedKeeps DEF S!CreateFails
  <2>4. ASSUME NEW m \in S!Maker, S!Resolve(m)
        PROVE  /\ S_maker' \in [S!Maker -> MakerRec] /\ MakersKnow'
               /\ RowTypes' /\ RowsLead' /\ CopyTypes' /\ CopiesGrow
    BY <2>1, <2>2, <2>4, ResolveKeeps DEF S!Resolve
  <2>5. ASSUME NEW m \in S!Maker, S!LogCreated(m)
        PROVE  /\ S_maker' \in [S!Maker -> MakerRec] /\ MakersKnow'
               /\ RowTypes' /\ RowsLead' /\ CopyTypes' /\ CopiesGrow
    BY <2>1, <2>5, LogCreatedKeeps DEF S!LogCreated
  <2> QED BY <2>3, <2>4, <2>5, CreateKeeps DEF MakerSteps
<1>3. RootIsNamed' /\ ResultsTrue'
  BY <1>1, <1>2, TrueOfCopies
<1>4. SnapTypes'
  BY <1>1, <1>2
     DEF SnapInv, SnapTypes, HostTypes, MakerTypes, ReqTypes
<1> QED BY <1>2, <1>3, <1>4 DEF SnapInv

\* A step of the request being served leaves everything else as it is.
LEMMA RequestOnly ==
  ASSUME SnapInv,
         UNCHANGED <<S_host, S_folders, S_writes, S_copies, S!Making>>,
         S_disk' \in S!Held, ReqTypes', (RootIsNamed /\ ResultsTrue)'
  PROVE  SnapInv'
<1>1. UNCHANGED <<S_sched, S_runs, S_maker, S_ledger>>
  BY DEF S!Making
<1>2. MakersKnow' /\ RowsLead'
  BY <1>1, SameCopies, TrueOfMakers
<1>3. SnapTypes'
  BY <1>1 DEF SnapInv, SnapTypes, HostTypes, CopyTypes, MakerTypes, RowTypes
<1> QED BY <1>2, <1>3 DEF SnapInv

LEMMA IdleRequest ==
  /\ S!IdleReq \in ReqRec /\ S!IdleReq.at = "idle" /\ S!IdleReq.results = <<>>
  /\ S!IdleReq.name = {}
BY NothingIs DEF S!IdleReq, ReqRec

\* A request that is not restoring says nothing of a file.
LEMMA NothingSaid ==
  ASSUME S_req'.results = <<>>, S_req'.at # "restore",
         S_req'.at = "root" => \E n \in S!Name : S_req'.name = {n}
  PROVE  (RootIsNamed /\ ResultsTrue)'
BY DEF RootIsNamed, ResultsTrue

LEMMA AskKeeps ==
  ASSUME SnapInv, NEW n \in S_Asked, NEW paths \in S_Request, S!Ask(n, paths)
  PROVE  SnapInv'
<1>1. S_req' = [S!IdleReq EXCEPT !.at = "root", !.name = {n}, !.left = paths]
  BY DEF S!Ask
<1>2. n \in S!Name /\ paths \in Seq(S!Path)
  BY SnapsHold
<1>3. S_req' \in ReqRec /\ S_req'.results = <<>> /\ S_req'.at = "root" /\ S_req'.name = {n}
  BY <1>1, <1>2, IdleRequest DEF ReqRec
<1>4. S_asks' \in 0 .. S_MaxAsk
  BY SnapsHold DEF S!Ask, SnapInv, SnapTypes, ReqTypes
<1>5. ReqTypes'
  BY <1>3, <1>4 DEF ReqTypes
<1>6. (RootIsNamed /\ ResultsTrue)'
  BY <1>2, <1>3, NothingSaid
<1> QED BY <1>5, <1>6, RequestOnly DEF S!Ask, SnapInv, SnapTypes, HostTypes

LEMMA AnswerKeeps ==
  ASSUME SnapInv, S!Answer
  PROVE  SnapInv'
<1>1. S_req' = S!IdleReq /\ UNCHANGED S_asks
  BY DEF S!Answer
<1>2. ReqTypes'
  BY <1>1, IdleRequest DEF SnapInv, SnapTypes, ReqTypes
<1>3. (RootIsNamed /\ ResultsTrue)'
  BY <1>1, IdleRequest, NothingSaid
<1> QED BY <1>2, <1>3, RequestOnly DEF S!Answer, SnapInv, SnapTypes, HostTypes

\* A name means the copy it spells, if that is listed.
LEMMA NamedCopy ==
  ASSUME NEW n \in S!Name, NEW listed, NEW c \in S!Named(listed, n)
  PROVE  c \in listed /\ c = n.copy
<1>1. [copy |-> c, form |-> "braced"] = [n EXCEPT !.form = "braced"]
  BY DEF S!Named, S!Normalised
<1>2. [n EXCEPT !.form = "braced"].copy = n.copy
  BY DEF S!Name
<1> QED BY <1>1, <1>2 DEF S!Named

LEMMA ResolveRootKeeps ==
  ASSUME SnapInv, S!ResolveRoot
  PROVE  SnapInv'
<1>1. PICK n \in S!Name : S_req.name = {n}
  BY DEF S!ResolveRoot, SnapInv, RootIsNamed
<1>2. S_req \in ReqRec /\ S_req.results = <<>>
  BY DEF S!ResolveRoot, SnapInv, SnapTypes, ReqTypes, RootIsNamed
<1>3. UNCHANGED <<S_host, S_folders, S_disk, S_writes, S_copies, S!Making, S_asks>>
  BY DEF S!ResolveRoot
<1>4. S_disk' \in S!Held
  BY <1>3 DEF SnapInv, SnapTypes, HostTypes
<1>5. DOMAIN S_folders = S_Kept
  BY DEF SnapInv, SnapTypes, HostTypes
<1>6. ASSUME NEW root \in S!Root, S!Rooted(root),
             \/ n \in S_Kept /\ root = S!Folder(n)
             \/ n \notin S_Kept /\ HasBeen(n.copy) /\ root = S!Device(n.copy)
      PROVE  SnapInv'
  <2>1. /\ S_req' \in ReqRec /\ S_req'.at = "restore" /\ S_req'.root = root
        /\ S_req'.name = {n} /\ S_req'.results = <<>>
    BY <1>1, <1>2, <1>6 DEF S!Rooted, ReqRec
  <2>2. ReqTypes'
    BY <1>3, <2>1 DEF SnapInv, SnapTypes, ReqTypes
  <2>3. RootOf(n)'
    BY <1>3, <1>6, <2>1 DEF RootOf, HasBeen
  <2>4. RootIsNamed'
    BY <2>1, <2>3 DEF RootIsNamed
  <2>5. ResultsTrue'
    BY <2>1 DEF ResultsTrue
  <2> QED BY <1>3, <1>4, <2>2, <2>4, <2>5, RequestOnly
<1>7. ASSUME NEW why \in {"not_found", "no_access"}, S!Refused(why)
      PROVE  SnapInv'
  <2>1. /\ S_req' \in ReqRec /\ S_req'.at = why /\ S_req'.results = <<>>
    BY <1>2, <1>7, IdleRequest DEF S!Refused, ReqRec
  <2>2. ReqTypes'
    BY <1>3, <2>1 DEF SnapInv, SnapTypes, ReqTypes
  <2>3. (RootIsNamed /\ ResultsTrue)'
    BY <2>1, NothingSaid
  <2> QED BY <1>3, <1>4, <2>2, <2>3, RequestOnly
<1>8. CASE n \in S_Kept
  <2>1. S!Rooted(S!Folder(n))
    BY <1>1, <1>5, <1>8 DEF S!ResolveRoot
  <2>2. S!Folder(n) \in S!Root
    BY DEF S!Root
  <2> QED BY <1>6, <1>8, <2>1, <2>2
<1>9. CASE n \notin S_Kept
  <2>1. \/ S!Refused("not_found") \/ S!Refused("no_access")
        \/ \E listed \in S!Listings, c \in S_Copy :
             c \in S!Named(listed, n) /\ S!Rooted(S!Device(c))
    <3>1. ASSUME NEW listed \in S!Listings, NEW c \in S!Named(listed, n)
          PROVE  c \in S_Copy
      BY <3>1, NamedCopy DEF S!Name
    <3> QED BY <1>1, <1>5, <1>9, <3>1 DEF S!ResolveRoot
  <2>2. ASSUME NEW listed \in S!Listings, NEW c \in S!Named(listed, n),
               S!Rooted(S!Device(c))
        PROVE  SnapInv'
    <3>1. c \in listed /\ c = n.copy
      BY NamedCopy
    <3>2. c \in S_Copy /\ HasBeen(c)
      BY <3>1 DEF S!Listings, S!Live, HasBeen
    <3> QED BY <1>6, <1>9, <2>2, <3>1, <3>2, NothingIs
  <2> QED BY <1>7, <2>1, <2>2
<1> QED BY <1>8, <1>9

\* What a restore finds is what the copy it was asked to use holds.
LEMMA FindsWhatIsHeld ==
  ASSUME SnapInv, S_req.at = "restore", NEW n \in S!Name, S_req.name = {n},
         NEW p \in S!Path,
         NEW source, source = S!Found(S_req.root, S!Join(S_req.root, S!ToRelative(p)))
  PROVE  /\ source \in S!Version \cup {S!Absent}
         /\ source # S!Absent => source = HeldOf(n, p.file)
         /\ source = S!Absent =>
              \/ HeldOf(n, p.file) = S!Absent
              \/ n \notin S_Kept /\ S_copies[n.copy].state = "deleted"
<1>1. RootOf(n) /\ n.copy \in S_Copy
  BY DEF SnapInv, RootIsNamed, S!Name
<1> DEFINE q == S!Join(S_req.root, S!ToRelative(p))
<1>2. p.file \in S_File
  BY DEF S!Path
<1>3. CASE n \in S_Kept
  <2>1. S_req.root.kind = "folder" /\ S_req.root.name = n
    BY <1>1, <1>3 DEF RootOf, S!Folder
  <2>2. q.sep = "/" /\ q.file = p.file
    BY <2>1 DEF S!Join, S!ToRelative, S!Path
  <2> HIDE DEF q
  <2>3. source = S_folders[n][p.file]
    BY <2>1, <2>2 DEF S!Found, q
  <2> QED BY <1>2, <1>3, <2>3 DEF SnapInv, SnapTypes, HostTypes, S!Held, HeldOf
<1>4. CASE n \notin S_Kept
  <2>1. S_req.root.kind = "device" /\ S_req.root.copy = n.copy /\ HasBeen(n.copy)
    BY <1>1, <1>4 DEF RootOf, S!Device
  <2>2. q.sep = "\\" /\ q.file = p.file
    BY <2>1 DEF S!Join, S!ToRelative, S!Path
  <2> HIDE DEF q
  <2>3. source = IF n.copy \in S!Live THEN S_copies[n.copy].held[p.file] ELSE S!Absent
    BY <2>1, <2>2 DEF S!Found, q
  <2>4. n.copy \in S!Live \/ S_copies[n.copy].state = "deleted"
    BY <1>1, <2>1 DEF HasBeen, S!Live, SnapInv, SnapTypes, CopyTypes
  <2> QED BY <1>1, <1>2, <1>4, <2>3, <2>4 DEF SnapInv, SnapTypes, CopyTypes, S!Held, HeldOf
<1> QED BY <1>3, <1>4

LEMMA RestoreKeeps ==
  ASSUME SnapInv, S!RestoreFile
  PROVE  SnapInv'
<1> DEFINE p == Head(S_req.left)
           source == S!Found(S_req.root, S!Join(S_req.root, S!ToRelative(p)))
<1>1. PICK n \in S!Name : S_req.name = {n}
  BY DEF S!RestoreFile, SnapInv, RootIsNamed
<1>2. S_req \in ReqRec /\ S_req.at = "restore" /\ S_req.left # <<>>
  BY DEF S!RestoreFile, SnapInv, SnapTypes, ReqTypes
<1>3. p \in S!Path /\ p.file \in S_File
  <2>1. S_req.left \in Seq(S!Path)
    BY <1>2 DEF ReqRec
  <2>2. p \in S!Path
    BY <1>2, <2>1, TailWorks
  <2> HIDE DEF p
  <2> QED BY <2>2 DEF S!Path
<1>4. Tail(S_req.left) \in Seq(S!Path)
  BY <1>2, TailWorks DEF ReqRec
<1>5. /\ source \in S!Version \cup {S!Absent}
      /\ source # S!Absent => source = HeldOf(n, p.file)
      /\ source = S!Absent =>
           \/ HeldOf(n, p.file) = S!Absent
           \/ n \notin S_Kept /\ S_copies[n.copy].state = "deleted"
  BY <1>1, <1>2, <1>3, FindsWhatIsHeld
<1>6. UNCHANGED <<S_host, S_folders, S_writes, S_copies, S!Making, S_asks>>
  BY DEF S!RestoreFile
<1>7. S_disk' \in S!Held
  <2>1. \/ UNCHANGED S_disk
        \/ source # S!Absent /\ S_disk' = [S_disk EXCEPT ![p.file] = source]
    BY DEF S!RestoreFile
  <2> HIDE DEF source, p
  <2> QED BY <1>5, <2>1 DEF SnapInv, SnapTypes, HostTypes, S!Held
<1>8. \E restored \in BOOLEAN, put \in S!Version \cup {S!Absent},
         why \in Reason :
        /\ S!Done(p, restored, put, why)
        /\ restored => put = source /\ source # S!Absent
        /\ why = "absent" => source = S!Absent
  <2>1. \/ source = S!Absent /\ S!Done(p, FALSE, S!Absent, "absent")
        \/ source # S!Absent /\ S!Done(p, TRUE, source, "")
        \/ source # S!Absent /\ S!Done(p, FALSE, S!Absent, "error")
    BY DEF S!RestoreFile
  <2>2. "" \in Reason /\ "absent" \in Reason /\ "error" \in Reason
        /\ "" # "absent" /\ "error" # "absent"
    BY Zenon DEF Reason
  <2> HIDE DEF source, p
  <2> QED BY <1>5, <2>1, <2>2, Zenon
<1> HIDE DEF source, p
<1>9. PICK restored \in BOOLEAN, put \in S!Version \cup {S!Absent},
           why \in Reason :
        /\ S!Done(p, restored, put, why)
        /\ restored => put = source /\ source # S!Absent
        /\ why = "absent" => source = S!Absent
  BY <1>8
<1>10. put \in Nat
  <2>1. S_MaxWrite \in Nat
    BY SnapsHold
  <2> QED BY <2>1 DEF S!Version, S!Absent
<1> DEFINE r == [file |-> p.file, restored |-> restored, put |-> put, why |-> why]
<1>11. r \in Outcome
  <2>1. p.file \in S_File
    BY <1>3
  <2> QED BY <1>10, <2>1, ZenonT(60) DEF Outcome
<1>12. /\ S_req' = [S_req EXCEPT !.left = Tail(S_req.left),
                                 !.results = Append(S_req.results, r)]
  BY <1>9 DEF S!Done
<1>13. r.file = p.file /\ r.restored = restored /\ r.put = put /\ r.why = why
  OBVIOUS
<1> HIDE DEF r
<1>14. S_req.results \in Seq(Outcome)
  BY <1>2 DEF ReqRec
<1>15. /\ Append(S_req.results, r) \in Seq(Outcome)
       /\ DOMAIN Append(S_req.results, r) =
            DOMAIN S_req.results \cup {Len(S_req.results) + 1}
       /\ \A i \in DOMAIN S_req.results : Append(S_req.results, r)[i] = S_req.results[i]
       /\ Append(S_req.results, r)[Len(S_req.results) + 1] = r
  <2>1. r \in Outcome
    BY <1>11
  <2> DEFINE s == S_req.results
  <2>2. s \in Seq(Outcome)
    BY <1>14
  <2> HIDE DEF s
  <2>3. /\ Append(s, r) \in Seq(Outcome)
        /\ DOMAIN Append(s, r) = DOMAIN s \cup {Len(s) + 1}
        /\ \A i \in DOMAIN s : Append(s, r)[i] = s[i]
        /\ Append(s, r)[Len(s) + 1] = r
    BY <2>1, <2>2, AppendWorks
  <2> QED BY <2>3 DEF s
<1>16. /\ S_req' \in ReqRec /\ S_req'.at = "restore" /\ S_req'.name = {n}
       /\ S_req'.root = S_req.root /\ S_req'.results = Append(S_req.results, r)
  BY <1>1, <1>2, <1>4, <1>12, <1>15 DEF ReqRec
<1>17. ReqTypes'
  BY <1>6, <1>16 DEF SnapInv, SnapTypes, ReqTypes
<1>18. RootIsNamed'
  BY <1>1, <1>2, <1>6, <1>16 DEF SnapInv, RootIsNamed, RootOf, HasBeen
<1>19. ASSUME NEW i \in DOMAIN S_req'.results
       PROVE  LET x == S_req'.results[i]
              IN /\ x.restored => x.put = HeldOf(n, x.file) /\ x.put # S!Absent
                 /\ x.why = "absent" =>
                      \/ HeldOf(n, x.file) = S!Absent
                      \/ n \notin S_Kept /\ S_copies[n.copy].state = "deleted"
  <2>1. CASE i \in DOMAIN S_req.results
    <3>1. S_req'.results[i] = S_req.results[i]
      BY <1>15, <1>16, <2>1
    <3> QED BY <1>1, <2>1, <3>1 DEF SnapInv, ResultsTrue
  <2>2. CASE i = Len(S_req.results) + 1
    BY <1>5, <1>9, <1>13, <1>15, <1>16, <2>2
  <2> QED BY <1>15, <1>16, <2>1, <2>2
<1>20. ResultsTrue'
  BY <1>6, <1>16, <1>19 DEF ResultsTrue, HeldOf
<1> QED BY <1>6, <1>7, <1>17, <1>18, <1>20, RequestOnly

LEMMA SnapStep ==
  ASSUME SnapInv, S!Next
  PROVE  SnapInv'
<1>1. /\ WorldSteps \/ SchedulerSteps \/ MakerSteps => SnapInv'
      /\ S!ResolveRoot \/ S!RestoreFile \/ S!Answer => SnapInv'
  BY WorldKeeps, SchedulerKeeps, MakerKeeps, ResolveRootKeeps, RestoreKeeps, AnswerKeeps
<1>2. (\E n \in S_Asked, paths \in S_Request : S!Ask(n, paths)) => SnapInv'
  BY AskKeeps
<1> QED BY <1>1, <1>2 DEF S!Next, WorldSteps, SchedulerSteps, MakerSteps

LEMMA SnapStays ==
  ASSUME SnapInv, UNCHANGED S_vars
  PROVE  SnapInv'
BY DEF S_vars, SnapInv, SnapTypes, HostTypes, CopyTypes, MakerTypes, RowTypes, ReqTypes,
       MakersKnow, RowsLead, RootIsNamed, RootOf, ResultsTrue, HeldOf, HasBeen

LEMMA SnapSays ==
  ASSUME SnapInv
  PROVE  S!TypeOK /\ S!RestoresWhatIsNamed /\ S!RecordedIsMade
<1>1. DOMAIN S_folders = S_Kept
  BY DEF SnapInv, SnapTypes, HostTypes
<1>2. S!TypeOK
  <2>1. S_Kept \subseteq S!Name
    BY SnapsHold DEF S!Name, S!Form
  <2>2. S_host \in S!Hosts /\ S_disk \in S!Held /\ S_writes \in S!Version
        /\ DOMAIN S_folders \subseteq S!Name
    BY <1>1, <2>1 DEF SnapInv, SnapTypes, HostTypes
  <2>3. /\ S_copies \in [S_Copy -> [held : S!Held, state : {"unmade", "live", "deleted"}]]
        /\ S_sched \in {"off", "paused", "on"} /\ S_runs \in 0 .. S_MaxRun
        /\ S_maker \in [S!Maker -> [at : {"idle", "create", "resolve", "log"},
                                    copy : SUBSET S_Copy, device : S!Root]]
    BY DEF SnapInv, SnapTypes, CopyTypes, MakerTypes, MakerRec
  <2>4. /\ Len(S_ledger) <= S_MaxRecord
        /\ \A i \in DOMAIN S_ledger :
             S_ledger[i] \in [type : {"created", "failed"}, copy : SUBSET S_Copy,
                              device : S!Root]
    <3>1. S_ledger \in Seq(SnapRow) /\ Len(S_ledger) <= S_MaxRecord
      BY DEF SnapInv, SnapTypes, RowTypes
    <3>2. \A i \in DOMAIN S_ledger : S_ledger[i] \in SnapRow
      BY <3>1
    <3> QED BY <3>1, <3>2 DEF SnapRow
  <2>5. /\ S_asks \in 0 .. S_MaxAsk
        /\ S_req.at \in {"idle", "root", "restore", "not_found", "no_access"}
        /\ S_req.name \subseteq S!Name /\ S_req.root \in S!Root
        /\ \A i \in DOMAIN S_req.left : S_req.left[i] \in S!Path
    BY DEF SnapInv, SnapTypes, ReqTypes, ReqRec
  <2> QED BY <2>2, <2>3, <2>4, <2>5 DEF S!TypeOK
<1>3. S!RestoresWhatIsNamed
  <2> SUFFICES ASSUME NEW i \in DOMAIN S_req.results, NEW n \in S_req.name
               PROVE  LET r == S_req.results[i]
                          folder == n \in DOMAIN S_folders
                          held == IF folder THEN S_folders[n][r.file]
                                  ELSE S_copies[n.copy].held[r.file]
                      IN /\ r.restored => r.put = held /\ held # S!Absent
                         /\ r.why = "absent" =>
                              held = S!Absent
                              \/ (~folder /\ S_copies[n.copy].state = "deleted")
    BY DEF S!RestoresWhatIsNamed
  <2> QED BY <1>1 DEF SnapInv, ResultsTrue, HeldOf
<1>4. S!RecordedIsMade
  BY DEF SnapInv, RowsLead, HasBeen, S!RecordedIsMade
<1> QED BY <1>2, <1>3, <1>4

-------------------------------------------------------------------------------
(* The theorems.                                                           *)

RecoveryInv ==
  /\ part = "good_state" => GoodInv
  /\ part = "snapshots" => SnapInv

LEMMA RecoveryHolds == ResponseSpec => []RecoveryInv
<1>1. ResponseInit => RecoveryInv
  BY GoodInit, SnapInit DEF RecoveryInv
<1>2. RecoveryInv /\ [ResponseNext]_ResponseVars => RecoveryInv'
  <2> SUFFICES ASSUME RecoveryInv, [ResponseNext]_ResponseVars
               PROVE  RecoveryInv'
    OBVIOUS
  <2>1. ASSUME part' = "good_state" PROVE GoodInv'
    <3>1. part = "good_state" /\ (G!Next \/ UNCHANGED G_vars)
      BY <2>1 DEF ResponseNext, ResponseVars
    <3> QED BY <3>1, GoodStep, GoodStays DEF RecoveryInv
  <2>2. ASSUME part' = "snapshots" PROVE SnapInv'
    <3>1. part = "snapshots" /\ (S!Next \/ UNCHANGED S_vars)
      BY <2>2 DEF ResponseNext, ResponseVars
    <3> QED BY <3>1, SnapStep, SnapStays DEF RecoveryInv
  <2> QED BY <2>1, <2>2 DEF RecoveryInv
<1> QED BY <1>1, <1>2, PTL DEF ResponseSpec

\* A flagged content is certified only where the reference itself went wrong
\* first, whatever crosses in the Monitor, the ledger and the Response
\* service, and a path has one baseline in a Monitor run (last_known_hash,
\* _recover_one, _record).
THEOREM BaselinesHold == ResponseSpec => []BaselineIsSound
<1>1. RecoveryInv => BaselineIsSound
  BY GoodSays DEF RecoveryInv, BaselineIsSound
<1> QED BY <1>1, RecoveryHolds, PTL

\* A file that was restored holds what the copy that was named held, one that
\* is "not present in the snapshot" is not in it or the copy is gone, and a
\* snapshot_created block leads to the copy it names or nowhere
\* (resolve_snapshot_root, restore_file, _device_object_for).
THEOREM RestoresHold == ResponseSpec => []RestoresWhatIsNamed
<1>1. RecoveryInv => RestoresWhatIsNamed
  BY SnapSays DEF RecoveryInv, RestoresWhatIsNamed
<1> QED BY <1>1, RecoveryHolds, PTL

\* Every variable of the Response service has its type, whichever of its
\* parts is in play.
THEOREM ResponseTypes == ResponseSpec => []ResponseTypeOK
<1>1. RecoveryInv /\ ResponseInv => ResponseTypeOK
  BY GoodSays, SnapSays
     DEF RecoveryInv, ResponseInv, FanoutInv, FanoutTypes, ResponseTypeOK
<1> QED BY <1>1, RecoveryHolds, ResponseHolds, PTL
===============================================================================
