-------------------------------- MODULE Fanout --------------------------------
(***************************************************************************)
(* One incident's way through the services: pipeline.run on the Monitor's  *)
(* drain thread, the escalation that may overtake it, and the Response     *)
(* service's handlers for /response/trigger and /response/terminate.       *)
(*                                                                         *)
(* A suspicious event has a first answer, is queued for the drain, and,    *)
(* when the answer is pending, leaves a question open.  The question may   *)
(* close, and its kill be asked for, while the event is still queued;      *)
(* `_show_closed` then writes the closing answer into the same event, from *)
(* which pipeline.run reads field after field without the lock.            *)
(*                                                                         *)
(* Every hop is one POST with a timeout: it may be lost, refused, or       *)
(* carried out after the caller has given up.  A PID may pass from one     *)
(* process to another between any two steps.                               *)
(***************************************************************************)
EXTENDS Naturals, Sequences, FiniteSets, SequencesExt

CONSTANTS
  Incident,
  Writer,  \* the PID of the process that wrote every file
  Other,   \* the PID of another process that wrote meanwhile
  NoPid,
  MaxGen,  \* bound on the processes that hold a PID one after the other
  Backends \* the isolation backends the host may have

\* What the constants must satisfy.
FanoutAssumption ==
  /\ Writer # Other /\ NoPid \notin {Writer, Other}
  /\ MaxGen \in Nat \ {0}
  /\ Backends \subseteq {"off", "none", "iptables", "netsh", "pfctl"}

VARIABLES
  gen,     \* how many processes have held each PID
  alive,   \* whether the last of them runs
  first,   \* each incident's first answer
  closing, \* its closing answer
  ques,    \* its question
  event,   \* the answer its event shows: PID and confidence
  work,    \* _work: incidents queued for the drain
  drain,   \* the drain thread: where it is in pipeline.run
  tail,    \* _tail: response_action blocks to write
  ended,   \* incidents whose own blocks are in the chain
  trig,    \* each incident's request to /response/trigger
  term,    \* each incident's request to /response/terminate
  backend, \* the host's isolation backend
  rules,   \* the isolation commands that took effect
  chain    \* the ledger's blocks about the incidents

vars ==
  <<gen, alive, first, closing, ques, event, work, drain, tail, ended, trig,
    term, backend, rules, chain>>

Host == <<gen, alive>>
Answers == <<first, closing, ques, event>>
Drain == <<work, drain, tail, ended>>
Service == <<trig, term, backend, rules>>

-------------------------------------------------------------------------------
Process == {Writer, Other}
Conf == {"unknown", "probable", "certain"}
Answer == [pid : Process \cup {NoPid}, conf : Conf, pending : BOOLEAN]
NoAnswer == [pid |-> NoPid, conf |-> "unknown", pending |-> FALSE]

\* What attribution can answer.  CERTAIN is never pending and names the
\* only process that wrote (WriteLog); a pending answer is not CERTAIN.
FirstAnswers ==
  {a \in Answer :
     /\ a.conf = "unknown" <=> a.pid = NoPid
     /\ a.conf = "certain" => a.pid = Writer /\ ~a.pending}
\* Two writers do not become one by the time the question closes.
ClosingAnswers(f) ==
  {a \in FirstAnswers :
     ~a.pending /\ (a.conf = "certain" => f.pid \in {NoPid, Writer})}

\* max by _rank; the Monitor's own verdict on a queued event is "high".
Highest(model) == IF model = "critical" THEN model ELSE "high"
\* Not the code: the model's level when it answered.
ModelFirst(model) == IF model = "none" THEN "high" ELSE model
\* effective_threat_level of what the model answered, "none" if nothing.
EffectiveLevel(model) == Highest(model)
Actionable == {"high", "critical"}

\* Not the code: whatever the answer named.
AnyPid(pid, conf) == pid
\* chained_pid: a block names a process only when the answer is CERTAIN.
ChainedPid(pid, conf) == IF conf = "certain" THEN pid ELSE NoPid

\* build_plan: the commands of a full isolation, one process each.  pfctl's
\* rules are never handed to it.
Commands(b) ==
  CASE b = "iptables" -> <<"lo out", "lo in", "drop out", "drop in">>
    [] b = "netsh" -> <<"block">>
    [] b = "pfctl" -> <<"load">>
    [] OTHER -> <<>>
Applied(b) == b \in {"iptables", "netsh", "pfctl"}

NoRequest == [at |-> "none", kill |-> FALSE, pid |-> NoPid, gen |-> 0,
              step |-> 1, acts |-> {}]
IdleDrain == [at |-> "idle", inc |-> 0, pid |-> NoPid, level |-> "low"]

Block(type, i, pid, acts) ==
  [type |-> type, inc |-> i, pid |-> pid, acts |-> acts]
\* A POST to the ledger that may fail; its caller goes on without.
Logged(b) == chain' \in {chain, chain \cup {b}}

-------------------------------------------------------------------------------
Init ==
  /\ gen = [p \in Process |-> 1] /\ alive = [p \in Process |-> TRUE]
  /\ first = [i \in Incident |-> NoAnswer] /\ closing = first
  /\ ques = [i \in Incident |-> "none"]
  /\ event = [i \in Incident |-> [pid |-> NoPid, conf |-> "unknown"]]
  /\ work = <<>> /\ drain = IdleDrain /\ tail = <<>> /\ ended = {}
  /\ trig = [i \in Incident |-> NoRequest] /\ term = trig
  /\ backend \in Backends /\ rules = {} /\ chain = {}

-------------------------------------------------------------------------------
(* The host.  Only the writer's process ends and gives its PID away.       *)

Exit(p) ==
  /\ alive[p] /\ alive' = [alive EXCEPT ![p] = FALSE]
  /\ UNCHANGED <<gen, Answers, Drain, Service, chain>>

\* The PID is given to a new process.
Reuse(p) ==
  /\ ~alive[p] /\ gen[p] < MaxGen
  /\ gen' = [gen EXCEPT ![p] = @ + 1] /\ alive' = [alive EXCEPT ![p] = TRUE]
  /\ UNCHANGED <<Answers, Drain, Service, chain>>

-------------------------------------------------------------------------------
(* The Monitor's lane and escalation threads.                              *)

\* _correlate: the first answer goes into the event, the event to the drain.
Correlate(i, a) ==
  /\ ques[i] = "none"
  /\ first' = [first EXCEPT ![i] = a]
  /\ event' = [event EXCEPT ![i] = [pid |-> a.pid, conf |-> a.conf]]
  /\ ques' = [ques EXCEPT ![i] = IF a.pending THEN "open" ELSE "never"]
  /\ work' = Append(work, i)
  /\ UNCHANGED <<Host, closing, drain, tail, ended, Service, chain>>

\* The question closes and _Escalator takes it: an answer that authorises a
\* kill is asked for, unless the writer is known gone or killed (KillMemory).
CloseAndAct(i, a) ==
  /\ ques[i] = "open"
  /\ closing' = [closing EXCEPT ![i] = a]
  /\ ques' = [ques EXCEPT ![i] = "acting"]
  /\ \/ UNCHANGED term
     \/ /\ a.conf = "certain"
        /\ term' = [term EXCEPT ![i] =
                     [NoRequest EXCEPT !.at = "guard", !.kill = TRUE,
                                       !.pid = a.pid]]
  /\ UNCHANGED <<Host, first, event, Drain, trig, backend, rules, chain>>

\* _show_closed, with the reply or after the timeout: the event now carries
\* the closing answer.
ShowClosed(i) ==
  /\ ques[i] = "acting"
  /\ ques' = [ques EXCEPT ![i] = "shown"]
  /\ event' = [event EXCEPT ![i] = [pid |-> closing[i].pid,
                                    conf |-> closing[i].conf]]
  /\ UNCHANGED <<Host, first, closing, Drain, Service, chain>>

\* record_escalation, behind the incident's own blocks.
RecordEscalation(i) ==
  /\ ques[i] = "shown" /\ i \in ended
  /\ ques' = [ques EXCEPT ![i] = "closed"]
  /\ Logged(Block("escalation", i,
                  ChainedPid(closing[i].pid, closing[i].conf), {}))
  /\ UNCHANGED <<Host, first, closing, event, Drain, Service>>

-------------------------------------------------------------------------------
(* The drain thread: pipeline.run, and _LedgerTail.                        *)

Go(at) == drain' = [drain EXCEPT !.at = at]

\* The model answers, or does not.
Predict ==
  /\ drain.at = "idle" /\ work # <<>>
  /\ \E model \in {"none", "low", "critical"} :
       drain' = [drain EXCEPT !.at = "read_pid", !.inc = Head(work),
                              !.level = EffectiveLevel(model)]
  /\ work' = Tail(work)
  /\ UNCHANGED <<Host, Answers, tail, ended, Service, chain>>

\* event.get("process_id"), for the block and again for the request.
ReadPid ==
  /\ drain.at \in {"read_pid", "read_pid_again"}
  /\ drain' = [drain EXCEPT !.pid = event[drain.inc].pid,
                 !.at = IF @ = "read_pid" THEN "log" ELSE "ask"]
  /\ UNCHANGED <<Host, Answers, work, tail, ended, Service, chain>>

\* event.get("attribution_confidence"), and the file_event block.
LogFileEvent ==
  /\ drain.at = "log"
  /\ Logged(Block("file_event", drain.inc,
                  ChainedPid(drain.pid, event[drain.inc].conf), {}))
  /\ Go(IF drain.level \in Actionable THEN "read_pid_again" ELSE "end")
  /\ UNCHANGED <<Host, Answers, work, tail, ended, Service>>

\* trigger_response: a kill is asked for when the answer that the event
\* shows is CERTAIN.  The request may never arrive.
Trigger ==
  LET i == drain.inc
      kill == drain.pid # NoPid /\ event[i].conf = "certain"
  IN /\ drain.at = "ask"
     /\ \E at \in {IF kill THEN "guard" ELSE "isolate", "lost"} :
          trig' = [trig EXCEPT ![i] =
                    [NoRequest EXCEPT !.at = at, !.kill = kill,
                                      !.pid = drain.pid]]
     /\ Go("wait")
     /\ UNCHANGED <<Host, Answers, work, tail, ended, term, backend, rules,
                    chain>>

\* The reply is a block for the tail thread.
Reply ==
  /\ drain.at = "wait" /\ trig[drain.inc].at = "done"
  /\ tail' = Append(tail, drain.inc)
  /\ drain' = IdleDrain
  /\ UNCHANGED <<Host, Answers, work, ended, Service, chain>>

\* No reply within DOWNSTREAM_TIMEOUT, an error, or nothing to ask.
NoReply ==
  /\ drain.at \in {"wait", "end"}
  /\ ended' = ended \cup {drain.inc}
  /\ drain' = IdleDrain
  /\ UNCHANGED <<Host, Answers, work, tail, Service, chain>>

WriteTail ==
  /\ tail # <<>>
  /\ Logged(Block("tail", Head(tail), NoPid, trig[Head(tail)].acts))
  /\ tail' = Tail(tail) /\ ended' = ended \cup {Head(tail)}
  /\ UNCHANGED <<Host, Answers, work, drain, Service>>

-------------------------------------------------------------------------------
(* The Response service, one thread per request.                           *)

\* A request that is one step on, with what the step did.
Moved(r, at, act) == [r EXCEPT !.at = at, !.acts = @ \cup act]
TrigTo(i, at, act) == trig' = [trig EXCEPT ![i] = Moved(@, at, act)]

\* guard: the PID is protected, cannot be inspected, or does not exist.
GuardTrigger(i) ==
  /\ trig[i].at = "guard"
  /\ \/ TrigTo(i, "isolate", {})
     \/ alive[trig[i].pid] /\ TrigTo(i, "open", {})
  /\ UNCHANGED <<Host, Answers, Drain, term, backend, rules, chain>>

\* psutil.Process(pid), which is not the one the guard looked at; there may
\* be none, and that exception is nobody's: the handler ends in an error.
OpenTrigger(i) ==
  LET pid == trig[i].pid
  IN /\ trig[i].at = "open"
     /\ \/ ~alive[pid] /\ TrigTo(i, "crashed", {})
        \/ /\ alive[pid]
           /\ trig' = [trig EXCEPT ![i] = [@ EXCEPT !.at = "signal",
                                                    !.gen = gen[pid]]]
     /\ UNCHANGED <<Host, Answers, Drain, term, backend, rules, chain>>

\* terminate, wait, kill: the process ends, had ended (psutil compares the
\* start time), or it could not be made to.
SignalTrigger(i) ==
  LET pid == trig[i].pid
      same == alive[pid] /\ gen[pid] = trig[i].gen
  IN /\ trig[i].at = "signal"
     /\ \/ /\ TrigTo(i, "isolate", {"terminated"})
           /\ alive' = IF same THEN [alive EXCEPT ![pid] = FALSE] ELSE alive
        \/ same /\ TrigTo(i, "isolate", {}) /\ UNCHANGED alive
     /\ UNCHANGED <<gen, Answers, Drain, term, backend, rules, chain>>

\* Not the code: whatever was tried counts.
TriedIt(b, step) == Applied(b)
\* What isolate_host reports after `step` - 1 commands went well.
Enforced(b, step) == Applied(b) /\ step > Len(Commands(b))

\* One command of the plan, or the answer; a command that fails ends it and
\* what was applied stays.  Only iptables and netsh have rules to apply.
Isolate(i) ==
  LET step == trig[i].step
      more == step <= Len(Commands(backend))
      over(n) == TrigTo(i, "report", {IF Enforced(backend, n)
                                      THEN "isolated" ELSE "planned"})
  IN /\ trig[i].at = "isolate"
     /\ \/ /\ more
           /\ rules' = IF backend = "pfctl" THEN rules
                       ELSE rules \cup {Commands(backend)[step]}
           /\ trig' = [trig EXCEPT ![i].step = step + 1]
        \/ over(step) /\ UNCHANGED rules
     /\ UNCHANGED <<Host, Answers, Drain, term, backend, chain>>

\* The response_action block, and the reply.
Report(i) ==
  /\ trig[i].at = "report"
  /\ Logged(Block("trigger", i, IF trig[i].kill THEN trig[i].pid ELSE NoPid,
                  trig[i].acts))
  /\ TrigTo(i, "done", {})
  /\ UNCHANGED <<Host, Answers, Drain, term, backend, rules>>

\* /response/terminate for a closed question, with the same guard and kill.
Terminate(i) ==
  LET pid == term[i].pid
  IN /\ term[i].at = "guard"
     /\ \E went \in {"refused", "terminated", "crashed"} :
          /\ went # "refused" => alive[pid]
          /\ term' = [term EXCEPT ![i].at = went]
          /\ alive' = IF went = "refused" THEN alive
                      ELSE [alive EXCEPT ![pid] = FALSE]
          /\ IF went = "crashed" THEN UNCHANGED chain
             ELSE Logged(Block("terminate", i, pid,
                               {went} \cap {"terminated"}))
     /\ UNCHANGED <<gen, Answers, Drain, trig, backend, rules>>

-------------------------------------------------------------------------------
Next ==
  \/ Exit(Writer) \/ Reuse(Writer)
  \/ \E i \in Incident :
       \/ \E a \in FirstAnswers : Correlate(i, a)
       \/ \E a \in ClosingAnswers(first[i]) : CloseAndAct(i, a)
       \/ ShowClosed(i) \/ RecordEscalation(i)
       \/ GuardTrigger(i) \/ OpenTrigger(i) \/ SignalTrigger(i)
       \/ Isolate(i) \/ Report(i) \/ Terminate(i)
  \/ Predict \/ ReadPid \/ LogFileEvent \/ Trigger \/ Reply \/ NoReply
  \/ WriteTail

Spec == Init /\ [][Next]_vars

-------------------------------------------------------------------------------
Request == [at : {"none", "lost", "guard", "open", "signal", "isolate",
                  "report", "done", "crashed", "refused", "terminated"},
            kill : BOOLEAN, pid : Process \cup {NoPid}, gen : 0 .. MaxGen,
            step : 1 .. 5, acts : SUBSET {"terminated", "isolated", "planned"}]

\* Every variable has its type, and an event under way is high at least.
TypeOK ==
  /\ gen \in [Process -> 1 .. MaxGen] /\ alive \in [Process -> BOOLEAN]
  /\ first \in [Incident -> Answer] /\ closing \in [Incident -> Answer]
  /\ ques \in [Incident -> {"none", "never", "open", "acting", "shown",
                            "closed"}]
  /\ event \in [Incident -> [pid : Process \cup {NoPid}, conf : Conf]]
  /\ work \in Seq(Incident) /\ tail \in Seq(Incident)
  /\ drain.at \in {"idle", "read_pid", "log", "read_pid_again", "ask",
                   "wait", "end"}
  /\ drain.at # "idle" => drain.level \in Actionable
  /\ ended \subseteq Incident
  /\ trig \in [Incident -> Request] /\ term \in [Incident -> Request]
  /\ backend \in Backends

\* Claim C-16 (chained_pid): whatever reads and updates of the event cross,
\* a block or a kill request that names a process names the one that a
\* CERTAIN answer of its own incident named.
Named(i, pid) ==
  \E a \in {first[i], closing[i]} : a.conf = "certain" /\ a.pid = pid
NamedIsCertain ==
  /\ \A b \in chain : b.pid # NoPid => Named(b.inc, b.pid)
  /\ \A i \in Incident : trig[i].kill => Named(i, trig[i].pid)

\* Every event that has been through pipeline.run was asked about, whatever
\* the model said or could not say; every request Response finished tried
\* the isolation, whatever became of the kill; and what it says was done was
\* done: the process is gone and every rule is in place (pfctl's apart, whose
\* rules are never loaded).  Only a process that ends between the guard and
\* the kill leaves a request without its isolation.
AnsweredInFull ==
  \A i \in Incident :
    /\ i \in ended => trig[i].at # "none"
    /\ trig[i].at = "crashed" => trig[i].kill
    /\ trig[i].at = "done" => trig[i].acts \cap {"isolated", "planned"} # {}
    /\ "isolated" \in trig[i].acts /\ backend # "pfctl"
         => ToSet(Commands(backend)) \subseteq rules
    /\ "terminated" \in trig[i].acts
         => ~(alive[trig[i].pid] /\ gen[trig[i].pid] = trig[i].gen)

\* What app.py:897-899 and pipeline.py:282-286 say: the response driven by a
\* first answer that was pending is not the destructive one; the closing
\* answer's kill is asked of /response/terminate.
FirstResponseSpares ==
  \A i \in Incident : first[i].pending => ~trig[i].kill
=============================================================================
