--------------------------- MODULE LeaseTableProofs ---------------------------
(***************************************************************************)
(* Proofs about LeaseTable for every number of PIDs, threads, leases and   *)
(* processes per PID, with counting (Windows) or idempotent (POSIX)        *)
(* suspends.  The inductive invariant is Inductive; its parts say what     *)
(* LeaseTable._lock protects and why no second suspend can reach a process *)
(* that is already frozen.                                                 *)
(***************************************************************************)
EXTENDS LeaseTable, TLAPS

-------------------------------------------------------------------------------
(* The inductive invariant.                                                *)

\* The lock is held by the thread that is suspending, or by the shutdown
\* while it resumes; a suspend never overlaps the shutdown.
LockInv ==
  /\ \A t \in Thread : th[t].pc = "armed" <=> lock = t
  /\ lock = Shutdown <=> svc = "resuming"
  /\ lock \in Thread => svc = "running"

\* The lease a thread is arming is its own and is not in the table yet, its
\* PID is not held, and the process was vetted against the claim.
ArmedInv ==
  \A t \in Thread : th[t].pc = "armed" =>
    /\ th[t].pid \in Pid
    /\ th[t].lease \in LeaseId
    /\ lease[th[t].lease].state = "armed"
    /\ lease[th[t].lease].pid = th[t].pid
    /\ heldBy[th[t].pid] = NoLease
    /\ th[t].claim # 0 /\ lease[th[t].lease].start # 0
         => lease[th[t].lease].inc <= th[t].claim

\* Threads past the entry of suspend or terminate work on a PID.
RequestInv ==
  \A t \in Thread : th[t].pc \in {"entered", "killing", "killed"} =>
    th[t].pid \in Pid

\* An issued lease names a PID and a process that has already been started,
\* and its recorded start time, where known, is that process's.
LeaseInv ==
  \A l \in LeaseId : lease[l].state # "free" =>
    /\ lease[l].pid \in Pid
    /\ lease[l].inc <= proc[lease[l].pid].inc
    /\ lease[l].start # 0 => lease[l].start = lease[l].inc

\* resume_all works on held leases, and every held lease is still to be tried
\* or has failed.
ShutdownInv ==
  /\ svc = "resuming" => \A l \in todo : Held(l)
  /\ svc = "resuming" => \A l \in LeaseId : Held(l) => l \in todo \cup failed

ThreadInv == LockInv /\ ArmedInv /\ RequestInv

TableInv ==
  /\ LeaseInv
  /\ OneLeasePerPid
  /\ HeldIsFrozen
  /\ FrozenIsHeld
  /\ NeverNested

DownInv == ShutdownInv /\ ShutdownReleasesAll

Inductive == TypeOK /\ ThreadInv /\ TableInv /\ DownInv

-------------------------------------------------------------------------------
(* Types of the values the steps write.                                    *)

LEMMA ProcessType ==
  ASSUME NEW q \in Process, NEW n \in Nat
  PROVE  /\ Dead(q) \in Process
         /\ [q EXCEPT !.susp = n] \in Process
BY DEF Process, Dead

LEMMA LeaseType ==
  ASSUME NEW r \in Lease, NEW n \in Nat,
         NEW s \in {"free", "armed", "held", "refused"} \cup Ended
  PROVE  /\ [r EXCEPT !.state = s] \in Lease
         /\ [r EXCEPT !.inc = n] \in Lease
         /\ [r EXCEPT !.expired = TRUE] \in Lease
BY DEF Lease, Ended

LEMMA WorkerType ==
  /\ \A w \in Worker :
       /\ [w EXCEPT !.pc = "entered"] \in Worker
       /\ [w EXCEPT !.pc = "killing"] \in Worker
       /\ [w EXCEPT !.pc = "logging"] \in Worker
  /\ \A w \in Worker, p \in Pid : [w EXCEPT !.pid = p] \in Worker
  /\ \A w \in Worker, n \in Nat : [w EXCEPT !.claim = n] \in Worker
  /\ \A w \in Worker, l \in LeaseId : [w EXCEPT !.lease = l] \in Worker
BY DEF Worker

LEMMA ResumeThroughType ==
  ASSUME TypeOK, NEW l \in LeaseId, lease[l].pid \in Pid
  PROVE  ResumeThrough(l) \in [Pid -> Process]
<1>1. proc[lease[l].pid] \in Process /\ proc \in [Pid -> Process]
  BY DEF TypeOK
<1>2. Resumed(proc[lease[l].pid].susp) \in Nat
  BY <1>1 DEF Process, Resumed
<1>3. [proc[lease[l].pid] EXCEPT !.susp = Resumed(@)] \in Process
  BY <1>1, <1>2, ProcessType
<1> QED
  BY <1>1, <1>3 DEF ResumeThrough

LEMMA EndType ==
  ASSUME TypeOK, NEW l \in LeaseId, NEW s \in Ended, End(l, s)
  PROVE  /\ lease' \in [LeaseId -> Lease]
         /\ heldBy' \in [Pid -> LeaseId \cup {NoLease}]
<1>1. [lease[l] EXCEPT !.state = s] \in Lease
  BY LeaseType DEF TypeOK
<1> QED
  BY <1>1 DEF TypeOK, End

-------------------------------------------------------------------------------
(* What the table keeps when a lease ends, a process dies or a suspend fails. *)

\* The lease table changed only in the states of leases.
SameLeases ==
  \A l \in LeaseId :
    /\ lease'[l].pid = lease[l].pid
    /\ lease'[l].inc = lease[l].inc
    /\ lease'[l].start = lease[l].start

LEMMA SetState ==
  ASSUME TypeOK, NEW l \in LeaseId, NEW s,
         lease' = [lease EXCEPT ![l].state = s]
  PROVE  /\ SameLeases
         /\ \A m \in LeaseId :
              lease'[m].state = IF m = l THEN s ELSE lease[m].state
BY DEF SameLeases, TypeOK, Lease

LEMMA QuietTable ==
  ASSUME TableInv, UNCHANGED <<proc, lease, heldBy>>
  PROVE  TableInv'
BY DEF TableInv, LeaseInv, OneLeasePerPid, HeldIsFrozen, FrozenIsHeld,
       NeverNested, Stranded, SameProcess, Held

LEMMA RefuseTable ==
  ASSUME Inductive, NEW l \in LeaseId, lease[l].state = "armed",
         lease' = [lease EXCEPT ![l].state = "refused"],
         UNCHANGED <<proc, heldBy>>
  PROVE  TableInv'
<1> USE DEF Inductive, TableInv
<1>1. /\ SameLeases
      /\ \A m \in LeaseId :
           lease'[m].state = IF m = l THEN "refused" ELSE lease[m].state
  BY DEF SameLeases, TypeOK, Lease
<1>2. \A m \in LeaseId : Held(m)' <=> Held(m)
  BY <1>1 DEF Held
<1>3. \A m \in LeaseId : SameProcess(m)' <=> SameProcess(m)
  BY <1>1 DEF SameProcess, SameLeases
<1>4. \A p \in Pid : Stranded(p)' <=> Stranded(p)
  BY <1>1, <1>3 DEF Stranded, SameLeases, Ended
<1>5. LeaseInv'
  BY <1>1 DEF LeaseInv, SameLeases
<1>6. OneLeasePerPid'
  BY <1>1, <1>2 DEF OneLeasePerPid, SameLeases, TypeOK
<1>7. HeldIsFrozen'
  BY <1>1, <1>2, <1>3 DEF HeldIsFrozen, SameLeases
<1>8. FrozenIsHeld' /\ NeverNested'
  BY <1>2, <1>3, <1>4 DEF FrozenIsHeld, NeverNested, TypeOK
<1> QED
  BY <1>5, <1>6, <1>7, <1>8

LEMMA EndTable ==
  ASSUME Inductive, NEW l \in LeaseId, Held(l), NEW s \in Ended,
         End(l, s),
         \/ s = "terminated" /\ UNCHANGED proc
         \/ s # "terminated" /\ proc' = ResumeThrough(l)
  PROVE  TableInv'
<1> USE DEF Inductive, TableInv
<1>1. /\ SameLeases
      /\ \A m \in LeaseId :
           lease'[m].state = IF m = l THEN s ELSE lease[m].state
  BY ZenonT(60), SetState DEF End
<1>2. PICK p0 \in Pid : lease[l].pid = p0 /\ heldBy[p0] = l
  BY DEF LeaseInv, OneLeasePerPid, Held
<1>3. \A m \in LeaseId : Held(m)' <=> Held(m) /\ m # l
  BY <1>1 DEF Held, Ended
<1>4. \A p \in Pid : heldBy'[p] = IF p = p0 THEN NoLease ELSE heldBy[p]
  BY <1>2 DEF End, TypeOK
<1>5. \A p \in Pid :
        /\ proc'[p].inc = proc[p].inc
        /\ proc'[p].alive = proc[p].alive
        /\ p # p0 => proc'[p].susp = proc[p].susp
  BY <1>2 DEF ResumeThrough, TypeOK, Process
<1>6. \A m \in LeaseId : lease[m].state # "free" =>
        (SameProcess(m)' <=> SameProcess(m))
  BY <1>1, <1>5 DEF SameProcess, SameLeases, LeaseInv
<1>7. \A p \in Pid : Stranded(p) => Stranded(p)'
  BY <1>1, <1>6 DEF Stranded, SameLeases, Held, Ended
<1>8. LeaseInv'
  BY <1>1, <1>5 DEF LeaseInv, SameLeases, Held
<1>9. OneLeasePerPid'
  <2>1. \A m \in LeaseId : Held(m)' => heldBy'[lease'[m].pid] = m
    BY <1>1, <1>2, <1>3, <1>4 DEF OneLeasePerPid, SameLeases, LeaseInv, Held
  <2>2. ASSUME NEW p \in Pid, heldBy'[p] # NoLease
        PROVE  (Held(heldBy[p]) /\ lease[heldBy[p]].pid = p)'
    <3>1. p # p0 /\ heldBy'[p] = heldBy[p] /\ heldBy[p] \in LeaseId
      BY <1>4, <2>2 DEF TypeOK
    <3>2. Held(heldBy[p]) /\ lease[heldBy[p]].pid = p
      BY <2>2, <3>1 DEF OneLeasePerPid
    <3> QED
      BY <1>1, <1>2, <1>3, <3>1, <3>2 DEF SameLeases
  <2> QED
    BY <2>1, <2>2 DEF OneLeasePerPid
<1>10. HeldIsFrozen'
  <2> SUFFICES ASSUME NEW m \in LeaseId, Held(m)', SameProcess(m)'
               PROVE  proc'[lease'[m].pid].susp > 0
    BY DEF HeldIsFrozen
  <2>1. Held(m) /\ m # l /\ lease[m].pid \in Pid
    BY <1>3 DEF LeaseInv, Held
  <2>2. lease[m].pid # p0
    BY <2>1, <1>2 DEF OneLeasePerPid
  <2> QED
    BY <1>1, <1>5, <1>6, <2>1, <2>2 DEF HeldIsFrozen, SameLeases, Held
<1>11. proc'[p0].susp = IF SameProcess(l) /\ s # "terminated"
                        THEN Resumed(proc[p0].susp) ELSE proc[p0].susp
  BY <1>2 DEF ResumeThrough, TypeOK, Process
<1>12. proc'[p0].susp > 0 => Stranded(p0)'
  <2> SUFFICES ASSUME proc'[p0].susp > 0 PROVE Stranded(p0)'
    OBVIOUS
  <2> proc[p0].susp \in Nat
    BY DEF TypeOK, Process
  <2>1. CASE SameProcess(l) /\ s = "terminated"
    BY <2>1, <1>1, <1>2, <1>6 DEF Stranded, Held, SameLeases
  <2>2. CASE SameProcess(l) /\ s # "terminated"
    <3>1. proc[p0].susp > 1
      BY <2>2, <1>11 DEF Resumed
    <3> QED
      BY <3>1, <1>7 DEF NeverNested
  <2>3. CASE ~SameProcess(l)
    <3>1. proc[p0].susp > 0 /\ heldBy[p0] = l
      BY <2>3, <1>2, <1>11
    <3> QED
      BY <2>3, <3>1, <1>7 DEF FrozenIsHeld
  <2> QED
    BY <2>1, <2>2, <2>3
<1>13. FrozenIsHeld'
  <2> SUFFICES ASSUME NEW p \in Pid, proc'[p].susp > 0
               PROVE  \/ (heldBy[p] # NoLease /\ SameProcess(heldBy[p]))'
                      \/ Stranded(p)'
    BY DEF FrozenIsHeld
  <2>1. CASE p = p0
    BY <2>1, <1>12
  <2>2. CASE p # p0 /\ heldBy[p] # NoLease /\ SameProcess(heldBy[p])
    <3>1. heldBy'[p] = heldBy[p] /\ heldBy[p] \in LeaseId /\ Held(heldBy[p])
      BY <2>2, <1>4 DEF TypeOK, OneLeasePerPid
    <3> QED
      BY <2>2, <3>1, <1>6 DEF Held
  <2>3. CASE p # p0 /\ Stranded(p)
    BY <2>3, <1>7
  <2> QED
    BY <2>1, <2>2, <2>3, <1>5 DEF FrozenIsHeld
<1>14. NeverNested'
  <2> SUFFICES ASSUME NEW p \in Pid, proc'[p].susp > 1
               PROVE  Stranded(p)'
    BY DEF NeverNested
  <2>1. CASE p = p0
    <3> proc'[p0].susp \in Nat
      BY <1>11 DEF Resumed, TypeOK, Process
    <3> QED
      BY <2>1, <1>12
  <2>2. CASE p # p0
    BY <2>2, <1>5, <1>7 DEF NeverNested
  <2> QED
    BY <2>1, <2>2
<1> QED
  BY <1>8, <1>9, <1>10, <1>13, <1>14

LEMMA DieTable ==
  ASSUME Inductive, NEW p \in Pid, proc' = [proc EXCEPT ![p] = Dead(@)],
         UNCHANGED <<lease, heldBy>>
  PROVE  TableInv'
<1> USE DEF Inductive, TableInv
<1>1. \A q \in Pid :
        /\ proc'[q].inc = proc[q].inc
        /\ q # p => proc'[q] = proc[q]
        /\ q = p => ~proc'[q].alive /\ proc'[q].susp = 0
  BY DEF Dead, TypeOK, Process
<1>2. \A m \in LeaseId : lease[m].state # "free" =>
        (SameProcess(m)' <=> SameProcess(m) /\ lease[m].pid # p)
  BY <1>1 DEF SameProcess, LeaseInv
<1>3. \A q \in Pid : q # p /\ Stranded(q) => Stranded(q)'
  BY <1>2 DEF Stranded
<1>4. LeaseInv' /\ OneLeasePerPid'
  BY <1>1 DEF LeaseInv, OneLeasePerPid, Held
<1>5. HeldIsFrozen'
  BY <1>1, <1>2 DEF HeldIsFrozen, Held, LeaseInv
<1>6. NeverNested'
  BY <1>1, <1>3 DEF NeverNested
<1>7. FrozenIsHeld'
  <2> SUFFICES ASSUME NEW q \in Pid, q # p, proc[q].susp > 0, ~Stranded(q)
               PROVE  (heldBy[q] # NoLease /\ SameProcess(heldBy[q]))'
    BY <1>1, <1>3 DEF FrozenIsHeld
  <2>1. heldBy[q] # NoLease /\ SameProcess(heldBy[q])
    BY DEF FrozenIsHeld
  <2>2. heldBy[q] \in LeaseId /\ Held(heldBy[q]) /\ lease[heldBy[q]].pid = q
    BY <2>1 DEF OneLeasePerPid, TypeOK
  <2> QED
    BY <2>1, <2>2, <1>2 DEF Held
<1> QED
  BY <1>4, <1>5, <1>6, <1>7

LEMMA SpawnTable ==
  ASSUME Inductive, NEW p \in Pid, Spawn(p)
  PROVE  TableInv'
<1> USE DEF Inductive, TableInv
<1>1. /\ ~proc[p].alive /\ lease' = lease /\ heldBy' = heldBy
      /\ proc'[p] = [inc |-> proc[p].inc + 1, alive |-> TRUE, susp |-> 0]
      /\ \A q \in Pid : q # p => proc'[q] = proc[q]
  BY DEF Spawn, TypeOK
<1>2. \A m \in LeaseId : lease[m].state # "free" =>
        (SameProcess(m)' <=> SameProcess(m))
  <2> SUFFICES ASSUME NEW m \in LeaseId, lease[m].state # "free"
               PROVE  SameProcess(m)' <=> SameProcess(m)
    OBVIOUS
  <2>1. lease[m].pid \in Pid /\ lease[m].inc <= proc[lease[m].pid].inc
    BY DEF LeaseInv
  <2>2. lease[m].inc \in Nat /\ proc[lease[m].pid].inc \in Nat
    BY <2>1 DEF TypeOK, Process, Lease
  <2> QED
    BY <1>1, <2>1, <2>2 DEF SameProcess
<1>3. \A q \in Pid : q # p /\ Stranded(q) => Stranded(q)'
  BY <1>1, <1>2 DEF Stranded
<1>4. LeaseInv' /\ OneLeasePerPid'
  <2>1. \A q \in Pid : proc[q].inc \in Nat /\ proc[q].inc <= proc'[q].inc
    <3>1. \A q \in Pid : proc[q].inc \in Nat
      BY DEF TypeOK, Process
    <3>2. proc'[p].inc = proc[p].inc + 1
      BY <1>1
    <3> QED
      BY <1>1, <3>1, <3>2
  <2>2. \A m \in LeaseId : lease[m].inc \in Nat
    BY DEF TypeOK, Lease
  <2>3. LeaseInv'
    <3> SUFFICES ASSUME NEW m \in LeaseId, lease[m].state # "free"
                 PROVE  lease[m].inc <= proc'[lease[m].pid].inc
      BY <1>1 DEF LeaseInv
    <3>1. lease[m].pid \in Pid /\ lease[m].inc <= proc[lease[m].pid].inc
      BY DEF LeaseInv
    <3>2. proc'[lease[m].pid].inc \in Nat
      BY <1>1, <2>1, <3>1
    <3> QED
      BY <2>1, <2>2, <3>1, <3>2
  <2> QED
    BY <1>1, <2>3 DEF OneLeasePerPid, Held
<1>5. HeldIsFrozen'
  BY <1>1, <1>2 DEF HeldIsFrozen, Held, SameProcess, LeaseInv
<1>6. NeverNested'
  BY <1>1, <1>3 DEF NeverNested
<1>7. FrozenIsHeld'
  <2> SUFFICES ASSUME NEW q \in Pid, q # p, proc[q].susp > 0, ~Stranded(q)
               PROVE  (heldBy[q] # NoLease /\ SameProcess(heldBy[q]))'
    BY <1>1, <1>3 DEF FrozenIsHeld
  <2>1. heldBy[q] # NoLease /\ SameProcess(heldBy[q])
    BY DEF FrozenIsHeld
  <2>2. heldBy[q] \in LeaseId /\ Held(heldBy[q])
    BY <2>1 DEF OneLeasePerPid, TypeOK
  <2> QED
    BY <1>1, <1>2, <2>1, <2>2 DEF Held
<1> QED
  BY <1>4, <1>5, <1>6, <1>7

LEMMA ExpireTable ==
  ASSUME Inductive, NEW l \in LeaseId, Expire(l)
  PROVE  TableInv'
<1> USE DEF Inductive, TableInv
<1>1. SameLeases /\ \A m \in LeaseId : lease'[m].state = lease[m].state
  BY DEF Expire, SameLeases, TypeOK, Lease
<1>2. proc' = proc /\ heldBy' = heldBy
  BY DEF Expire
<1>3. \A m \in LeaseId :
        /\ Held(m)' <=> Held(m)
        /\ SameProcess(m)' <=> SameProcess(m)
  BY <1>1, <1>2 DEF Held, SameProcess, SameLeases
<1>4. \A p \in Pid : Stranded(p)' <=> Stranded(p)
  BY <1>1, <1>3 DEF Stranded, SameLeases
<1>5. LeaseInv'
  BY <1>1, <1>2 DEF LeaseInv, SameLeases
<1>6. OneLeasePerPid' /\ HeldIsFrozen'
  <2>1. \A q \in Pid : heldBy[q] # NoLease =>
          (Held(heldBy[q]) /\ lease[heldBy[q]].pid = q)'
    BY SMTT(30), <1>1, <1>2, <1>3 DEF OneLeasePerPid, SameLeases, TypeOK
  <2>2. \A m \in LeaseId : Held(m)' => (heldBy[lease[m].pid] = m)'
    BY <1>1, <1>2, <1>3 DEF OneLeasePerPid, SameLeases
  <2>3. HeldIsFrozen'
    BY <1>1, <1>2, <1>3 DEF HeldIsFrozen, SameLeases
  <2> QED
    BY <2>1, <2>2, <2>3, <1>2 DEF OneLeasePerPid
<1>7. FrozenIsHeld' /\ NeverNested'
  BY <1>2, <1>3, <1>4 DEF FrozenIsHeld, NeverNested, TypeOK
<1> QED
  BY <1>5, <1>6, <1>7

\* Rebinding a lease to a handle of the process it was taken on changes
\* nothing the table says: a recorded start time is the process's own.
LEMMA RebindLease ==
  ASSUME Inductive, NEW t \in Thread, AcquireRebind(t)
  PROVE  lease' = lease
<1> PICK l \in LeaseId : l = heldBy[th[t].pid]
  BY DEF AcquireRebind, Admitted, Inductive, ThreadInv, RequestInv, TypeOK
<1>1. lease[l].inc = proc[th[t].pid].inc
  BY DEF AcquireRebind, Admitted, StartOf, Inductive, ThreadInv, RequestInv,
         TableInv, OneLeasePerPid, LeaseInv, Held
<1> QED
  BY <1>1 DEF AcquireRebind, Inductive, TypeOK, Lease

LEMMA ArmTable ==
  ASSUME Inductive, NEW t \in Thread, NEW l \in LeaseId, AcquireArm(t, l)
  PROVE  TableInv'
<1> USE DEF Inductive, TableInv
<1>1. PICK p \in Pid : p = th[t].pid
  BY DEF AcquireArm, Admitted, ThreadInv, RequestInv
<1>2. /\ proc' = proc
      /\ lease[l].state = "free"
      /\ \A q \in Pid : heldBy'[q] = IF q = p THEN NoLease ELSE heldBy[q]
  BY <1>1 DEF AcquireArm, TypeOK
<1>3. heldBy[p] # NoLease => Held(heldBy[p]) /\ ~SameProcess(heldBy[p])
  BY <1>1 DEF AcquireArm, StaleLease, OneLeasePerPid
<1>4. \A m \in LeaseId : m # l =>
        /\ lease'[m].pid = lease[m].pid
        /\ lease'[m].inc = lease[m].inc
        /\ lease'[m].start = lease[m].start
        /\ lease'[m].state = IF m = heldBy[p] THEN "gone" ELSE lease[m].state
  BY <1>1 DEF AcquireArm, TypeOK, Lease
<1>5. /\ lease'[l].state = "armed"
      /\ lease'[l].pid = p
      /\ lease'[l].inc = proc[p].inc
      /\ lease'[l].start \in {0, proc[p].inc}
  BY <1>1 DEF AcquireArm, StartOf
<1>6. \A m \in LeaseId : Held(m)' <=> Held(m) /\ m # heldBy[p]
  BY <1>2, <1>4, <1>5 DEF Held
<1>7. \A m \in LeaseId : m # l => (SameProcess(m)' <=> SameProcess(m))
  BY <1>2, <1>4 DEF SameProcess
<1>8. \A q \in Pid : Stranded(q) => Stranded(q)'
  <2> SUFFICES ASSUME NEW q \in Pid, NEW m \in LeaseId,
                      lease[m].state = "terminated", lease[m].pid = q,
                      SameProcess(m)
               PROVE  Stranded(q)'
    BY DEF Stranded
  <2>1. m # l /\ m # heldBy[p]
    BY <1>2, <1>3, NoLeaseAssumption DEF Held
  <2> QED
    BY <1>4, <1>7, <2>1 DEF Stranded
<1>9. LeaseInv'
  <2>1. lease'[l].pid \in Pid /\ lease'[l].inc <= proc'[p].inc
    BY <1>2, <1>5 DEF TypeOK, Process
  <2>2. \A m \in LeaseId : m # l /\ lease'[m].state # "free" =>
          lease[m].state # "free"
    BY <1>3, <1>4, NoLeaseAssumption DEF Held
  <2> QED
    BY <1>2, <1>4, <1>5, <2>1, <2>2 DEF LeaseInv
<1>10. OneLeasePerPid'
  <2>1. \A m \in LeaseId : Held(m)' => heldBy'[lease'[m].pid] = m
    <3> SUFFICES ASSUME NEW m \in LeaseId, Held(m)'
                 PROVE  heldBy'[lease'[m].pid] = m
      OBVIOUS
    <3>1. Held(m) /\ m # l /\ m # heldBy[p]
      BY <1>2, <1>6 DEF Held
    <3>2. lease[m].pid \in Pid /\ heldBy[lease[m].pid] = m
      BY <3>1 DEF OneLeasePerPid, LeaseInv, Held
    <3> QED
      BY <1>2, <1>4, <3>1, <3>2
  <2>2. ASSUME NEW q \in Pid, heldBy'[q] # NoLease
        PROVE  (Held(heldBy[q]) /\ lease[heldBy[q]].pid = q)'
    <3>1. q # p /\ heldBy'[q] = heldBy[q] /\ heldBy[q] \in LeaseId
      BY <1>2, <2>2 DEF TypeOK
    <3>2. Held(heldBy[q]) /\ lease[heldBy[q]].pid = q
      BY <2>2, <3>1 DEF OneLeasePerPid
    <3>3. heldBy[q] # l /\ heldBy[q] # heldBy[p]
      BY <1>2, <3>1, <3>2, <1>3, NoLeaseAssumption
      DEF Held, OneLeasePerPid
    <3> QED
      BY <1>4, <1>6, <3>1, <3>2, <3>3
  <2> QED
    BY <2>1, <2>2 DEF OneLeasePerPid
<1>11. HeldIsFrozen'
  <2> SUFFICES ASSUME NEW m \in LeaseId, Held(m)', SameProcess(m)'
               PROVE  proc'[lease'[m].pid].susp > 0
    BY DEF HeldIsFrozen
  <2>1. Held(m) /\ m # l
    BY <1>2, <1>6 DEF Held
  <2> QED
    BY <1>2, <1>4, <1>7, <2>1 DEF HeldIsFrozen
<1>12. FrozenIsHeld'
  <2> SUFFICES ASSUME NEW q \in Pid, proc[q].susp > 0, ~Stranded(q)
               PROVE  (heldBy[q] # NoLease /\ SameProcess(heldBy[q]))'
    BY <1>2, <1>8 DEF FrozenIsHeld
  <2>1. heldBy[q] # NoLease /\ SameProcess(heldBy[q])
    BY DEF FrozenIsHeld
  <2>2. q # p /\ heldBy'[q] = heldBy[q]
    BY <1>2, <1>3, <2>1
  <2>3. heldBy[q] # l
    BY <1>2, <2>1 DEF OneLeasePerPid, Held
  <2> QED
    BY <1>7, <2>1, <2>2, <2>3 DEF TypeOK
<1>13. NeverNested'
  BY <1>2, <1>8 DEF NeverNested
<1> QED
  BY <1>9, <1>10, <1>11, <1>12, <1>13

\* The suspend itself: the process is not frozen yet, unless it was stranded,
\* so the suspend count becomes one.
LEMMA SuspendTable ==
  ASSUME Inductive, NEW t \in Thread, AcquireSuspend(t)
  PROVE  TableInv'
<1> USE DEF Inductive, TableInv
<1>1. PICK p \in Pid, l \in LeaseId :
        /\ th[t].lease = l
        /\ lease[l].pid = p
        /\ lease[l].state = "armed"
        /\ heldBy[p] = NoLease
  BY DEF AcquireSuspend, LeaveAcquire, ThreadInv, ArmedInv
<1>2. lease' = [lease EXCEPT ![l].state = "held"]
  BY <1>1 DEF AcquireSuspend, LeaveAcquire
<1>3. /\ SameLeases
      /\ \A m \in LeaseId :
           lease'[m].state = IF m = l THEN "held" ELSE lease[m].state
  BY <1>2 DEF SameLeases, TypeOK, Lease
<1>4. \A q \in Pid : heldBy'[q] = IF q = p THEN l ELSE heldBy[q]
  BY <1>1 DEF AcquireSuspend, TypeOK
<1>5. \A q \in Pid :
        /\ proc'[q].inc = proc[q].inc
        /\ proc'[q].alive = proc[q].alive
        /\ proc'[q].susp = IF q = p THEN Suspended(proc[p].susp)
                           ELSE proc[q].susp
  BY <1>1 DEF AcquireSuspend, TypeOK, Process
<1>6. \A m \in LeaseId : Held(m)' <=> Held(m) \/ m = l
  BY <1>3 DEF Held
<1>7. SameProcess(l)'
  BY <1>1, <1>3, <1>5 DEF AcquireSuspend, SameProcess, SameLeases
<1>8. \A m \in LeaseId : lease[m].state # "free" =>
        (SameProcess(m)' <=> SameProcess(m))
  BY <1>3, <1>5 DEF SameProcess, SameLeases, LeaseInv
<1>9. \A q \in Pid : Stranded(q) => Stranded(q)'
  BY <1>1, <1>3, <1>8 DEF Stranded, SameLeases
<1>10. LeaseInv'
  BY <1>1, <1>3, <1>5 DEF LeaseInv, SameLeases
<1>11. OneLeasePerPid'
  <2>1. \A m \in LeaseId : Held(m)' => heldBy'[lease'[m].pid] = m
    <3> SUFFICES ASSUME NEW m \in LeaseId, Held(m), m # l
                 PROVE  heldBy'[lease'[m].pid] = m
      BY <1>1, <1>3, <1>4, <1>6 DEF SameLeases
    <3>1. heldBy[lease[m].pid] = m /\ lease[m].pid \in Pid
      BY DEF OneLeasePerPid, LeaseInv, Held
    <3> QED
      BY <3>1, <1>1, <1>3, <1>4, NoLeaseAssumption DEF SameLeases
  <2>2. ASSUME NEW q \in Pid, heldBy'[q] # NoLease
        PROVE  (Held(heldBy[q]) /\ lease[heldBy[q]].pid = q)'
    <3>1. CASE q = p
      BY <3>1, <1>1, <1>3, <1>4, <1>6 DEF SameLeases
    <3>2. CASE q # p
      BY <3>2, <2>2, <1>3, <1>4, <1>6 DEF SameLeases, OneLeasePerPid, TypeOK
    <3> QED
      BY <3>1, <3>2
  <2> QED
    BY <2>1, <2>2 DEF OneLeasePerPid
<1>12. Suspended(proc[p].susp) > 0
  BY DEF Suspended, TypeOK, Process
<1>13. HeldIsFrozen'
  <2> SUFFICES ASSUME NEW m \in LeaseId, Held(m)', SameProcess(m)'
               PROVE  proc'[lease'[m].pid].susp > 0
    BY DEF HeldIsFrozen
  <2>1. CASE m = l
    BY <2>1, <1>1, <1>3, <1>5, <1>12 DEF SameLeases
  <2>2. CASE m # l
    <3>1. Held(m) /\ SameProcess(m) /\ lease[m].pid \in Pid
      BY <2>2, <1>6, <1>8 DEF Held, LeaseInv
    <3> QED
      BY <3>1, <1>3, <1>5, <1>12 DEF HeldIsFrozen, SameLeases
  <2> QED
    BY <2>1, <2>2
<1>14. FrozenIsHeld'
  <2> SUFFICES ASSUME NEW q \in Pid, proc'[q].susp > 0
               PROVE  \/ (heldBy[q] # NoLease /\ SameProcess(heldBy[q]))'
                      \/ Stranded(q)'
    BY DEF FrozenIsHeld
  <2>1. CASE q = p
    BY <2>1, <1>4, <1>7, NoLeaseAssumption
  <2>2. CASE q # p /\ Stranded(q)
    BY <2>2, <1>9
  <2>3. CASE q # p /\ ~Stranded(q)
    <3>1. heldBy[q] # NoLease /\ SameProcess(heldBy[q])
      BY <2>3, <1>5 DEF FrozenIsHeld
    <3>2. heldBy[q] \in LeaseId /\ Held(heldBy[q]) /\ heldBy'[q] = heldBy[q]
      BY <2>3, <3>1, <1>4 DEF OneLeasePerPid, TypeOK
    <3> QED
      BY <3>1, <3>2, <1>8 DEF Held
  <2> QED
    BY <2>1, <2>2, <2>3
<1>15. NeverNested'
  <2> SUFFICES ASSUME NEW q \in Pid, proc'[q].susp > 1
               PROVE  Stranded(q)'
    BY DEF NeverNested
  <2>1. CASE q # p
    BY <2>1, <1>5, <1>9 DEF NeverNested
  <2>2. CASE q = p
    <3>1. proc[p].susp > 0
      BY SMTT(30), <2>2, <1>5 DEF Suspended, TypeOK, Process
    <3> QED
      BY <2>2, <3>1, <1>1, <1>9 DEF FrozenIsHeld
  <2> QED
    BY <2>1, <2>2
<1> QED
  BY <1>10, <1>11, <1>13, <1>14, <1>15

-------------------------------------------------------------------------------
(* Every action keeps the invariant.                                       *)

LEMMA AcquireEnterStep ==
  ASSUME Inductive, NEW t \in Thread, NEW p \in Pid, NEW claim \in 0 .. MaxInc,
         AcquireEnter(t, p, claim)
  PROVE  Inductive'
<1>1. TypeOK'
  <2>1. claim \in Nat
    BY MaxIncAssumption
  <2>2. [[[th[t] EXCEPT !.pc = "entered"] EXCEPT !.pid = p]
           EXCEPT !.claim = claim] \in Worker
    BY <2>1, WorkerType DEF Inductive, TypeOK
  <2> QED
    BY <2>2 DEF AcquireEnter, Inductive, TypeOK
<1>2. ThreadInv'
  BY DEF Inductive, ThreadInv, TypeOK, LockInv, ArmedInv, RequestInv, Idle,
         AcquireEnter
<1>3. TableInv'
  BY QuietTable DEF AcquireEnter, Inductive
<1>4. DownInv'
  BY DEF Inductive, DownInv, ShutdownInv, ShutdownReleasesAll, AcquireEnter
<1> QED
  BY <1>1, <1>2, <1>3, <1>4 DEF Inductive

LEMMA AcquireRefusedStep ==
  ASSUME Inductive, NEW t \in Thread, AcquireRefused(t)
  PROVE  Inductive'
<1>1. TypeOK'
  BY DEF Inductive, TypeOK, Worker, AcquireRefused, Idle
<1>2. ThreadInv'
  BY NobodyAssumption
  DEF AcquireRefused, Admitted, Inductive, ThreadInv, TypeOK, LockInv,
      ArmedInv, RequestInv, Idle
<1>3. TableInv'
  BY QuietTable DEF AcquireRefused, Inductive
<1>4. DownInv'
  BY DEF Inductive, Held, DownInv, ShutdownInv, ShutdownReleasesAll,
         AcquireRefused
<1> QED
  BY <1>1, <1>2, <1>3, <1>4 DEF Inductive

LEMMA AcquireAlreadyHeldStep ==
  ASSUME Inductive, NEW t \in Thread, AcquireAlreadyHeld(t)
  PROVE  Inductive'
<1>1. TypeOK'
  BY DEF Inductive, TypeOK, Worker, AcquireAlreadyHeld, Idle
<1>2. ThreadInv'
  BY DEF Inductive, ThreadInv, LockInv, ArmedInv, RequestInv, Idle,
         AcquireAlreadyHeld
<1>3. TableInv'
  BY QuietTable DEF AcquireAlreadyHeld, Inductive
<1>4. DownInv'
  BY DEF Inductive, DownInv, ShutdownInv, ShutdownReleasesAll,
         AcquireAlreadyHeld
<1> QED
  BY <1>1, <1>2, <1>3, <1>4 DEF Inductive

LEMMA AcquireRebindStep ==
  ASSUME Inductive, NEW t \in Thread, AcquireRebind(t)
  PROVE  Inductive'
<1>1. TypeOK'
  BY RebindLease DEF Inductive, TypeOK, AcquireRebind, Idle, Worker
<1>2. ThreadInv'
  <2>1. LockInv' /\ RequestInv'
    BY SMTT(30), NobodyAssumption
    DEF Inductive, ThreadInv, LockInv, RequestInv, Idle, AcquireRebind, Admitted
  <2>2. ArmedInv'
    BY SMTT(30), NobodyAssumption
    DEF Inductive, ThreadInv, LockInv, ArmedInv, Idle, AcquireRebind, Admitted
  <2> QED BY <2>1, <2>2 DEF ThreadInv
<1>3. TableInv'
  BY RebindLease, QuietTable DEF AcquireRebind, Inductive
<1>4. DownInv'
  BY DEF Inductive, DownInv, ShutdownInv, ShutdownReleasesAll, AcquireRebind
<1> QED
  BY <1>1, <1>2, <1>3, <1>4 DEF Inductive

LEMMA AcquireArmStep ==
  ASSUME Inductive, NEW t \in Thread, NEW l \in LeaseId, AcquireArm(t, l)
  PROVE  Inductive'
<1>1. TypeOK'
  <2>1. th[t].pid \in Pid /\ proc[th[t].pid].inc \in Nat
    BY DEF AcquireArm, Admitted, Inductive, ThreadInv, RequestInv, TypeOK,
           Process
  <2>2. lease' \in [LeaseId -> Lease]
    <3>1. \A m \in LeaseId : [lease[m] EXCEPT !.state = "gone"] \in Lease
      BY LeaseType DEF Inductive, TypeOK, Ended
    <3> QED
      BY <2>1, <3>1 DEF AcquireArm, StartOf, Inductive, TypeOK, Lease
  <2>3. th' \in [Thread -> Worker]
    <3>1. heldBy[th[t].pid] \in LeaseId \cup {NoLease}
      BY <2>1 DEF Inductive, TypeOK
    <3>2. [[[th[t] EXCEPT !.pc = "armed"] EXCEPT !.lease = l]
             EXCEPT !.gone = heldBy[th[t].pid]] \in Worker
      BY ZenonT(60), <3>1 DEF Inductive, TypeOK, Worker
    <3> QED
      BY <3>2 DEF AcquireArm, Inductive, TypeOK
  <2> QED
    BY <2>1, <2>2, <2>3 DEF AcquireArm, Inductive, TypeOK
<1>2. ThreadInv'
  <2>1. \A u \in Thread : u # t => th'[u] = th[u]
    BY DEF AcquireArm, Inductive, TypeOK
  <2>2. \A u \in Thread : th[u].pc # "armed"
    BY NobodyAssumption DEF AcquireArm, Admitted, Inductive, ThreadInv, LockInv
  <2>3. /\ th'[t].pc = "armed" /\ th'[t].lease = l
        /\ th'[t].pid = th[t].pid /\ th'[t].claim = th[t].claim
    BY DEF AcquireArm, Inductive, TypeOK, Worker
  <2>4. th[t].pid \in Pid
    <3>1. th[t].pc = "entered"
      BY DEF AcquireArm, Admitted
    <3> QED BY <3>1 DEF Inductive, ThreadInv, RequestInv
  <2>5. LockInv'
    <3>1. svc = "running" /\ svc' = svc /\ lock' = t
      BY DEF AcquireArm
    <3>2. t # Shutdown
      BY ShutdownAssumption
    <3>3. \A u \in Thread : th'[u].pc = "armed" <=> lock' = u
      BY <2>1, <2>2, <2>3, <3>1
    <3> QED BY <3>1, <3>2, <3>3 DEF LockInv
  <2>6. RequestInv'
    BY <2>1, <2>3 DEF Inductive, ThreadInv, RequestInv
  <2>7. /\ lease'[l].state = "armed" /\ lease'[l].pid = th[t].pid
        /\ heldBy'[th[t].pid] = NoLease
        /\ th[t].claim # 0 /\ lease'[l].start # 0
             => lease'[l].inc <= th[t].claim
    BY <2>4 DEF AcquireArm, Vetted, StartOf, Inductive, TypeOK
  <2>8. ArmedInv'
    BY <2>1, <2>2, <2>3, <2>4, <2>7 DEF ArmedInv
  <2> QED
    BY <2>5, <2>6, <2>8 DEF ThreadInv
<1>3. TableInv'
  BY ArmTable
<1>4. DownInv'
  BY DEF Inductive, DownInv, ShutdownInv, ShutdownReleasesAll, AcquireArm
<1> QED
  BY <1>1, <1>2, <1>3, <1>4 DEF Inductive

LEMMA AcquireSuspendStep ==
  ASSUME Inductive, NEW t \in Thread, AcquireSuspend(t)
  PROVE  Inductive'
<1>1. TypeOK'
  <2>1. PICK l \in LeaseId, p \in Pid : l = th[t].lease /\ lease[l].pid = p
    BY DEF AcquireSuspend, LeaveAcquire, Inductive, ThreadInv, ArmedInv
  <2>2. [lease[l] EXCEPT !.state = "held"] \in Lease
    BY LeaseType DEF Inductive, TypeOK
  <2>3. [proc[p] EXCEPT !.susp = Suspended(@)] \in Process
    <3>1. proc[p] \in Process
      BY DEF Inductive, TypeOK
    <3>2. Suspended(proc[p].susp) \in Nat
      BY <3>1 DEF Suspended, Process
    <3> QED
      BY <3>1, <3>2, ProcessType
  <2>4. /\ lease' \in [LeaseId -> Lease]
        /\ proc' \in [Pid -> Process]
        /\ heldBy' \in [Pid -> LeaseId \cup {NoLease}]
    BY <2>1, <2>2, <2>3 DEF Inductive, TypeOK, AcquireSuspend, LeaveAcquire
  <2>5. /\ th' \in [Thread -> Worker] /\ lock' \in Thread \cup {Nobody, Shutdown}
    BY SMTT(30), <2>4, NoLeaseAssumption
    DEF Inductive, TypeOK, AcquireSuspend, LeaveAcquire, Idle, Worker
  <2>6. notes' \in Seq(LeaseId)
    <3>1. Note(th[t].gone) \in Seq(LeaseId)
      BY SMTT(30), <2>1 DEF Inductive, TypeOK, Worker, Note
    <3>2. notes \in Seq(LeaseId) /\ notes' = notes \o Note(th[t].gone)
      BY DEF Inductive, TypeOK, AcquireSuspend, LeaveAcquire
    <3> QED BY <3>1, <3>2
  <2>7. UNCHANGED <<svc, todo, blocks, failed>>
    BY DEF AcquireSuspend, LeaveAcquire
  <2> QED
    BY <2>4, <2>5, <2>6, <2>7 DEF Inductive, TypeOK
<1>2. ThreadInv'
  BY NobodyAssumption
  DEF Inductive, ThreadInv, TypeOK, LockInv, ArmedInv, RequestInv, Idle,
         AcquireSuspend, LeaveAcquire
<1>3. TableInv'
  BY SuspendTable
<1>4. DownInv'
  BY DEF Inductive, ThreadInv, LockInv, DownInv, ShutdownInv,
         ShutdownReleasesAll, AcquireSuspend, LeaveAcquire
<1> QED
  BY <1>1, <1>2, <1>3, <1>4 DEF Inductive

LEMMA AcquireAbortStep ==
  ASSUME Inductive, NEW t \in Thread, AcquireAbort(t)
  PROVE  Inductive'
<1>1. TypeOK'
  <2>1. PICK l \in LeaseId : l = th[t].lease
    BY DEF AcquireAbort, LeaveAcquire, Inductive, ThreadInv, ArmedInv
  <2>2. [lease[l] EXCEPT !.state = "refused"] \in Lease
    BY LeaseType DEF Inductive, TypeOK
  <2> QED
    BY <2>1, <2>2, NoLeaseAssumption
    DEF Inductive, TypeOK, AcquireAbort, LeaveAcquire, Note, Idle, Worker
<1>2. ThreadInv'
  BY NobodyAssumption
  DEF Inductive, ThreadInv, TypeOK, LockInv, ArmedInv, RequestInv, Idle,
         AcquireAbort, LeaveAcquire
<1>3. TableInv'
  BY RefuseTable DEF AcquireAbort, LeaveAcquire, Inductive, ThreadInv, ArmedInv
<1>4. DownInv'
  BY DEF Inductive, ThreadInv, ArmedInv, Held, DownInv, ShutdownInv,
         ShutdownReleasesAll, AcquireAbort, LeaveAcquire
<1> QED
  BY <1>1, <1>2, <1>3, <1>4 DEF Inductive

LEMMA ReleaseStep ==
  ASSUME Inductive, NEW t \in Thread, NEW l \in LeaseId, Held(l), Release(t, l)
  PROVE  Inductive'
<1>0. lease[l].pid \in Pid
  BY DEF Held, Inductive, TableInv, LeaseInv, DownInv, ShutdownInv
<1>1. TypeOK'
  <2>1. proc' \in [Pid -> Process]
    BY <1>0, ResumeThroughType DEF Release, EndByResume, Inductive
  <2>2. /\ lease' \in [LeaseId -> Lease]
        /\ heldBy' \in [Pid -> LeaseId \cup {NoLease}]
    BY EndType DEF Release, EndByResume, Inductive, Ended
  <2> QED
    <3>1. th' \in [Thread -> Worker]
      <4>1. [[th[t] EXCEPT !.pc = "logging"] EXCEPT !.lease = l] \in Worker
        BY WorkerType DEF Inductive, TypeOK
      <4> QED
        BY <4>1 DEF Release, Inductive, TypeOK
    <3> QED
      BY <2>1, <2>2, <3>1 DEF Release, Inductive, TypeOK
<1>2. ThreadInv'
  BY NobodyAssumption
  DEF Inductive, ThreadInv, TypeOK, LockInv, ArmedInv, RequestInv, Release
<1>3. TableInv'
  BY EndTable DEF Release, EndByResume, Ended
<1>4. DownInv'
  BY NobodyAssumption
  DEF Inductive, ThreadInv, LockInv, Held, DownInv, ShutdownInv,
         ShutdownReleasesAll, Release, EndByResume, End
<1> QED
  BY <1>1, <1>2, <1>3, <1>4 DEF Inductive

LEMMA ReleaseFailsStep ==
  ASSUME Inductive, NEW t \in Thread, NEW l \in LeaseId, ReleaseFails(t, l)
  PROVE  Inductive'
<1>1. TypeOK'
  BY DEF Inductive, TypeOK, Worker, ReleaseFails, ResumeRaises
<1>2. ThreadInv'
  BY DEF Inductive, ThreadInv, LockInv, ArmedInv, RequestInv, ReleaseFails
<1>3. TableInv'
  BY QuietTable DEF ReleaseFails, Inductive
<1>4. DownInv'
  BY DEF Inductive, Held, DownInv, ShutdownInv, ShutdownReleasesAll,
         ReleaseFails, ResumeRaises
<1> QED
  BY <1>1, <1>2, <1>3, <1>4 DEF Inductive

LEMMA HandlerLogsStep ==
  ASSUME Inductive, NEW t \in Thread, HandlerLogs(t)
  PROVE  Inductive'
<1>1. TypeOK'
  BY DEF Inductive, TypeOK, Worker, HandlerLogs, Idle
<1>2. ThreadInv'
  BY DEF Inductive, ThreadInv, LockInv, ArmedInv, RequestInv, Idle,
         HandlerLogs
<1>3. TableInv'
  BY QuietTable DEF HandlerLogs, Inductive
<1>4. DownInv'
  BY DEF Inductive, Held, DownInv, ShutdownInv, ShutdownReleasesAll,
         HandlerLogs
<1> QED
  BY <1>1, <1>2, <1>3, <1>4 DEF Inductive

LEMMA TerminateBindStep ==
  ASSUME Inductive, NEW t \in Thread, NEW p \in Pid, TerminateBind(t, p)
  PROVE  Inductive'
<1>1. TypeOK'
  <2>1. proc[p].inc \in Nat
    BY DEF Inductive, TypeOK, Process
  <2>2. [[[th[t] EXCEPT !.pc = "killing"] EXCEPT !.pid = p]
           EXCEPT !.claim = proc[p].inc] \in Worker
    BY <2>1, WorkerType DEF Inductive, TypeOK
  <2> QED
    BY <2>2 DEF TerminateBind, Inductive, TypeOK
<1>2. ThreadInv'
  BY DEF Inductive, ThreadInv, TypeOK, LockInv, ArmedInv, RequestInv, Idle,
         TerminateBind
<1>3. TableInv'
  BY QuietTable DEF TerminateBind, Inductive
<1>4. DownInv'
  BY DEF Inductive, Held, DownInv, ShutdownInv, ShutdownReleasesAll,
         TerminateBind
<1> QED
  BY <1>1, <1>2, <1>3, <1>4 DEF Inductive

LEMMA TerminateKillStep ==
  ASSUME Inductive, NEW t \in Thread, TerminateKill(t)
  PROVE  Inductive'
<1>1. TypeOK'
  <2>1. th[t].pid \in Pid
    BY DEF TerminateKill, Inductive, ThreadInv, RequestInv
  <2>2. Dead(proc[th[t].pid]) \in Process
    BY <2>1, ProcessType DEF Inductive, TypeOK
  <2> QED
    BY ZenonT(60), <2>1, <2>2 DEF TerminateKill, Inductive, TypeOK, Worker
<1>2. ThreadInv'
  BY DEF Inductive, ThreadInv, LockInv, ArmedInv, RequestInv, TerminateKill
<1>3. TableInv'
  BY DieTable, QuietTable DEF TerminateKill, Inductive, ThreadInv, RequestInv
<1>4. DownInv'
  BY DEF Inductive, Held, DownInv, ShutdownInv, ShutdownReleasesAll,
         TerminateKill
<1> QED
  BY <1>1, <1>2, <1>3, <1>4 DEF Inductive

LEMMA TerminateRefusedStep ==
  ASSUME Inductive, NEW t \in Thread, TerminateRefused(t)
  PROVE  Inductive'
<1>1. TypeOK'
  BY DEF Inductive, TypeOK, Worker, TerminateRefused, Idle
<1>2. ThreadInv'
  BY DEF Inductive, ThreadInv, LockInv, ArmedInv, RequestInv, Idle,
         TerminateRefused
<1>3. TableInv'
  BY QuietTable DEF TerminateRefused, Inductive
<1>4. DownInv'
  BY DEF Inductive, Held, DownInv, ShutdownInv, ShutdownReleasesAll,
         TerminateRefused
<1> QED
  BY <1>1, <1>2, <1>3, <1>4 DEF Inductive

LEMMA TerminateCloseStep ==
  ASSUME Inductive, NEW t \in Thread, TerminateClose(t)
  PROVE  Inductive'
<1>1. TypeOK'
  <2>1. /\ lease' \in [LeaseId -> Lease]
        /\ heldBy' \in [Pid -> LeaseId \cup {NoLease}]
    BY EndType
    DEF TerminateClose, tableVars, Inductive, ThreadInv, RequestInv, TypeOK,
        Ended
  <2>2. th[t].pid \in Pid
    BY DEF TerminateClose, Inductive, ThreadInv, RequestInv
  <2>3. th' \in [Thread -> Worker]
    BY <2>2 DEF TerminateClose, Idle, Inductive, TypeOK, Worker
  <2> QED
    BY <2>1, <2>3 DEF TerminateClose, Inductive, TypeOK
<1>2. ThreadInv'
  BY NobodyAssumption
  DEF Inductive, ThreadInv, LockInv, ArmedInv, RequestInv, TerminateClose
<1>3. TableInv'
  <2> DEFINE l == heldBy[th[t].pid]
  <2>1. CASE l = NoLease
    BY <2>1, QuietTable DEF TerminateClose, tableVars, Inductive
  <2>2. CASE l # NoLease
    <3>1. l \in LeaseId /\ Held(l)
      BY <2>2
      DEF TerminateClose, Inductive, ThreadInv, RequestInv, TableInv,
          OneLeasePerPid, TypeOK
    <3> QED
      BY <2>2, <3>1, EndTable DEF TerminateClose, Ended
  <2> QED
    BY <2>1, <2>2
<1>4. DownInv'
  <2>1. PICK p \in Pid : p = th[t].pid
    BY DEF TerminateClose, Inductive, ThreadInv, RequestInv
  <2>2. \A m \in LeaseId : Held(m)' => Held(m)
    <3>1. CASE heldBy[p] = NoLease
      BY <2>1, <3>1 DEF TerminateClose, tableVars, Held
    <3>2. CASE heldBy[p] # NoLease
      BY <2>1, <3>2 DEF TerminateClose, End, Held, Inductive, TypeOK, Lease
    <3> QED
      BY <3>1, <3>2
  <2>3. svc' = svc /\ svc # "resuming" /\ failed' = failed /\ todo' = todo
    BY NobodyAssumption DEF TerminateClose, Inductive, ThreadInv, LockInv
  <2> QED
    BY <2>2, <2>3 DEF Inductive, DownInv, ShutdownInv, ShutdownReleasesAll
<1> QED
  BY <1>1, <1>2, <1>3, <1>4 DEF Inductive

LEMMA ExpireStep ==
  ASSUME Inductive, NEW l \in LeaseId, Expire(l)
  PROVE  Inductive'
<1>1. TypeOK'
  BY LeaseType DEF Expire, Inductive, TypeOK
<1>2. ThreadInv'
  BY DEF Inductive, ThreadInv, LockInv, ArmedInv, RequestInv, Expire
<1>3. TableInv'
  BY ExpireTable
<1>4. DownInv'
  BY DEF Inductive, Held, DownInv, ShutdownInv, ShutdownReleasesAll, Expire
<1> QED
  BY <1>1, <1>2, <1>3, <1>4 DEF Inductive

LEMMA ReapStep ==
  ASSUME Inductive, NEW l \in LeaseId, Reap(l)
  PROVE  Inductive'
<1>0. lease[l].pid \in Pid /\ Held(l)
  BY DEF Reap, ReapDue, Held, Inductive, TableInv, LeaseInv, DownInv,
         ShutdownInv
<1>1. TypeOK'
  <2>1. proc' \in [Pid -> Process]
    BY <1>0, ResumeThroughType DEF Reap, EndByResume, Inductive
  <2>2. /\ lease' \in [LeaseId -> Lease]
        /\ heldBy' \in [Pid -> LeaseId \cup {NoLease}]
    BY EndType DEF Reap, EndByResume, Inductive, Ended
  <2> QED
    BY <2>1, <2>2 DEF Reap, Inductive, TypeOK, Worker
<1>2. ThreadInv'
  BY NobodyAssumption
  DEF Inductive, ThreadInv, LockInv, ArmedInv, RequestInv, Reap, ReapDue
<1>3. TableInv'
  BY <1>0, EndTable DEF Reap, EndByResume, Ended
<1>4. DownInv'
  BY NobodyAssumption
  DEF Inductive, ThreadInv, LockInv, Held, DownInv, ShutdownInv,
         ShutdownReleasesAll, Reap, EndByResume, End, ReapDue
<1> QED
  BY <1>1, <1>2, <1>3, <1>4 DEF Inductive

LEMMA ReapFailsStep ==
  ASSUME Inductive, NEW l \in LeaseId, ReapFails(l)
  PROVE  Inductive'
<1>1. TypeOK'
  BY DEF Inductive, TypeOK, Worker, ReapFails, ResumeRaises
<1>2. ThreadInv'
  BY DEF Inductive, ThreadInv, LockInv, ArmedInv, RequestInv, ReapFails
<1>3. TableInv'
  BY QuietTable DEF ReapFails, Inductive
<1>4. DownInv'
  BY DEF Inductive, Held, DownInv, ShutdownInv, ShutdownReleasesAll,
         ReapFails, ResumeRaises
<1> QED
  BY <1>1, <1>2, <1>3, <1>4 DEF Inductive

LEMMA RecordStep ==
  ASSUME Inductive, Record
  PROVE  Inductive'
<1>1. TypeOK'
  BY DEF Inductive, TypeOK, Worker, Record
<1>2. ThreadInv'
  BY DEF Inductive, ThreadInv, LockInv, ArmedInv, RequestInv, Record
<1>3. TableInv'
  BY QuietTable DEF Record, Inductive
<1>4. DownInv'
  BY DEF Inductive, Held, DownInv, ShutdownInv, ShutdownReleasesAll, Record
<1> QED
  BY <1>1, <1>2, <1>3, <1>4 DEF Inductive

LEMMA ShutdownCloseStep ==
  ASSUME Inductive, ShutdownClose
  PROVE  Inductive'
<1>1. TypeOK'
  BY DEF Inductive, TypeOK, Worker, ShutdownClose
<1>2. ThreadInv'
  BY NobodyAssumption
  DEF Inductive, ThreadInv, LockInv, ArmedInv, RequestInv, ShutdownClose
<1>3. TableInv'
  BY QuietTable DEF ShutdownClose, Inductive
<1>4. DownInv'
  BY DEF Inductive, DownInv, ShutdownInv, ShutdownReleasesAll, ShutdownClose
<1> QED
  BY <1>1, <1>2, <1>3, <1>4 DEF Inductive

LEMMA ResumeAllStep ==
  ASSUME Inductive, ResumeAll
  PROVE  Inductive'
<1>1. TypeOK'
  BY DEF Inductive, TypeOK, Worker, ResumeAll
<1>2. ThreadInv'
  BY ShutdownAssumption
  DEF Inductive, ThreadInv, LockInv, ArmedInv, RequestInv, ResumeAll
<1>3. TableInv'
  BY QuietTable DEF ResumeAll, Inductive
<1>4. DownInv'
  BY DEF Inductive, Held, DownInv, ShutdownInv, ShutdownReleasesAll, ResumeAll
<1> QED
  BY <1>1, <1>2, <1>3, <1>4 DEF Inductive

LEMMA ResumeNextStep ==
  ASSUME Inductive, NEW l \in LeaseId, ResumeNext(l)
  PROVE  Inductive'
<1>0. lease[l].pid \in Pid /\ Held(l)
  BY DEF ResumeNext, Held, Inductive, TableInv, LeaseInv, DownInv, ShutdownInv
<1>1. TypeOK'
  <2>1. proc' \in [Pid -> Process]
    BY <1>0, ResumeThroughType DEF ResumeNext, EndByResume, Inductive
  <2>2. /\ lease' \in [LeaseId -> Lease]
        /\ heldBy' \in [Pid -> LeaseId \cup {NoLease}]
    BY EndType DEF ResumeNext, EndByResume, Inductive, Ended
  <2> QED
    BY <2>1, <2>2 DEF ResumeNext, Inductive, TypeOK, Worker
<1>2. ThreadInv'
  BY DEF Inductive, ThreadInv, LockInv, ArmedInv, RequestInv, ResumeNext
<1>3. TableInv'
  BY <1>0, EndTable DEF ResumeNext, EndByResume, Ended
<1>4. DownInv'
  BY DEF Inductive, TypeOK, Held, DownInv, ShutdownInv, ShutdownReleasesAll,
         ResumeNext, EndByResume, End
<1> QED
  BY <1>1, <1>2, <1>3, <1>4 DEF Inductive

LEMMA ResumeNextFailsStep ==
  ASSUME Inductive, NEW l \in LeaseId, ResumeNextFails(l)
  PROVE  Inductive'
<1>1. TypeOK'
  BY DEF Inductive, TypeOK, Worker, ResumeNextFails, ResumeRaises
<1>2. ThreadInv'
  BY DEF Inductive, ThreadInv, LockInv, ArmedInv, RequestInv, ResumeNextFails
<1>3. TableInv'
  BY QuietTable DEF ResumeNextFails, Inductive
<1>4. DownInv'
  BY DEF Inductive, Held, DownInv, ShutdownInv, ShutdownReleasesAll,
         ResumeNextFails, ResumeRaises
<1> QED
  BY <1>1, <1>2, <1>3, <1>4 DEF Inductive

LEMMA ResumeAllDoneStep ==
  ASSUME Inductive, ResumeAllDone
  PROVE  Inductive'
<1>1. TypeOK'
  BY DEF Inductive, TypeOK, Worker, ResumeAllDone
<1>2. ThreadInv'
  BY NobodyAssumption
  DEF Inductive, ThreadInv, LockInv, ArmedInv, RequestInv, ResumeAllDone
<1>3. TableInv'
  BY QuietTable DEF ResumeAllDone, Inductive
<1>4. DownInv'
  BY DEF Inductive, Held, DownInv, ShutdownInv, ShutdownReleasesAll,
         ResumeAllDone
<1> QED
  BY <1>1, <1>2, <1>3, <1>4 DEF Inductive

LEMMA StopStep ==
  ASSUME Inductive, Stop
  PROVE  Inductive'
<1>1. TypeOK'
  BY DEF Inductive, TypeOK, Worker, Stop
<1>2. ThreadInv'
  BY DEF Inductive, ThreadInv, LockInv, ArmedInv, RequestInv, Stop
<1>3. TableInv'
  BY QuietTable DEF Stop, Inductive
<1>4. DownInv'
  BY DEF Inductive, Held, DownInv, ShutdownInv, ShutdownReleasesAll, Stop
<1> QED
  BY <1>1, <1>2, <1>3, <1>4 DEF Inductive

LEMMA ExitStep ==
  ASSUME Inductive, NEW p \in Pid, Exit(p)
  PROVE  Inductive'
<1>1. TypeOK'
  BY ProcessType DEF Exit, Inductive, TypeOK
<1>2. ThreadInv'
  BY DEF Inductive, ThreadInv, LockInv, ArmedInv, RequestInv, Exit
<1>3. TableInv'
  BY DieTable DEF Exit
<1>4. DownInv'
  BY DEF Inductive, Held, DownInv, ShutdownInv, ShutdownReleasesAll, Exit
<1> QED
  BY <1>1, <1>2, <1>3, <1>4 DEF Inductive

LEMMA SpawnStep ==
  ASSUME Inductive, NEW p \in Pid, Spawn(p)
  PROVE  Inductive'
<1>1. TypeOK'
  <2>1. [inc |-> proc[p].inc + 1, alive |-> TRUE, susp |-> 0] \in Process
    BY DEF Inductive, TypeOK, Process
  <2> QED
    BY <2>1 DEF Spawn, Inductive, TypeOK
<1>2. ThreadInv'
  BY DEF Inductive, ThreadInv, LockInv, ArmedInv, RequestInv, Spawn
<1>3. TableInv'
  BY SpawnTable
<1>4. DownInv'
  BY DEF Inductive, Held, DownInv, ShutdownInv, ShutdownReleasesAll, Spawn
<1> QED
  BY <1>1, <1>2, <1>3, <1>4 DEF Inductive

LEMMA TriggerKillStep ==
  ASSUME Inductive, NEW p \in Pid, TriggerKill(p)
  PROVE  Inductive'
<1>1. TypeOK'
  BY ProcessType DEF TriggerKill, Inductive, TypeOK
<1>2. ThreadInv'
  BY DEF Inductive, ThreadInv, LockInv, ArmedInv, RequestInv, TriggerKill
<1>3. TableInv'
  BY DieTable DEF TriggerKill
<1>4. DownInv'
  BY DEF Inductive, Held, DownInv, ShutdownInv, ShutdownReleasesAll,
         TriggerKill
<1> QED
  BY <1>1, <1>2, <1>3, <1>4 DEF Inductive

LEMMA InitInductive ==
  Init => Inductive
<1> SUFFICES ASSUME Init PROVE Inductive
  OBVIOUS
<1> USE NobodyAssumption, ShutdownAssumption DEF Init
<1>1. TypeOK
  BY DEF TypeOK, Process, Lease, Worker, Free, Idle
<1>2. ThreadInv
  BY DEF ThreadInv, LockInv, ArmedInv, RequestInv, Idle
<1>3. TableInv
  BY DEF TableInv, LeaseInv, OneLeasePerPid, HeldIsFrozen, FrozenIsHeld,
         NeverNested, Held, Free
<1>4. DownInv
  BY DEF DownInv, ShutdownInv, ShutdownReleasesAll
<1> QED
  BY <1>1, <1>2, <1>3, <1>4 DEF Inductive

LEMMA NextInductive ==
  Inductive /\ [Next]_vars => Inductive'
<1> SUFFICES ASSUME Inductive, [Next]_vars PROVE Inductive'
  OBVIOUS
<1>1. ASSUME NEW t \in Thread, Acquire(t) PROVE Inductive'
  BY <1>1, AcquireEnterStep, AcquireRefusedStep, AcquireAlreadyHeldStep,
     AcquireRebindStep, AcquireArmStep, AcquireSuspendStep, AcquireAbortStep
  DEF Acquire
<1>2. ASSUME NEW t \in Thread, Resume(t) PROVE Inductive'
  <2>1. ASSUME NEW l \in LeaseId, ReleaseLease(t, l) PROVE Inductive'
    BY <2>1, ReleaseStep DEF ReleaseLease
  <2>2. ASSUME NEW l \in LeaseId, ReleaseFails(t, l) PROVE Inductive'
    BY <2>2, ReleaseFailsStep
  <2>3. ASSUME NEW p \in Pid, ReleasePid(t, p) PROVE Inductive'
    <3>1. heldBy[p] \in LeaseId /\ Held(heldBy[p])
      BY <2>3 DEF ReleasePid, Inductive, TableInv, OneLeasePerPid, TypeOK
    <3> QED
      BY <2>3, <3>1, ReleaseStep DEF ReleasePid
  <2> QED
    BY <1>2, <2>1, <2>2, <2>3 DEF Resume
<1>3. ASSUME NEW t \in Thread, Terminate(t) PROVE Inductive'
  BY <1>3, TerminateBindStep, TerminateKillStep, TerminateRefusedStep,
     TerminateCloseStep DEF Terminate
<1>4. ASSUME NEW t \in Thread, HandlerLogs(t) PROVE Inductive'
  BY <1>4, HandlerLogsStep
<1>5. CASE Housekeeping
  BY <1>5, ExpireStep, ReapStep, ReapFailsStep, RecordStep DEF Housekeeping
<1>6. CASE ShuttingDown
  BY <1>6, ShutdownCloseStep, ResumeAllStep, ResumeNextStep,
     ResumeNextFailsStep, ResumeAllDoneStep, StopStep DEF ShuttingDown
<1>7. CASE OperatingSystem
  BY <1>7, ExitStep, SpawnStep, TriggerKillStep DEF OperatingSystem
<1>8. CASE UNCHANGED vars
  <2>1. TypeOK'
    BY <1>8 DEF vars, Inductive, TypeOK
  <2>2. ThreadInv'
    BY <1>8 DEF vars, Inductive, ThreadInv, LockInv, ArmedInv, RequestInv
  <2>3. TableInv'
    BY <1>8, QuietTable DEF vars, Inductive
  <2>4. DownInv'
    BY <1>8 DEF vars, Inductive, DownInv, ShutdownInv, ShutdownReleasesAll, Held
  <2> QED
    BY <2>1, <2>2, <2>3, <2>4 DEF Inductive
<1> QED
  BY <1>1, <1>2, <1>3, <1>4, <1>5, <1>6, <1>7, <1>8 DEF Next

\* In every reachable state of the service the invariant holds.
THEOREM InductiveHolds == Spec => []Inductive
BY InitInductive, NextInductive, PTL DEF Spec

-------------------------------------------------------------------------------
(* What follows from it.                                                   *)

\* Type correctness of the lease table, its threads and its queues.
THEOREM TypeCorrect == Spec => []TypeOK
<1>1. Inductive => TypeOK
  BY DEF Inductive
<1> QED
  BY <1>1, InductiveHolds, PTL

\* _held and the lease states agree, whatever callers, reaper, kills and the
\* shutdown do: a PID is under at most one lease and no held lease is lost.
THEOREM TableConsistent == Spec => []OneLeasePerPid
<1>1. Inductive => OneLeasePerPid
  BY DEF Inductive, TableInv
<1> QED
  BY <1>1, InductiveHolds, PTL

\* A held lease has its process frozen; a frozen process has a held lease,
\* or was closed out as killed while it lived; and suspends never nest.
THEOREM FrozenExactlyWhenHeld == Spec => []FrozenWhileHeld
<1>1. Inductive => FrozenWhileHeld
  BY DEF Inductive, TableInv, FrozenWhileHeld
<1> QED
  BY <1>1, InductiveHolds, PTL

\* shutdown leaves held only the leases whose resume raised.
THEOREM NothingLeftHeld == Spec => []ShutdownReleasesAll
<1>1. Inductive => ShutdownReleasesAll
  BY DEF Inductive, DownInv
<1> QED
  BY <1>1, InductiveHolds, PTL

\* One step leaves an ended lease as it ended.
LEMMA EndedStays ==
  ASSUME Inductive, [Next]_vars, NEW l \in LeaseId, lease[l].state \in Ended
  PROVE  lease'[l].state = lease[l].state
<1> USE DEF Ended
<1>1. ASSUME NEW t \in Thread, Acquire(t) PROVE lease'[l].state = lease[l].state
  <2>1. CASE \E m \in LeaseId : AcquireArm(t, m)
    <3> PICK m \in LeaseId : AcquireArm(t, m)
      BY <2>1
    <3>1. m # l
      BY DEF AcquireArm
    <3>2. th[t].pid \in Pid
      BY DEF AcquireArm, Admitted, Inductive, ThreadInv, RequestInv
    <3>3. heldBy[th[t].pid] # l
      BY <3>2, NoLeaseAssumption DEF Inductive, TableInv, OneLeasePerPid, Held
    <3> QED
      BY <3>1, <3>3 DEF AcquireArm
  <2>2. CASE AcquireSuspend(t) \/ AcquireAbort(t)
    BY <2>2 DEF AcquireSuspend, AcquireAbort, LeaveAcquire, Inductive,
                ThreadInv, ArmedInv, TypeOK
  <2>3. CASE AcquireRebind(t)
    BY <2>3, RebindLease
  <2>4. CASE \/ \E p \in Pid, claim \in 0 .. MaxInc : AcquireEnter(t, p, claim)
             \/ AcquireRefused(t) \/ AcquireAlreadyHeld(t)
    BY <2>4 DEF AcquireEnter, AcquireRefused, AcquireAlreadyHeld
  <2> QED
    BY <1>1, <2>1, <2>2, <2>3, <2>4 DEF Acquire
<1>2. ASSUME NEW m \in LeaseId, NEW s, Held(m), End(m, s)
      PROVE  lease'[l].state = lease[l].state
  BY <1>2 DEF Held, End, Inductive, TypeOK
<1>3. ASSUME NEW t \in Thread, Resume(t) PROVE lease'[l].state = lease[l].state
  <2>1. CASE \E p \in Pid : ReleasePid(t, p)
    BY <2>1, <1>2 DEF ReleasePid, Release, EndByResume, Inductive, TableInv,
                      OneLeasePerPid, TypeOK
  <2>2. CASE \E m \in LeaseId : ReleaseLease(t, m) \/ ReleaseFails(t, m)
    BY <2>2, <1>2 DEF ReleaseLease, ReleaseFails, Release, EndByResume
  <2> QED
    BY <1>3, <2>1, <2>2 DEF Resume
<1>4. ASSUME NEW t \in Thread, Terminate(t)
      PROVE  lease'[l].state = lease[l].state
  <2>1. CASE TerminateClose(t)
    <3>1. th[t].pid \in Pid
      BY <2>1 DEF TerminateClose, Inductive, ThreadInv, RequestInv
    <3>2. CASE heldBy[th[t].pid] = NoLease
      BY <2>1, <3>2 DEF TerminateClose, tableVars
    <3>3. CASE heldBy[th[t].pid] # NoLease
      BY <2>1, <3>1, <3>3, <1>2 DEF TerminateClose, Inductive, TableInv,
                                    OneLeasePerPid, TypeOK
    <3> QED
      BY <3>2, <3>3
  <2>2. CASE ~TerminateClose(t)
    BY <1>4, <2>2 DEF Terminate, TerminateBind, TerminateKill, TerminateRefused
  <2> QED
    BY <2>1, <2>2
<1>5. CASE Housekeeping
  <2>1. ASSUME NEW m \in LeaseId, Expire(m)
        PROVE  lease'[l].state = lease[l].state
    BY <2>1 DEF Expire, Inductive, TypeOK, Lease
  <2>2. ASSUME NEW m \in LeaseId, Reap(m) PROVE lease'[l].state = lease[l].state
    BY <2>2, <1>2 DEF Reap, ReapDue, EndByResume
  <2> QED
    BY <1>5, <2>1, <2>2 DEF Housekeeping, ReapFails, Record
<1>6. CASE ShuttingDown
  <2>1. ASSUME NEW m \in LeaseId, ResumeNext(m)
        PROVE  lease'[l].state = lease[l].state
    BY <2>1, <1>2 DEF ResumeNext, EndByResume, Inductive, DownInv, ShutdownInv
  <2> QED
    BY <1>6, <2>1 DEF ShuttingDown, ShutdownClose, ResumeAll, ResumeNextFails,
                      ResumeAllDone, Stop
<1>7. CASE \/ OperatingSystem
           \/ \E t \in Thread : HandlerLogs(t)
           \/ UNCHANGED vars
  BY <1>7 DEF OperatingSystem, Exit, Spawn, TriggerKill, HandlerLogs, vars
<1> QED
  BY <1>1, <1>3, <1>4, <1>5, <1>6, <1>7 DEF Next

\* A lease that has ended never comes back and never changes how it ended.
THEOREM LeaseEndsOnce == Spec => EndsOnce
<1>1. Inductive /\ [Next]_vars =>
        [\A l \in LeaseId : lease[l].state \in Ended =>
           lease'[l].state = lease[l].state]_vars
  BY EndedStays
<1> QED
  BY <1>1, InductiveHolds, PTL DEF Spec, EndsOnce

\* Only a suspend raises a process's suspend count.
LEMMA OnlySuspendFreezes ==
  ASSUME Inductive, [Next]_vars, NEW p \in Pid, proc'[p].susp > proc[p].susp
  PROVE  \E t \in Thread : AcquireSuspend(t)
<1> SUFFICES ASSUME \A t \in Thread : ~AcquireSuspend(t) PROVE FALSE
  OBVIOUS
<1>1. proc[p] \in Process /\ proc \in [Pid -> Process]
  BY DEF Inductive, TypeOK
<1>2. ASSUME NEW q \in Pid, proc' = [proc EXCEPT ![q] = Dead(@)] PROVE FALSE
  BY <1>1, <1>2 DEF Dead, Process
<1>3. ASSUME NEW l \in LeaseId, Held(l), EndByResume(l) PROVE FALSE
  <2>1. lease[l].pid \in Pid
    BY <1>3 DEF Held, Inductive, TableInv, LeaseInv
  <2> QED
    BY <1>1, <1>3, <2>1 DEF EndByResume, ResumeThrough, Resumed, Process
<1>4. proc' # proc
  BY <1>1 DEF Process
<1>5. ASSUME NEW t \in Thread, Acquire(t) PROVE FALSE
  BY <1>4, <1>5 DEF Acquire, AcquireEnter, AcquireRefused, AcquireAlreadyHeld,
     AcquireRebind, AcquireArm, AcquireAbort
<1>6. ASSUME NEW t \in Thread, Resume(t) PROVE FALSE
  <2>1. CASE \E q \in Pid : ReleasePid(t, q)
    BY <2>1, <1>3 DEF ReleasePid, Release, Inductive, TableInv,
                      OneLeasePerPid, TypeOK
  <2>2. CASE \E m \in LeaseId : ReleaseLease(t, m) \/ ReleaseFails(t, m)
    BY <2>2, <1>3, <1>4 DEF ReleaseLease, ReleaseFails, Release
  <2> QED
    BY <1>6, <2>1, <2>2 DEF Resume
<1>7. ASSUME NEW t \in Thread, Terminate(t) PROVE FALSE
  BY <1>2, <1>4, <1>7 DEF Terminate, TerminateBind, TerminateKill,
     TerminateRefused, TerminateClose, Inductive, ThreadInv, RequestInv
<1>8. ~Housekeeping
  BY <1>3, <1>4 DEF Housekeeping, Expire, Reap, ReapDue, ReapFails, Record
<1>9. ~ShuttingDown
  BY <1>3, <1>4 DEF ShuttingDown, ShutdownClose, ResumeAll, ResumeNext,
     ResumeNextFails, ResumeAllDone, Stop, Inductive, DownInv, ShutdownInv
<1>10. ~OperatingSystem
  <2>1. ASSUME NEW q \in Pid, Spawn(q) PROVE FALSE
    BY <1>1, <2>1 DEF Spawn, Process
  <2> QED
    BY <1>2, <2>1 DEF OperatingSystem, Exit, TriggerKill
<1>11. \A t \in Thread : ~HandlerLogs(t)
  BY <1>4 DEF HandlerLogs
<1> QED
  BY <1>4, <1>5, <1>6, <1>7, <1>8, <1>9, <1>10, <1>11 DEF Next, vars

\* A suspend freezes the very process its request was vetted for: a claimed
\* and readable start time is never older than the process frozen.
THEOREM SuspendFreezesTheVetted == Spec => FreezesTheVetted
<1>1. ASSUME Inductive, [Next]_vars, NEW p \in Pid,
             proc'[p].susp > proc[p].susp
      PROVE  \E t \in Thread :
               /\ th[t].pc = "armed" /\ th[t].pid = p
               /\ lease[th[t].lease].inc = proc[p].inc
               /\ th[t].claim # 0 /\ lease[th[t].lease].start # 0
                    => proc[p].inc <= th[t].claim
  <2>1. PICK t \in Thread : AcquireSuspend(t)
    BY <1>1, OnlySuspendFreezes
  <2>2. th[t].pc = "armed" /\ th[t].lease \in LeaseId /\ th[t].pid \in Pid
    BY <1>1, <2>1
    DEF AcquireSuspend, LeaveAcquire, Inductive, ThreadInv, ArmedInv
  <2>3. /\ lease[th[t].lease].pid = th[t].pid
        /\ lease[th[t].lease].inc = proc[th[t].pid].inc
    BY <1>1, <2>1, <2>2
    DEF AcquireSuspend, SameProcess, Inductive, ThreadInv, ArmedInv
  <2>4. th[t].pid = p
    <3>1. proc[p].susp \in Nat
      BY <1>1 DEF Inductive, TypeOK, Process
    <3> QED
      BY <1>1, <2>1, <2>2, <2>3, <3>1 DEF AcquireSuspend, Inductive, TypeOK
  <2> QED
    BY <1>1, <2>2, <2>3, <2>4 DEF Inductive, ThreadInv, ArmedInv
<1>2. Inductive /\ [Next]_vars =>
        [\A p \in Pid : proc'[p].susp > proc[p].susp =>
           \E t \in Thread :
             /\ th[t].pc = "armed" /\ th[t].pid = p
             /\ lease[th[t].lease].inc = proc[p].inc
             /\ th[t].claim # 0 /\ lease[th[t].lease].start # 0
                  => proc[p].inc <= th[t].claim]_vars
  BY <1>1
<1> QED
  BY <1>2, InductiveHolds, PTL DEF Spec, FreezesTheVetted

-------------------------------------------------------------------------------
(* Who tells the ledger that a lease has ended.                            *)

\* Thread t has yet to report lease l: as the one it ended, or as the stale
\* one it closed on its way through acquire.
Telling(t, l) ==
  \/ th[t].pc = "logging" /\ th[t].lease = l
  \/ th[t].pc = "armed" /\ th[t].gone = l

Queued(l) == \E i \in DOMAIN notes : notes[i] = l

\* A lease that has not ended is nobody's to report; one that has is reported
\* by one thread, or queued once for the recorder, or written.
RecordInv ==
  /\ \A l \in LeaseId : blocks[l] <= 1
  /\ \A l \in LeaseId : lease[l].state \notin Ended =>
       blocks[l] = 0 /\ ~Queued(l) /\ \A t \in Thread : ~Telling(t, l)
  /\ \A l \in LeaseId : Queued(l) =>
       blocks[l] = 0 /\ \A t \in Thread : ~Telling(t, l)
  /\ \A i, j \in DOMAIN notes : notes[i] = notes[j] => i = j
  /\ \A t \in Thread, l \in LeaseId : Telling(t, l) =>
       blocks[l] = 0 /\ \A u \in Thread : Telling(u, l) => u = t

\* No lease stops being ended.
Lasting == \A l \in LeaseId :
  lease[l].state \in Ended => lease'[l].state \in Ended

\* Nobody but thread t takes a lease to report, and it takes only l.
TellsAtMost(t, l) == \A u \in Thread, m \in LeaseId :
  Telling(u, m)' => Telling(u, m) \/ (u = t /\ m = l)
TellsNothing == \A u \in Thread, m \in LeaseId : Telling(u, m)' => Telling(u, m)

LEMMA QuietRecord ==
  ASSUME RecordInv, Lasting, TellsNothing, UNCHANGED <<notes, blocks>>
  PROVE  RecordInv'
BY DEF RecordInv, Lasting, TellsNothing, Queued

LEMMA TellRecord ==
  ASSUME RecordInv, Lasting, NEW t \in Thread, NEW l \in LeaseId,
         lease[l].state \notin Ended, lease'[l].state \in Ended,
         TellsAtMost(t, l), UNCHANGED <<notes, blocks>>
  PROVE  RecordInv'
BY DEF RecordInv, Lasting, TellsAtMost, Queued

\* Queueing a lease nobody else reports keeps the queue without repetition.
LEMMA QueueRecord ==
  ASSUME RecordInv, Lasting, TellsNothing, NEW l \in LeaseId,
         notes \in Seq(LeaseId), notes' = Append(notes, l),
         blocks' = blocks, blocks[l] = 0, ~Queued(l),
         \A t \in Thread : ~Telling(t, l)', lease'[l].state \in Ended
  PROVE  RecordInv'
<1>1. /\ DOMAIN notes = 1 .. Len(notes) /\ Len(notes) \in Nat
      /\ DOMAIN notes' = 1 .. Len(notes) + 1 /\ notes'[Len(notes) + 1] = l
      /\ \A i \in DOMAIN notes : notes'[i] = notes[i]
  OBVIOUS
<1>2. \A m : Queued(m)' => Queued(m) \/ m = l
  <2> SUFFICES ASSUME NEW m, Queued(m)' PROVE Queued(m) \/ m = l
    OBVIOUS
  <2>1. PICK i \in DOMAIN notes' : notes'[i] = m
    BY DEF Queued
  <2>2. CASE i = Len(notes) + 1
    BY <1>1, <2>1, <2>2
  <2>3. CASE i # Len(notes) + 1
    <3>1. i \in DOMAIN notes
      BY <1>1, <2>3
    <3> QED BY <1>1, <2>1, <3>1 DEF Queued
  <2> QED BY <2>2, <2>3
<1>3. \A i, j \in DOMAIN notes' : notes'[i] = notes'[j] => i = j
  <2> SUFFICES ASSUME NEW i \in DOMAIN notes', NEW j \in DOMAIN notes',
                      notes'[i] = notes'[j]
               PROVE  i = j
    OBVIOUS
  <2>1. \A k \in DOMAIN notes : notes[k] # l
    BY DEF Queued
  <2>2. /\ i = Len(notes) + 1 \/ i \in DOMAIN notes
        /\ j = Len(notes) + 1 \/ j \in DOMAIN notes
    BY <1>1
  <2> QED BY <1>1, <2>1, <2>2 DEF RecordInv
<1>4. \A m \in LeaseId : lease'[m].state \notin Ended =>
        lease[m].state \notin Ended /\ m # l
  BY DEF Lasting
<1> QED
  BY <1>2, <1>3, <1>4 DEF RecordInv, TellsNothing

\* The thread's block is written, and the thread forgets the lease.
LEMMA WrittenRecord ==
  ASSUME TypeOK, RecordInv, Lasting, TellsNothing, UNCHANGED notes,
         NEW l \in LeaseId, blocks' = [blocks EXCEPT ![l] = @ + 1],
         blocks[l] = 0, ~Queued(l), \A t \in Thread : ~Telling(t, l)',
         lease[l].state \in Ended
  PROVE  RecordInv'
<1>1. \A m \in LeaseId : blocks'[m] = IF m = l THEN 1 ELSE blocks[m]
  BY DEF TypeOK
<1> QED BY <1>1 DEF RecordInv, Lasting, TellsNothing, Queued

\* The recorder writes the lease at the head of the queue.
LEMMA RecorderRecord ==
  ASSUME TypeOK, RecordInv, Record
  PROVE  RecordInv'
<1> DEFINE l == Head(notes)
<1>1. /\ notes # <<>> /\ notes \in Seq(LeaseId) /\ notes' = Tail(notes)
      /\ blocks' = [blocks EXCEPT ![l] = @ + 1] /\ UNCHANGED <<lease, th>>
  BY DEF TypeOK, Record
<1>2. /\ DOMAIN notes = 1 .. Len(notes) /\ Len(notes) \in Nat \ {0}
      /\ DOMAIN notes' = 1 .. Len(notes) - 1 /\ l = notes[1] /\ l \in LeaseId
      /\ \A i \in DOMAIN notes' : notes'[i] = notes[i + 1]
  BY <1>1
<1>3. Queued(l) /\ \A m : Queued(m)' => Queued(m) /\ m # l
  <2>1. Queued(l)
    BY <1>2 DEF Queued
  <2> SUFFICES ASSUME NEW m, Queued(m)' PROVE Queued(m) /\ m # l
    BY <2>1
  <2>2. PICK i \in DOMAIN notes' : notes'[i] = m
    BY DEF Queued
  <2>3. i + 1 \in DOMAIN notes /\ notes[i + 1] = m /\ 1 \in DOMAIN notes
        /\ i + 1 # 1
    BY <1>2, <2>2
  <2> QED BY <1>2, <2>3 DEF Queued, RecordInv
<1>4. \A i, j \in DOMAIN notes' : notes'[i] = notes'[j] => i = j
  <2> SUFFICES ASSUME NEW i \in DOMAIN notes', NEW j \in DOMAIN notes',
                      notes'[i] = notes'[j]
               PROVE  i = j
    OBVIOUS
  <2>1. i + 1 \in DOMAIN notes /\ j + 1 \in DOMAIN notes /\ i \in Nat /\ j \in Nat
    BY <1>2
  <2>2. i + 1 = j + 1
    BY <1>2, <2>1 DEF RecordInv
  <2> QED BY <2>1, <2>2
<1>5. /\ \A m \in LeaseId : blocks'[m] = IF m = l THEN blocks[m] + 1 ELSE blocks[m]
      /\ blocks[l] = 0
  BY <1>1, <1>2, <1>3 DEF TypeOK, RecordInv
<1>6. \A t \in Thread, m \in LeaseId : Telling(t, m)' <=> Telling(t, m)
  BY <1>1 DEF Telling
<1> HIDE DEF l
<1> QED BY <1>1, <1>2, <1>3, <1>4, <1>5, <1>6 DEF RecordInv

\* Leaving acquire, a thread queues the stale lease it had closed, if any.
LEMMA LeavingRecord ==
  ASSUME Inductive, RecordInv, Lasting, NEW t \in Thread, NEW state,
         LeaveAcquire(t, state)
  PROVE  RecordInv'
<1>1. /\ th[t].pc = "armed" /\ th' = [th EXCEPT ![t] = Idle]
      /\ notes' = notes \o Note(th[t].gone) /\ UNCHANGED blocks
      /\ th \in [Thread -> Worker] /\ notes \in Seq(LeaseId)
      /\ th[t].gone \in LeaseId \cup {NoLease}
  BY DEF LeaveAcquire, Inductive, TypeOK, Worker
<1>2. TellsNothing /\ \A l \in LeaseId : ~Telling(t, l)'
  BY <1>1 DEF TellsNothing, Telling, Idle
<1>3. CASE th[t].gone = NoLease
  <2>1. notes' = notes
    BY <1>1, <1>3 DEF Note
  <2> QED BY <1>1, <1>2, <2>1, QuietRecord
<1>4. CASE th[t].gone # NoLease
  <2> PICK l \in LeaseId : l = th[t].gone
    BY <1>1, <1>4
  <2>1. Telling(t, l)
    BY <1>1, <1>4 DEF Telling
  <2>2. notes' = Append(notes, l)
    BY <1>1, <1>4, <2>1 DEF Note
  <2>3. /\ blocks[l] = 0 /\ ~Queued(l) /\ lease[l].state \in Ended
        /\ \A u \in Thread : Telling(u, l) => u = t
    BY <2>1 DEF RecordInv
  <2>4. lease'[l].state \in Ended
    BY <2>1, <2>3 DEF Lasting
  <2>5. \A u \in Thread : ~Telling(u, l)'
    BY <1>2, <2>1, <2>3 DEF TellsNothing
  <2> QED BY <1>1, <1>2, <2>1, <2>2, <2>3, <2>4, <2>5, QueueRecord
<1> QED BY <1>3, <1>4

\* A held lease ends; the thread that ended it, if any, is to report it.
LEMMA EndsHeld ==
  ASSUME Inductive, NEW l \in LeaseId, Held(l), NEW s \in Ended, End(l, s)
  PROVE  lease[l].state \notin Ended /\ lease'[l].state \in Ended
BY DEF Inductive, TypeOK, Held, End, Ended

LEMMA TellsOne ==
  ASSUME NEW t \in Thread, NEW l \in LeaseId,
         \A u \in Thread : u # t => th'[u] = th[u],
         \/ th'[t].pc = "logging" /\ th'[t].lease = l
         \/ th'[t].pc = "armed" /\ th'[t].gone = l
  PROVE  TellsAtMost(t, l)
<1> SUFFICES ASSUME NEW u \in Thread, NEW m \in LeaseId, Telling(u, m)'
             PROVE  Telling(u, m) \/ (u = t /\ m = l)
  BY DEF TellsAtMost
<1>1. CASE u = t
  BY <1>1 DEF Telling
<1>2. CASE u # t
  <2>1. th'[u] = th[u]
    BY <1>2
  <2>2. \/ th'[u].pc = "logging" /\ th'[u].lease = m
        \/ th'[u].pc = "armed" /\ th'[u].gone = m
    BY DEF Telling
  <2>3. \/ th[u].pc = "logging" /\ th[u].lease = m
        \/ th[u].pc = "armed" /\ th[u].gone = m
    BY <2>1, <2>2
  <2> QED BY <2>3 DEF Telling
<1> QED BY <1>1, <1>2

LEMMA ReleaseRecord ==
  ASSUME Inductive, RecordInv, Lasting, NEW t \in Thread, NEW l \in LeaseId,
         Held(l), Release(t, l)
  PROVE  RecordInv'
<1>1. /\ th[t] = Idle /\ EndByResume(l) /\ UNCHANGED <<notes, blocks>>
      /\ th' = [th EXCEPT ![t].pc = "logging", ![t].lease = l]
      /\ th \in [Thread -> Worker]
  BY DEF Release, Inductive, TypeOK
<1>2. lease[l].state \notin Ended /\ lease'[l].state \in Ended
  BY <1>1, EndsHeld DEF EndByResume, Ended
<1>3. /\ th'[t].pc = "logging" /\ th'[t].lease = l
      /\ \A u \in Thread : u # t => th'[u] = th[u]
  BY <1>1 DEF Worker
<1>4. TellsAtMost(t, l)
  BY <1>3, TellsOne
<1> QED BY <1>1, <1>2, <1>4, TellRecord

\* A step that neither ends a lease nor reports one.
LEMMA IdleRecord ==
  ASSUME RecordInv, Lasting, NEW t \in Thread, th \in [Thread -> Worker],
         th'[t].pc \notin {"logging", "armed"},
         \A u \in Thread : u # t => th'[u] = th[u], UNCHANGED <<notes, blocks>>
  PROVE  RecordInv'
<1>1. TellsNothing
  BY DEF TellsNothing, Telling
<1> QED BY <1>1, QuietRecord

LEMMA AcquireRecord ==
  ASSUME Inductive, RecordInv, Lasting, NEW t \in Thread, Acquire(t)
  PROVE  RecordInv'
<1>0. th \in [Thread -> Worker]
  BY DEF Inductive, TypeOK
<1>1. CASE \E l \in LeaseId : AcquireArm(t, l)
  <2> PICK l \in LeaseId : AcquireArm(t, l)
    BY <1>1
  <2>1. /\ th[t].pc = "entered" /\ lease[l].state = "free"
        /\ th' = [th EXCEPT ![t].pc = "armed", ![t].lease = l,
                            ![t].gone = heldBy[th[t].pid]]
        /\ UNCHANGED <<notes, blocks>>
    BY DEF AcquireArm, Admitted
  <2>2. /\ th'[t].pc = "armed" /\ th'[t].gone = heldBy[th[t].pid]
        /\ \A u \in Thread : u # t => th'[u] = th[u]
    BY <1>0, <2>1 DEF Worker
  <2>3. th[t].pid \in Pid
    BY <2>1 DEF Inductive, ThreadInv, RequestInv
  <2>4. CASE heldBy[th[t].pid] = NoLease
    <3>1. TellsNothing
      BY <2>2, <2>4, NoLeaseAssumption DEF TellsNothing, Telling
    <3> QED BY <2>1, <3>1, QuietRecord
  <2>5. CASE heldBy[th[t].pid] # NoLease
    <3> PICK old \in LeaseId : old = heldBy[th[t].pid]
      BY <2>3, <2>5 DEF Inductive, TypeOK
    <3>1. lease[old].state = "held"
      BY <2>3, <2>5 DEF Inductive, TableInv, OneLeasePerPid, Held
    <3>2. lease'[old].state = "gone"
      <4>1. old # l /\ lease[old] \in Lease
        BY <2>1, <3>1 DEF Inductive, TypeOK
      <4>2. lease'[old] = [lease[old] EXCEPT !.state = "gone"]
        BY <4>1 DEF AcquireArm
      <4> QED BY <4>1, <4>2 DEF Lease
    <3>3. TellsAtMost(t, old)
      BY <2>2, TellsOne
    <3> QED BY <2>1, <3>1, <3>2, <3>3, TellRecord DEF Ended
  <2> QED BY <2>4, <2>5
<1>2. CASE AcquireSuspend(t) \/ AcquireAbort(t)
  BY <1>2, LeavingRecord DEF AcquireSuspend, AcquireAbort
<1>3. CASE \E p \in Pid, claim \in 0 .. MaxInc : AcquireEnter(t, p, claim)
  <2> PICK p \in Pid, claim \in 0 .. MaxInc : AcquireEnter(t, p, claim)
    BY <1>3
  <2>1. /\ th'[t].pc = "entered"
        /\ \A u \in Thread : u # t => th'[u] = th[u]
        /\ UNCHANGED <<notes, blocks>>
    BY <1>0 DEF AcquireEnter, Worker
  <2> QED BY <1>0, <2>1, IdleRecord
<1>4. CASE AcquireRefused(t) \/ AcquireAlreadyHeld(t) \/ AcquireRebind(t)
  <2>1. th' = [th EXCEPT ![t] = Idle] /\ UNCHANGED <<notes, blocks>>
    BY <1>4 DEF AcquireRefused, AcquireAlreadyHeld, AcquireRebind
  <2>2. th'[t].pc = "idle" /\ \A u \in Thread : u # t => th'[u] = th[u]
    BY <1>0, <2>1 DEF Idle
  <2> QED BY <1>0, <2>1, <2>2, IdleRecord
<1> QED BY <1>1, <1>2, <1>3, <1>4 DEF Acquire

LEMMA TerminateRecord ==
  ASSUME Inductive, RecordInv, Lasting, NEW t \in Thread, Terminate(t)
  PROVE  RecordInv'
<1>0. th \in [Thread -> Worker]
  BY DEF Inductive, TypeOK
<1>1. CASE \E p \in Pid : TerminateBind(t, p)
  <2> PICK p \in Pid : TerminateBind(t, p)
    BY <1>1
  <2>1. /\ th'[t].pc = "killing"
        /\ \A u \in Thread : u # t => th'[u] = th[u]
        /\ UNCHANGED <<notes, blocks>>
    BY <1>0 DEF TerminateBind, Worker
  <2> QED BY <1>0, <2>1, IdleRecord
<1>2. CASE TerminateKill(t)
  <2>1. /\ th'[t].pc = "killed"
        /\ \A u \in Thread : u # t => th'[u] = th[u]
        /\ UNCHANGED <<notes, blocks>>
    BY <1>0, <1>2 DEF TerminateKill, Worker
  <2> QED BY <1>0, <2>1, IdleRecord
<1>3. CASE TerminateRefused(t)
  <2>1. /\ th'[t].pc = "idle"
        /\ \A u \in Thread : u # t => th'[u] = th[u]
        /\ UNCHANGED <<notes, blocks>>
    BY <1>0, <1>3 DEF TerminateRefused, Idle
  <2> QED BY <1>0, <2>1, IdleRecord
<1>4. CASE TerminateClose(t)
  <2> DEFINE l == heldBy[th[t].pid]
  <2>1. /\ th[t].pc = "killed" /\ th[t].pid \in Pid
        /\ UNCHANGED <<notes, blocks>>
        /\ IF l = NoLease THEN UNCHANGED tableVars ELSE End(l, "terminated")
        /\ th' = [th EXCEPT ![t] = [Idle EXCEPT !.pc = "logging", !.lease = l]]
    BY <1>4 DEF TerminateClose, Inductive, ThreadInv, RequestInv
  <2>2. /\ th'[t].pc = "logging" /\ th'[t].lease = l
        /\ \A u \in Thread : u # t => th'[u] = th[u]
    BY <1>0, <2>1 DEF Idle
  <2>3. CASE l = NoLease
    <3>1. TellsNothing
      BY <2>2, <2>3, NoLeaseAssumption DEF TellsNothing, Telling
    <3> QED BY <2>1, <3>1, QuietRecord
  <2>4. CASE l # NoLease
    <3> PICK m \in LeaseId : m = l
      BY <2>1, <2>4 DEF Inductive, TypeOK
    <3>1. Held(m)
      BY <2>1, <2>4 DEF Inductive, TableInv, OneLeasePerPid
    <3>2. lease[m].state \notin Ended /\ lease'[m].state \in Ended
      BY <2>1, <2>4, <3>1, EndsHeld DEF Ended
    <3>3. TellsAtMost(t, m)
      BY <2>2, TellsOne
    <3> QED BY <2>1, <3>2, <3>3, TellRecord
  <2> QED BY <2>3, <2>4
<1> QED BY <1>1, <1>2, <1>3, <1>4 DEF Terminate

\* The reaper and the shutdown queue what they end.
LEMMA QueuesHeld ==
  ASSUME Inductive, RecordInv, Lasting, NEW l \in LeaseId, Held(l),
         EndByResume(l), notes' = Append(notes, l), UNCHANGED <<th, blocks>>
  PROVE  RecordInv'
<1>1. lease[l].state \notin Ended /\ lease'[l].state \in Ended
  BY EndsHeld DEF EndByResume, Ended
<1>2. /\ blocks[l] = 0 /\ ~Queued(l) /\ \A t \in Thread : ~Telling(t, l)
      /\ notes \in Seq(LeaseId)
  BY <1>1 DEF RecordInv, Inductive, TypeOK
<1>3. TellsNothing /\ \A t \in Thread : ~Telling(t, l)'
  BY <1>2 DEF TellsNothing, Telling
<1> QED BY <1>1, <1>2, <1>3, QueueRecord

LEMMA RecordNext ==
  ASSUME Inductive, RecordInv, [Next]_vars
  PROVE  RecordInv'
<1>1. Lasting
  BY EndedStays DEF Lasting
<1>2. ASSUME UNCHANGED <<th, notes, blocks>> PROVE RecordInv'
  <2>1. TellsNothing
    BY <1>2 DEF TellsNothing, Telling
  <2> QED BY <1>1, <1>2, <2>1, QuietRecord
<1>3. ASSUME NEW t \in Thread, Acquire(t) PROVE RecordInv'
  BY <1>1, <1>3, AcquireRecord
<1>4. ASSUME NEW t \in Thread, Resume(t) PROVE RecordInv'
  <2>1. ASSUME NEW l \in LeaseId, ReleaseLease(t, l) PROVE RecordInv'
    BY <1>1, <2>1, ReleaseRecord DEF ReleaseLease
  <2>2. ASSUME NEW l \in LeaseId, ReleaseFails(t, l) PROVE RecordInv'
    BY <1>2, <2>2 DEF ReleaseFails
  <2>3. ASSUME NEW p \in Pid, ReleasePid(t, p) PROVE RecordInv'
    <3> PICK l \in LeaseId : l = heldBy[p]
      BY <2>3 DEF ReleasePid, Inductive, TypeOK
    <3>1. Held(l)
      BY <2>3 DEF ReleasePid, Inductive, TableInv, OneLeasePerPid
    <3> QED BY <1>1, <2>3, <3>1, ReleaseRecord DEF ReleasePid
  <2> QED BY <1>4, <2>1, <2>2, <2>3 DEF Resume
<1>5. ASSUME NEW t \in Thread, Terminate(t) PROVE RecordInv'
  BY <1>1, <1>5, TerminateRecord
<1>6. ASSUME NEW t \in Thread, HandlerLogs(t) PROVE RecordInv'
  <2>1. /\ th[t].pc = "logging" /\ th' = [th EXCEPT ![t] = Idle]
        /\ th \in [Thread -> Worker] /\ UNCHANGED notes
        /\ blocks' = IF th[t].lease = NoLease THEN blocks
                     ELSE [blocks EXCEPT ![th[t].lease] = @ + 1]
    BY <1>6 DEF HandlerLogs, Inductive, TypeOK
  <2>2. th'[t].pc = "idle" /\ \A u \in Thread : u # t => th'[u] = th[u]
    BY <2>1 DEF Idle
  <2>3. CASE th[t].lease = NoLease
    BY <1>1, <2>1, <2>2, <2>3, IdleRecord
  <2>4. CASE th[t].lease # NoLease
    <3> PICK l \in LeaseId : l = th[t].lease
      BY <2>1, <2>4 DEF Worker
    <3>1. Telling(t, l)
      BY <2>1 DEF Telling
    <3>2. /\ blocks[l] = 0 /\ ~Queued(l) /\ lease[l].state \in Ended
          /\ \A u \in Thread : Telling(u, l) => u = t
      BY <3>1 DEF RecordInv
    <3>3. TellsNothing /\ \A u \in Thread : ~Telling(u, l)'
      BY <2>2, <3>2 DEF TellsNothing, Telling
    <3> QED
      BY <1>1, <2>1, <2>4, <3>2, <3>3, WrittenRecord DEF Inductive
  <2> QED BY <2>3, <2>4
<1>7. ASSUME Housekeeping PROVE RecordInv'
  <2>1. ASSUME NEW l \in LeaseId, Reap(l) PROVE RecordInv'
    BY <1>1, <2>1, QueuesHeld DEF Reap, ReapDue
  <2>2. ASSUME NEW l \in LeaseId, Expire(l) \/ ReapFails(l) PROVE RecordInv'
    BY <1>2, <2>2 DEF Expire, ReapFails
  <2>3. ASSUME Record PROVE RecordInv'
    BY <2>3, RecorderRecord DEF Inductive
  <2> QED BY <1>7, <2>1, <2>2, <2>3 DEF Housekeeping
<1>8. ASSUME ShuttingDown PROVE RecordInv'
  <2>1. ASSUME NEW l \in LeaseId, ResumeNext(l) PROVE RecordInv'
    <3>1. Held(l)
      BY <2>1 DEF ResumeNext, Inductive, DownInv, ShutdownInv
    <3> QED BY <1>1, <2>1, <3>1, QueuesHeld DEF ResumeNext
  <2>2. ASSUME NEW l \in LeaseId, ResumeNextFails(l) PROVE RecordInv'
    BY <1>2, <2>2 DEF ResumeNextFails
  <2>3. ASSUME ShutdownClose \/ ResumeAll \/ ResumeAllDone \/ Stop
        PROVE  RecordInv'
    BY <1>2, <2>3 DEF ShutdownClose, ResumeAll, ResumeAllDone, Stop
  <2> QED BY <1>8, <2>1, <2>2, <2>3 DEF ShuttingDown
<1>9. ASSUME OperatingSystem PROVE RecordInv'
  BY <1>2, <1>9 DEF OperatingSystem, Exit, Spawn, TriggerKill
<1>10. ASSUME UNCHANGED vars PROVE RecordInv'
  BY <1>2, <1>10 DEF vars
<1> QED
  BY <1>3, <1>4, <1>5, <1>6, <1>7, <1>8, <1>9, <1>10 DEF Next

\* However a lease ends - by its caller, the reaper, a kill, the shutdown, or
\* because its process is gone - at most one ledger block says so.
THEOREM EndIsRecordedOnce == Spec => []EndRecordedOnce
<1>1. Init => RecordInv
  BY DEF Init, RecordInv, Telling, Queued, Idle
<1>2. Inductive /\ RecordInv /\ [Next]_vars => RecordInv'
  BY RecordNext
<1>3. RecordInv => EndRecordedOnce
  BY DEF RecordInv, EndRecordedOnce
<1> QED BY <1>1, <1>2, <1>3, InductiveHolds, PTL DEF Spec
=============================================================================
