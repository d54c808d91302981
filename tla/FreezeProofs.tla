----------------------------- MODULE FreezeProofs -----------------------------
(***************************************************************************)
(* What is proved of the parts a freeze rests on, for every value of their *)
(* constants.  Each part has an inductive invariant of its own; a step of  *)
(* FreezeNext is a step of the part chosen at the start.                   *)
(***************************************************************************)
EXTENDS MCFreeze, TLAPS

-------------------------------------------------------------------------------
(* The hash chain, once its ledger object is there (~H_ColdStart): every   *)
(* call then goes through ledger 1, and one of them leads at a time.       *)

Waiters == H_waiting[1]

\* The call is inside _commit: it reads the tip or inserts; it has entries to
\* settle; it has the lead.
Writes(call)  == call.pc \in {"tip", "insert"}
Carries(call) == call.pc \in {"tip", "insert", "settle"}
Leads(call)   == call.pc \in {"tip", "insert", "settle", "settled"}

\* Who is in the order of arrival, and which of two is there first.
InLine(line, a) == \E n \in DOMAIN line : line[n] = a
Ahead(line, a, b) ==
  \E m, n \in DOMAIN line : m < n /\ line[m] = a /\ line[n] = b
InTurn(line, s) ==
  /\ \A i \in DOMAIN s : InLine(line, s[i])
  /\ \A i, j \in DOMAIN s : i < j => Ahead(line, s[i], s[j])

OneLedger ==
  /\ H_made = 1 /\ H_shared = 1
  /\ \A e \in H_Entry :
       /\ H_rq[e].pc \notin {"making", "made"}
       /\ H_rq[e].pc \notin {"new", "lost"} => H_rq[e].ledger = 1

OneLeader ==
  /\ \A e \in H_Entry : Leads(H_rq[e]) => H_leading[1]
  /\ \A e, f \in H_Entry : Leads(H_rq[e]) /\ Leads(H_rq[f]) => e = f

JoinedOnce ==
  /\ \A m, n \in DOMAIN H_arrived : H_arrived[m] = H_arrived[n] => m = n
  /\ \A e \in H_Entry :
       H_rq[e].pc \in {"new", "ready"} => ~InLine(H_arrived, e)

\* What a commit carries joined before all that still waits.
QueueInTurn ==
  /\ InTurn(H_arrived, Waiters)
  /\ \A e \in H_Entry : Carries(H_rq[e]) =>
       /\ InTurn(H_arrived, H_rq[e].batch)
       /\ \A i \in DOMAIN H_rq[e].batch, j \in DOMAIN Waiters :
            Ahead(H_arrived, H_rq[e].batch[i], Waiters[j])

\* Nobody who waits, or whom a commit carries, has been answered.
NotYetDone ==
  /\ \A j \in DOMAIN Waiters : ~H_rq[Waiters[j]].done
  /\ \A e \in H_Entry :
       /\ Carries(H_rq[e]) =>
            \A i \in DOMAIN H_rq[e].batch : ~H_rq[H_rq[e].batch[i]].done
       /\ H_rq[e].done => InLine(H_arrived, e)
       /\ H_rq[e].row # <<>> => H_rq[e].done
       /\ H_rq[e].pc = "returned" => H_rq[e].row # <<>>

\* The rows are those of the batch, one by one.
Follow(rows, batch) ==
  /\ Len(rows) <= Len(batch)
  /\ \A k \in DOMAIN rows : rows[k].event = batch[k]

\* The open transaction is the leader's.
Transaction ==
  /\ H_open[1] # <<>> => \E e \in H_Entry : H_rq[e].pc = "insert"
  /\ \A e \in H_Entry :
       /\ H_rq[e].pc = "tip" => H_rq[e].blocks = <<>>
       /\ H_rq[e].pc = "insert" =>
            H_open[1] = H_rq[e].blocks /\ Follow(H_rq[e].blocks, H_rq[e].batch)
       /\ H_rq[e].pc = "settle" =>
            \/ H_rq[e].blocks = <<>>
            \/ /\ Follow(H_rq[e].blocks, H_rq[e].batch)
               /\ Len(H_rq[e].blocks) = Len(H_rq[e].batch)

\* The rows as the service's own connection sees them.
Rows == H_disk \o H_open[1]

Link(rows, i) ==
  /\ rows[i].id = i
  /\ rows[i].hash = Append(rows[i].prev, rows[i].event)
  /\ rows[i].prev = IF i = 1 THEN <<>> ELSE rows[i - 1].hash
  /\ rows[i].event \in H_Entry
  /\ rows[i].prev # <<H_Forged>>

InFile(rows, row) == \E i \in DOMAIN rows : rows[i] = row

DiskInTurn ==
  /\ \A i \in DOMAIN H_disk : InLine(H_arrived, H_disk[i].event)
  /\ \A i, j \in DOMAIN H_disk :
       i < j => Ahead(H_arrived, H_disk[i].event, H_disk[j].event)
  /\ \A i \in DOMAIN H_disk, j \in DOMAIN Waiters :
       Ahead(H_arrived, H_disk[i].event, Waiters[j])
  /\ \A e \in H_Entry : Writes(H_rq[e]) =>
       \A i \in DOMAIN H_disk, k \in DOMAIN H_rq[e].batch :
         Ahead(H_arrived, H_disk[i].event, H_rq[e].batch[k])

\* What holds of the file while nobody else writes it.
Intact ==
  /\ \A i \in DOMAIN Rows : Link(Rows, i)
  /\ \A e \in H_Entry : H_rq[e].pc = "insert" => H_rq[e].tip = H!TipOf(Rows)
  /\ \A e \in H_Entry : H_rq[e].pc = "settle" =>
       \A k \in DOMAIN H_rq[e].blocks : InFile(H_disk, H_rq[e].blocks[k])
  /\ \A e \in H_Entry : H_rq[e].row # <<>> =>
       H_rq[e].row[1].event = e /\ InFile(H_disk, H_rq[e].row[1])
  /\ DiskInTurn

\* What was edited is the first block that does not fit.
Named(rows, at) ==
  \E k \in DOMAIN rows :
    /\ H!Broken(rows, k) /\ rows[k].id = at
    /\ \A j \in DOMAIN rows : j < k => ~H!Broken(rows, j)

ChainOrder ==
  /\ JoinedOnce /\ QueueInTurn /\ NotYetDone /\ Transaction
  /\ H_edited.kind = "none" => Intact /\ H_edited.at = 0
  /\ H_edited.at # 0 => Named(H_disk, H_edited.at)

-------------------------------------------------------------------------------
(* Types.                                                                  *)

LEMMA HashHolds == H!HashAssumption
  BY FreezeAssumption DEF FreezeAssumption

USE HashHolds DEF H!HashAssumption

\* The smaller of two numbers, as the community module defines it.
LEMMA SmallerOfTwo ==
  ASSUME NEW a \in Nat, NEW b \in Nat
  PROVE  /\ H!Min({a, b}) \in Nat
         /\ H!Min({a, b}) <= a /\ H!Min({a, b}) <= b
<1>1. CASE a <= b
  <2>1. a \in {a, b} /\ \A y \in {a, b} : a <= y
    BY <1>1
  <2> QED BY <2>1 DEF H!Min
<1>2. CASE b <= a
  <2>1. b \in {a, b} /\ \A y \in {a, b} : b <= y
    BY <1>2
  <2> QED BY <2>1 DEF H!Min
<1> QED BY <1>1, <1>2

\* A call with one of its fields changed is still a call.
LEMMA CallIs ==
  ASSUME NEW c \in H!Call
  PROVE  /\ c.ledger \in H!Ledger \cup {0} /\ c.batch \in Seq(H_Entry)
         /\ c.tip \in H!Hash /\ c.blocks \in Seq(H!Row)
         /\ c.done \in BOOLEAN /\ c.row \in Seq(H!Row)
  BY DEF H!Call

ChainPc == {"new", "making", "made", "ready", "loop", "asleep", "tip",
            "insert", "settle", "settled", "returned", "failed", "lost"}

LEMMA PcKept ==
  ASSUME NEW c \in H!Call, NEW pc \in ChainPc
  PROVE  /\ [c EXCEPT !.pc = pc] \in H!Call
         /\ [c EXCEPT !.pc = pc].batch = c.batch
  BY DEF H!Call, ChainPc

LEMMA LedgerKept ==
  ASSUME NEW c \in H!Call, NEW pc \in ChainPc, NEW l \in H!Ledger \cup {0}
  PROVE  /\ [c EXCEPT !.pc = pc, !.ledger = l] \in H!Call
         /\ [c EXCEPT !.pc = pc, !.ledger = l].batch = c.batch
  BY DEF H!Call, ChainPc

LEMMA TipKept ==
  ASSUME NEW c \in H!Call, NEW pc \in ChainPc, NEW t \in H!Hash
  PROVE  /\ [c EXCEPT !.pc = pc, !.tip = t] \in H!Call
         /\ [c EXCEPT !.pc = pc, !.tip = t].batch = c.batch
  BY DEF H!Call, ChainPc

LEMMA BlocksKept ==
  ASSUME NEW c \in H!Call, NEW t \in H!Hash, NEW r \in Seq(H!Row)
  PROVE  /\ [c EXCEPT !.tip = t, !.blocks = r] \in H!Call
         /\ [c EXCEPT !.tip = t, !.blocks = r].batch = c.batch
  BY DEF H!Call

LEMMA BatchDropped ==
  ASSUME NEW c \in H!Call, NEW pc \in ChainPc
  PROVE  /\ [c EXCEPT !.pc = pc, !.batch = <<>>, !.blocks = <<>>] \in H!Call
         /\ [c EXCEPT !.pc = pc, !.batch = <<>>, !.blocks = <<>>].batch = <<>>
<1>1. <<>> \in Seq(H!Row) /\ <<>> \in Seq(H_Entry)
  OBVIOUS
<1> QED BY <1>1 DEF H!Call, ChainPc

LEMMA FailedKept ==
  ASSUME NEW c \in H!Call, NEW pc \in ChainPc, NEW r \in Seq(H!Row)
  PROVE  /\ [c EXCEPT !.pc = pc, !.blocks = r] \in H!Call
         /\ [c EXCEPT !.pc = pc, !.blocks = r].batch = c.batch
  BY DEF H!Call, ChainPc

LEMMA AnswerKept ==
  ASSUME NEW c \in H!Call, NEW r \in Seq(H!Row)
  PROVE  /\ [c EXCEPT !.done = TRUE, !.row = r] \in H!Call
         /\ [c EXCEPT !.done = TRUE, !.row = r].batch = c.batch
  BY DEF H!Call

LEMMA FreshIsCall == H!Fresh \in H!Call /\ [H!Fresh EXCEPT !.pc = "lost"] \in H!Call
<1>1. <<>> \in Seq(H_Entry) /\ <<>> \in Seq(H!Row) /\ <<>> \in H!Hash
  BY DEF H!Hash
<1>2. H!Fresh \in H!Call
  BY <1>1 DEF H!Call, H!Fresh
<1> QED BY <1>1, <1>2 DEF H!Call, H!Fresh

LEMMA HashIsHash ==
  ASSUME NEW event \in H!Event, NEW prev \in H!Hash
  PROVE  H!ComputeHash(event, prev) \in H!Hash
  BY DEF H!ComputeHash, H!Hash

LEMMA RowIs ==
  ASSUME NEW i \in Nat, NEW event \in H!Event, NEW prev \in H!Hash,
         NEW hash \in H!Hash
  PROVE  [id |-> i, event |-> event, prev |-> prev, hash |-> hash] \in H!Row
  BY DEF H!Row

LEMMA TipIs ==
  ASSUME NEW rows \in Seq(H!Row)
  PROVE  /\ H!TipOf(rows) \in H!Hash
         /\ H!NextId(rows) \in Nat
         /\ rows # <<>> => /\ H!TipOf(rows) = rows[Len(rows)].hash
                           /\ H!NextId(rows) = rows[Len(rows)].id + 1
         /\ rows = <<>> => H!TipOf(rows) = <<>> /\ H!NextId(rows) = 1
<1>1. rows # <<>> => rows[Len(rows)] \in H!Row
  OBVIOUS
<1>2. rows # <<>> => rows[Len(rows)].hash \in H!Hash /\ rows[Len(rows)].id \in Nat
  BY <1>1 DEF H!Row
<1>3. <<>> \in H!Hash
  BY DEF H!Hash
<1> QED BY <1>2, <1>3 DEF H!TipOf, H!NextId, H!Last, H!Genesis

LEMMA WokenIs ==
  ASSUME NEW calls \in [H_Entry -> H!Call], NEW d
  PROVE  /\ H!Woken(calls, d) \in [H_Entry -> H!Call]
         /\ \A e \in H_Entry : H!Woken(calls, d)[e].batch = calls[e].batch
         /\ \A e \in H_Entry :
              \/ H!Woken(calls, d)[e] = calls[e]
              \/ /\ calls[e].pc = "asleep"
                 /\ H!Woken(calls, d)[e] = [calls[e] EXCEPT !.pc = "loop"]
<1>1. ASSUME NEW e \in H_Entry
      PROVE  /\ calls[e] \in H!Call /\ [calls[e] EXCEPT !.pc = "loop"] \in H!Call
             /\ [calls[e] EXCEPT !.pc = "loop"].batch = calls[e].batch
  BY PcKept DEF ChainPc
<1> QED BY <1>1 DEF H!Woken

\* A call with its block, the k-th of those written, or with none.
Answered(call, rows, k) ==
  [call EXCEPT !.done = TRUE,
               !.row = IF rows = <<>> THEN <<>> ELSE <<rows[k]>>]

\* The batch is settled: each call of it has an answer, the others are as they
\* were.
LEMMA SettledIs ==
  ASSUME H!TypeOK, NEW e \in H_Entry,
         \/ H_rq[e].blocks = <<>>
         \/ Len(H_rq[e].blocks) = Len(H_rq[e].batch)
  PROVE  /\ H!Settled(e) \in [H_Entry -> H!Call]
         /\ \A c \in H_Entry : H!Settled(e)[c].batch = H_rq[c].batch
         /\ \A c \in H_Entry :
              \/ /\ \A k \in DOMAIN H_rq[e].batch : H_rq[e].batch[k] # c
                 /\ H!Settled(e)[c] = H_rq[c]
              \/ \E k \in DOMAIN H_rq[e].batch :
                   /\ H_rq[e].batch[k] = c
                   /\ H!Settled(e)[c] =
                        Answered(H_rq[c], H_rq[e].blocks, k)
<1>1. /\ H_rq \in [H_Entry -> H!Call] /\ H_rq[e] \in H!Call
      /\ H_rq[e].batch \in Seq(H_Entry) /\ H_rq[e].blocks \in Seq(H!Row)
  BY CallIs DEF H!TypeOK
<1>2. ASSUME NEW c \in H_Entry, NEW k \in DOMAIN H_rq[e].batch
      PROVE  (IF H_rq[e].blocks = <<>> THEN <<>>
              ELSE <<H_rq[e].blocks[k]>>) \in Seq(H!Row)
  <2>1. CASE H_rq[e].blocks = <<>>
    BY <2>1
  <2>2. CASE H_rq[e].blocks # <<>>
    <3>1. k \in 1 .. Len(H_rq[e].blocks)
      BY <1>1, <2>2
    <3>2. H_rq[e].blocks[k] \in H!Row
      BY <1>1, <3>1
    <3> QED BY <2>2, <3>2
  <2> QED BY <2>1, <2>2
<1>3. ASSUME NEW c \in H_Entry
      PROVE  /\ H!Settled(e)[c] \in H!Call
             /\ H!Settled(e)[c].batch = H_rq[c].batch
             /\ \/ /\ \A k \in DOMAIN H_rq[e].batch : H_rq[e].batch[k] # c
                   /\ H!Settled(e)[c] = H_rq[c]
                \/ \E k \in DOMAIN H_rq[e].batch :
                     /\ H_rq[e].batch[k] = c
                     /\ H!Settled(e)[c] =
                          Answered(H_rq[c], H_rq[e].blocks, k)
  <2>1. DOMAIN H_rq[e].batch = 1 .. Len(H_rq[e].batch) /\ H_rq[c] \in H!Call
    BY <1>1
  <2>2. CASE \E k \in DOMAIN H_rq[e].batch : H_rq[e].batch[k] = c
    <3> DEFINE k == CHOOSE n \in DOMAIN H_rq[e].batch : H_rq[e].batch[n] = c
    <3>1. k \in DOMAIN H_rq[e].batch /\ H_rq[e].batch[k] = c
      BY <2>2
    <3>2. H!Contains(H_rq[e].batch, c)
      BY <2>1, <3>1 DEF H!Contains
    <3>3. H!Settled(e)[c] = [H_rq[c] EXCEPT !.done = TRUE,
                                            !.row = H!BlockOf(e, c)]
      BY <3>2 DEF H!Settled
    <3>4. H!BlockOf(e, c) = IF H_rq[e].blocks = <<>> THEN <<>>
                            ELSE <<H_rq[e].blocks[k]>>
      BY DEF H!BlockOf
    <3> HIDE DEF k
    <3>5. H!BlockOf(e, c) \in Seq(H!Row)
      BY <1>2, <3>1, <3>4
    <3> DEFINE r == H!BlockOf(e, c)
    <3> HIDE DEF r
    <3>6. /\ [H_rq[c] EXCEPT !.done = TRUE, !.row = r] \in H!Call
          /\ [H_rq[c] EXCEPT !.done = TRUE, !.row = r].batch = H_rq[c].batch
      BY <2>1, <3>5, AnswerKept DEF r
    <3>7. H!Settled(e)[c] = Answered(H_rq[c], H_rq[e].blocks, k)
      BY <3>3, <3>4 DEF Answered
    <3> QED BY <3>1, <3>3, <3>6, <3>7 DEF r
  <2>3. CASE \A k \in DOMAIN H_rq[e].batch : H_rq[e].batch[k] # c
    <3>1. ~H!Contains(H_rq[e].batch, c)
      BY <2>1, <2>3 DEF H!Contains
    <3>2. H!Settled(e)[c] = H_rq[c]
      BY <3>1 DEF H!Settled
    <3> QED BY <2>1, <2>3, <3>2
  <2> QED BY <2>2, <2>3
<1>4. H!Settled(e) = [c \in H_Entry |-> H!Settled(e)[c]]
  BY DEF H!Settled
<1>5. H!Settled(e) \in [H_Entry -> H!Call]
  BY <1>3, <1>4
<1> QED BY <1>3, <1>5

\* The types of the calls, once each of them has its own.
LEMMA CallsTyped ==
  ASSUME H!TypeOK, NEW e \in H_Entry, NEW c \in H!Call,
         H_rq' = [H_rq EXCEPT ![e] = c], Len(c.batch) <= H_MaxBatch
  PROVE  /\ H_rq' \in [H_Entry -> H!Call]
         /\ \A f \in H_Entry : Len(H_rq'[f].batch) <= H_MaxBatch
  BY DEF H!TypeOK

\* A call that is past get_ledger has a ledger.
HasLedger ==
  \A e \in H_Entry :
    /\ H_rq[e].pc = "made" => H_shared # 0
    /\ H_rq[e].pc \notin {"new", "making", "made", "lost"} => H_rq[e].ledger # 0

\* What is settled has as many blocks as calls, or none.
Paired ==
  \A e \in H_Entry : H_rq[e].pc = "settle" =>
    H_rq[e].blocks = <<>> \/ Len(H_rq[e].blocks) = Len(H_rq[e].batch)

ChainTypes == H!TypeOK /\ HasLedger /\ Paired

LEMMA ChainTypeInit == H!Init => ChainTypes
<1> SUFFICES ASSUME H!Init PROVE ChainTypes OBVIOUS
<1>1. <<>> \in Seq(H!Row) /\ <<>> \in Seq(H_Entry)
  OBVIOUS
<1>2. H_rq \in [H_Entry -> H!Call] /\ \A e \in H_Entry : H_rq[e].batch = <<>>
  BY FreshIsCall DEF H!Init, H!Fresh
<1>3. H_made \in 0 .. H_MaxLedger /\ H_shared \in 0 .. H_made
  BY DEF H!Init, H!Start
<1>4. H_edited \in H!Edit
  BY DEF H!Init, H!Edit
<1>5. HasLedger /\ Paired
  BY DEF H!Init, H!Fresh, HasLedger, Paired
<1> QED BY <1>1, <1>2, <1>3, <1>4, <1>5 DEF H!TypeOK, H!Init, ChainTypes

LEMMA ChainTypeStep == ChainTypes /\ H!Next => H!TypeOK'
<1> SUFFICES ASSUME H!TypeOK, HasLedger, Paired, H!Next PROVE H!TypeOK'
  BY DEF ChainTypes
<1>0. /\ H_disk \in Seq(H!Row) /\ H_open \in [H!Ledger -> Seq(H!Row)]
      /\ H_waiting \in [H!Ledger -> Seq(H_Entry)]
      /\ H_rq \in [H_Entry -> H!Call]
      /\ H_made \in 0 .. H_MaxLedger /\ H_shared \in 0 .. H_made
      /\ H_arrived \in Seq(H_Entry) /\ H_crashes \in 0 .. H_MaxCrash
      /\ H_leading \in [H!Ledger -> BOOLEAN] /\ H_edited \in H!Edit
      /\ \A e \in H_Entry : Len(H_rq[e].batch) <= H_MaxBatch
  BY DEF H!TypeOK
<1>00. <<>> \in Seq(H!Row)
  OBVIOUS
<1>1. ASSUME NEW e \in H_Entry, H!Arrive(e)
      PROVE  H!TypeOK'
  <2> DEFINE pc == IF H_shared = 0 THEN "making" ELSE "ready"
             c == [H_rq[e] EXCEPT !.pc = pc, !.ledger = H_shared]
  <2>1. H_shared \in H!Ledger \cup {0} /\ pc \in ChainPc
    BY <1>0 DEF H!Ledger, ChainPc
  <2>2. H_rq' = [H_rq EXCEPT ![e] = c]
    BY <1>1 DEF H!Arrive
  <2> HIDE DEF pc
  <2>3. c \in H!Call /\ c.batch = H_rq[e].batch
    BY <1>0, <2>1, LedgerKept
  <2> HIDE DEF c
  <2> QED BY <1>0, <1>1, <2>2, <2>3, CallsTyped DEF H!TypeOK, H!Arrive
<1>2. ASSUME NEW e \in H_Entry, H!Make(e)
      PROVE  H!TypeOK'
  <2> DEFINE c == [H_rq[e] EXCEPT !.pc = "made"]
  <2>1. c \in H!Call /\ c.batch = H_rq[e].batch
    BY <1>0, PcKept DEF ChainPc
  <2>2. H_rq' = [H_rq EXCEPT ![e] = c]
    BY <1>2 DEF H!Make
  <2>3. H_made' \in 0 .. H_MaxLedger /\ H_shared' \in 0 .. H_made'
    BY <1>0, <1>2 DEF H!Make
  <2> HIDE DEF c
  <2> QED BY <1>0, <1>2, <2>1, <2>2, <2>3, CallsTyped DEF H!TypeOK, H!Make
<1>3. ASSUME NEW e \in H_Entry, H!TakeShared(e)
      PROVE  H!TypeOK'
  <2> DEFINE c == [H_rq[e] EXCEPT !.pc = "ready", !.ledger = H_shared]
  <2>1. c \in H!Call /\ c.batch = H_rq[e].batch
    BY <1>0, H_shared \in H!Ledger \cup {0}, LedgerKept DEF H!Ledger, ChainPc
  <2>2. H_rq' = [H_rq EXCEPT ![e] = c]
    BY <1>3 DEF H!TakeShared
  <2> HIDE DEF c
  <2> QED BY <1>0, <1>3, <2>1, <2>2, CallsTyped DEF H!TypeOK, H!TakeShared
<1>4. ASSUME NEW e \in H_Entry, H!Join(e)
      PROVE  H!TypeOK'
  <2> DEFINE c == [H_rq[e] EXCEPT !.pc = "loop"]
  <2>1. c \in H!Call /\ c.batch = H_rq[e].batch
    BY <1>0, PcKept DEF ChainPc
  <2>2. H_rq' = [H_rq EXCEPT ![e] = c]
    BY <1>4 DEF H!Join
  <2>3. H_rq[e].ledger \in H!Ledger
    BY <1>0, <1>4, CallIs DEF H!Join, HasLedger
  <2>4. H_arrived' \in Seq(H_Entry) /\ H_waiting' \in [H!Ledger -> Seq(H_Entry)]
    BY <1>0, <1>4, <2>3 DEF H!Join
  <2> HIDE DEF c
  <2> QED BY <1>0, <1>4, <2>1, <2>2, <2>4, CallsTyped DEF H!TypeOK, H!Join
<1>5. ASSUME NEW e \in H_Entry, H!Sleep(e)
      PROVE  H!TypeOK'
  <2> DEFINE c == [H_rq[e] EXCEPT !.pc = "asleep"]
  <2>1. c \in H!Call /\ c.batch = H_rq[e].batch
    BY <1>0, PcKept DEF ChainPc
  <2>2. H_rq' = [H_rq EXCEPT ![e] = c]
    BY <1>5 DEF H!Sleep
  <2> HIDE DEF c
  <2> QED BY <1>0, <1>5, <2>1, <2>2, CallsTyped DEF H!TypeOK, H!Sleep
<1>6. ASSUME NEW e \in H_Entry, H!Return(e)
      PROVE  H!TypeOK'
  <2> DEFINE pc == IF H_rq[e].row = <<>> THEN "failed" ELSE "returned"
             c == [H_rq[e] EXCEPT !.pc = pc]
  <2>1. c \in H!Call /\ c.batch = H_rq[e].batch
    BY <1>0, pc \in ChainPc, PcKept DEF ChainPc
  <2>2. H_rq' = [H_rq EXCEPT ![e] = c]
    BY <1>6 DEF H!Return
  <2> HIDE DEF c
  <2> QED BY <1>0, <1>6, <2>1, <2>2, CallsTyped DEF H!TypeOK, H!Return
<1>7. ASSUME NEW e \in H_Entry, H!Lead(e)
      PROVE  H!TypeOK'
  <2> DEFINE d == H_rq[e].ledger
             b == SubSeq(H_waiting[d], 1, H!Taken(d))
             c == [H_rq[e] EXCEPT !.pc = "tip", !.blocks = <<>>, !.batch = b]
  <2>1. d \in H!Ledger
    BY <1>0, <1>7, CallIs DEF H!Lead, HasLedger
  <2>2. /\ H_waiting[d] \in Seq(H_Entry) /\ H!Taken(d) \in Nat
        /\ H!Taken(d) <= Len(H_waiting[d]) /\ H!Taken(d) <= H_MaxBatch
    BY <1>0, <2>1, SmallerOfTwo, Len(H_waiting[d]) \in Nat DEF H!Taken
  <2>3. /\ b \in Seq(H_Entry) /\ Len(b) <= H_MaxBatch
        /\ SubSeq(H_waiting[d], H!Taken(d) + 1, Len(H_waiting[d])) \in Seq(H_Entry)
    BY <2>2
  <2>4. /\ H_waiting' \in [H!Ledger -> Seq(H_Entry)]
        /\ H_leading' \in [H!Ledger -> BOOLEAN]
    BY <1>0, <1>7, <2>1, <2>3 DEF H!Lead
  <2>5. H_rq' = [H_rq EXCEPT ![e] = c]
    BY <1>7 DEF H!Lead
  <2> HIDE DEF b
  <2>6. c \in H!Call /\ c.batch = b
    <3>1. H_rq[e] \in H!Call /\ b \in Seq(H_Entry)
      BY <1>0, <2>3
    <3> QED BY <1>00, <3>1 DEF H!Call
  <2> HIDE DEF c
  <2> QED BY <1>0, <1>7, <2>3, <2>4, <2>5, <2>6, CallsTyped DEF H!TypeOK, H!Lead
<1>8. ASSUME NEW e \in H_Entry, H!ReadTip(e)
      PROVE  H!TypeOK'
  <2> DEFINE t == H!TipOf(H_disk \o H_open[H_rq[e].ledger])
             c == [H_rq[e] EXCEPT !.pc = "insert", !.tip = t]
  <2>1. H_rq[e].ledger \in H!Ledger
    BY <1>0, <1>8, CallIs DEF H!ReadTip, HasLedger
  <2>2. t \in H!Hash
    BY <1>0, <2>1, H_disk \o H_open[H_rq[e].ledger] \in Seq(H!Row), TipIs
  <2>3. c \in H!Call /\ c.batch = H_rq[e].batch
    BY <1>0, <2>2, TipKept DEF ChainPc
  <2>4. H_rq' = [H_rq EXCEPT ![e] = c]
    BY <1>8 DEF H!ReadTip
  <2> HIDE DEF c
  <2> QED BY <1>0, <1>8, <2>3, <2>4, CallsTyped DEF H!TypeOK, H!ReadTip
<1>9. ASSUME NEW e \in H_Entry, H!Insert(e)
      PROVE  H!TypeOK'
  <2> DEFINE d == H_rq[e].ledger
             event == H_rq[e].batch[Len(H_rq[e].blocks) + 1]
             hash == H!ComputeHash(event, H_rq[e].tip)
             row == [id |-> H!NextId(H_disk \o H_open[d]), event |-> event,
                     prev |-> H_rq[e].tip, hash |-> hash]
             c == [H_rq[e] EXCEPT !.tip = hash,
                                  !.blocks = Append(H_rq[e].blocks, row)]
  <2>1. d \in H!Ledger
    BY <1>0, <1>9, CallIs DEF H!Insert, HasLedger
  <2>2. event \in H!Event /\ hash \in H!Hash
    <3>1. /\ H_rq[e].batch \in Seq(H_Entry) /\ H_rq[e].blocks \in Seq(H!Row)
          /\ Len(H_rq[e].blocks) < Len(H_rq[e].batch) /\ H_rq[e].tip \in H!Hash
      BY <1>0, <1>9, CallIs DEF H!Insert
    <3>2. event \in H!Event
      BY <3>1 DEF H!Event
    <3> QED BY <3>1, <3>2, HashIsHash
  <2>3. row \in H!Row
    <3>1. H_disk \o H_open[d] \in Seq(H!Row)
      BY <1>0, <2>1
    <3>2. H!NextId(H_disk \o H_open[d]) \in Nat
      BY <3>1, TipIs
    <3> QED BY <1>0, <2>2, <3>2, CallIs, RowIs
  <2>4. /\ c \in H!Call /\ c.batch = H_rq[e].batch
        /\ H_open' = [H_open EXCEPT ![d] = Append(H_open[d], row)]
        /\ H_rq' = [H_rq EXCEPT ![e] = c]
    <3>1. Append(H_rq[e].blocks, row) \in Seq(H!Row)
      BY <1>0, <2>3, CallIs
    <3>2. c \in H!Call /\ c.batch = H_rq[e].batch
      BY ZenonT(60), <1>0, <2>2, <3>1, BlocksKept
    <3> QED BY <1>0, <1>9, <2>1, <3>2 DEF H!Insert
  <2> HIDE DEF c, row
  <2>5. H_open' \in [H!Ledger -> Seq(H!Row)]
    BY <1>0, <2>1, <2>3, <2>4
  <2> QED BY <1>0, <1>9, <2>4, <2>5, CallsTyped DEF H!TypeOK, H!Insert
<1>10. ASSUME NEW e \in H_Entry, H!Commit(e)
      PROVE  H!TypeOK'
  <2> DEFINE c == [H_rq[e] EXCEPT !.pc = "settle"]
  <2>1. H_rq[e].ledger \in H!Ledger
    BY <1>0, <1>10, CallIs DEF H!Commit, HasLedger
  <2>2. c \in H!Call /\ c.batch = H_rq[e].batch
    BY <1>0, PcKept DEF ChainPc
  <2>3. H_rq' = [H_rq EXCEPT ![e] = c]
    BY <1>10 DEF H!Commit
  <2>4. H_disk' \in Seq(H!Row) /\ H_open' \in [H!Ledger -> Seq(H!Row)]
    BY <1>0, <1>10, <2>1 DEF H!Commit
  <2> HIDE DEF c
  <2> QED BY <1>0, <1>10, <2>2, <2>3, <2>4, CallsTyped DEF H!TypeOK, H!Commit
<1>11. ASSUME NEW e \in H_Entry, H!CommitFails(e)
      PROVE  H!TypeOK'
  <2> DEFINE c == [H_rq[e] EXCEPT !.pc = "settle", !.blocks = <<>>]
  <2>1. c \in H!Call /\ c.batch = H_rq[e].batch
    BY <1>0, <1>00, FailedKept DEF ChainPc
  <2>2. H_rq' = [H_rq EXCEPT ![e] = c]
    BY <1>11 DEF H!CommitFails
  <2>3. H_open' \in [H!Ledger -> Seq(H!Row)]
    BY <1>0, <1>00, <1>11 DEF H!CommitFails
  <2> HIDE DEF c
  <2> QED BY <1>0, <1>11, <2>1, <2>2, <2>3, CallsTyped DEF H!TypeOK, H!CommitFails
<1>12. ASSUME NEW e \in H_Entry, H!Settle(e)
      PROVE  H!TypeOK'
  <2> DEFINE calls == H!Woken(H!Settled(e), H_rq[e].ledger)
             c == [calls[e] EXCEPT !.pc = "settled"]
  <2>1. H_rq[e].blocks = <<>> \/ Len(H_rq[e].blocks) = Len(H_rq[e].batch)
    BY <1>12 DEF H!Settle, Paired
  <2>2. /\ H!Settled(e) \in [H_Entry -> H!Call]
        /\ \A f \in H_Entry : H!Settled(e)[f].batch = H_rq[f].batch
    BY <2>1, SettledIs
  <2>3. /\ calls \in [H_Entry -> H!Call]
        /\ \A f \in H_Entry : calls[f].batch = H_rq[f].batch
    BY <2>2, WokenIs
  <2>4. H_rq' = [calls EXCEPT ![e] = c]
    BY <1>12 DEF H!Settle
  <2> HIDE DEF calls
  <2>5. c \in H!Call /\ c.batch = H_rq[e].batch
    BY ZenonT(60), <2>3, PcKept DEF ChainPc
  <2> HIDE DEF c
  <2>6. /\ H_rq' \in [H_Entry -> H!Call]
        /\ \A f \in H_Entry : Len(H_rq'[f].batch) <= H_MaxBatch
    BY <1>0, <2>3, <2>4, <2>5
  <2> QED BY <1>0, <1>12, <2>6 DEF H!TypeOK, H!Settle
<1>13. ASSUME NEW e \in H_Entry, H!StepDown(e)
      PROVE  H!TypeOK'
  <2> DEFINE calls == H!Woken(H_rq, H_rq[e].ledger)
             c == [calls[e] EXCEPT !.pc = "loop", !.batch = <<>>, !.blocks = <<>>]
  <2>1. /\ calls \in [H_Entry -> H!Call]
        /\ \A f \in H_Entry : calls[f].batch = H_rq[f].batch
    BY <1>0, WokenIs
  <2>2. H_rq' = [calls EXCEPT ![e] = c]
    BY <1>13 DEF H!StepDown
  <2>3. H_leading' \in [H!Ledger -> BOOLEAN]
    BY <1>0, <1>13 DEF H!StepDown
  <2> HIDE DEF calls
  <2>4. c \in H!Call /\ c.batch = <<>>
    BY <2>1, BatchDropped DEF ChainPc
  <2> HIDE DEF c
  <2>5. /\ H_rq' \in [H_Entry -> H!Call]
        /\ \A f \in H_Entry : Len(H_rq'[f].batch) <= H_MaxBatch
    BY <1>0, <2>1, <2>2, <2>4
  <2> QED BY <1>0, <1>13, <2>3, <2>5 DEF H!TypeOK, H!StepDown
<1>14. CASE H!Crash
  <2>1. ASSUME NEW e \in H_Entry
        PROVE  H_rq'[e] \in H!Call /\ Len(H_rq'[e].batch) <= H_MaxBatch
    <3>1. \/ H_rq'[e] = H_rq[e]
          \/ H_rq'[e] = [H!Fresh EXCEPT !.pc = "lost"]
      BY <1>14 DEF H!Crash
    <3>2. [H!Fresh EXCEPT !.pc = "lost"].batch = <<>>
      BY DEF H!Fresh
    <3>3. Len(<<>>) <= H_MaxBatch
      OBVIOUS
    <3>4. H_rq[e] \in H!Call /\ Len(H_rq[e].batch) <= H_MaxBatch
      BY <1>0
    <3> QED BY <3>1, <3>2, <3>3, <3>4, FreshIsCall
  <2>2. H_rq' \in [H_Entry -> H!Call]
    BY <1>14, <2>1 DEF H!Crash
  <2>3. H_made' \in 0 .. H_MaxLedger /\ H_shared' \in 0 .. H_made'
    BY <1>14 DEF H!Crash, H!Start
  <2>4. /\ H_open' \in [H!Ledger -> Seq(H!Row)]
        /\ H_waiting' \in [H!Ledger -> Seq(H_Entry)]
        /\ H_leading' \in [H!Ledger -> BOOLEAN]
        /\ H_crashes' \in 0 .. H_MaxCrash
    BY <1>0, <1>14, <1>00 DEF H!Crash
  <2> QED BY <1>0, <1>14, <2>1, <2>2, <2>3, <2>4 DEF H!TypeOK, H!Crash
<1>15. ASSUME NEW i \in DOMAIN H_disk, H!EditRow(i)
       PROVE  H!TypeOK'
  <2>1. H_disk[i] \in H!Row /\ <<H_Forged>> \in H!Hash /\ H_Forged \in H!Event
    BY <1>0 DEF H!Hash, H!Event
  <2>2. PICK row \in {[H_disk[i] EXCEPT !.event = H_Forged],
                      [H_disk[i] EXCEPT !.prev = <<H_Forged>>],
                      [H_disk[i] EXCEPT !.hash = <<H_Forged>>]} :
          H_disk' = [H_disk EXCEPT ![i] = row]
    BY <1>15 DEF H!EditRow
  <2>3. row \in H!Row
    BY <2>1 DEF H!Row
  <2>4. H_disk' \in Seq(H!Row)
    BY <1>0, <2>2, <2>3
  <2>5. H_edited' \in H!Edit
    BY <1>15, <2>1 DEF H!EditRow, H!Edit, H!Row
  <2> QED BY <1>0, <1>15, <2>4, <2>5 DEF H!TypeOK, H!EditRow
<1>16. ASSUME NEW i \in DOMAIN H_disk, H!RemoveRow(i)
       PROVE  H!TypeOK'
  <2>1. H_disk' \in Seq(H!Row)
    BY SMTT(30), <1>0, <1>16 DEF H!RemoveRow, H!RemoveAt
  <2>2. i # Len(H_disk) => H_disk[i + 1].id \in Nat
    <3>1. i # Len(H_disk) => H_disk[i + 1] \in H!Row
      BY <1>0
    <3> QED BY <3>1 DEF H!Row
  <2>3. H_edited' \in H!Edit
    BY <1>16, <2>2 DEF H!RemoveRow, H!Edit
  <2> QED BY <1>0, <1>16, <2>1, <2>3 DEF H!TypeOK, H!RemoveRow
<1> QED
  BY <1>1, <1>2, <1>3, <1>4, <1>5, <1>6, <1>7, <1>8, <1>9, <1>10, <1>11, <1>12,
     <1>13, <1>14, <1>15, <1>16
  DEF H!Next, H!GetLedger, H!AddBlock, H!CommitBatch

\* What each step of a call does to the fields of that call and of the others.
OthersAsWere(e) == \A f \in H_Entry : f # e => H_rq'[f] = H_rq[f]

LEMMA ArriveIs ==
  ASSUME H!TypeOK, NEW e \in H_Entry, H!Arrive(e)
  PROVE  /\ OthersAsWere(e)
         /\ H_rq'[e].pc = (IF H_shared = 0 THEN "making" ELSE "ready")
         /\ H_rq'[e].ledger = H_shared
         /\ H_rq'[e].batch = H_rq[e].batch
         /\ H_rq'[e].tip = H_rq[e].tip
         /\ H_rq'[e].blocks = H_rq[e].blocks
         /\ H_rq'[e].done = H_rq[e].done
         /\ H_rq'[e].row = H_rq[e].row
<1>1. H_rq \in [H_Entry -> H!Call] /\ H_rq[e] \in H!Call
  BY DEF H!TypeOK
<1> QED BY <1>1 DEF H!Arrive, H!Call, OthersAsWere

LEMMA MakeIs ==
  ASSUME H!TypeOK, NEW e \in H_Entry, H!Make(e)
  PROVE  /\ OthersAsWere(e)
         /\ H_rq'[e].pc = "made"
         /\ H_rq'[e].ledger = H_rq[e].ledger
         /\ H_rq'[e].batch = H_rq[e].batch
         /\ H_rq'[e].tip = H_rq[e].tip
         /\ H_rq'[e].blocks = H_rq[e].blocks
         /\ H_rq'[e].done = H_rq[e].done
         /\ H_rq'[e].row = H_rq[e].row
<1>1. H_rq \in [H_Entry -> H!Call] /\ H_rq[e] \in H!Call
  BY DEF H!TypeOK
<1> QED BY <1>1 DEF H!Make, H!Call, OthersAsWere

LEMMA TakeSharedIs ==
  ASSUME H!TypeOK, NEW e \in H_Entry, H!TakeShared(e)
  PROVE  /\ OthersAsWere(e)
         /\ H_rq'[e].pc = "ready"
         /\ H_rq'[e].ledger = H_shared
         /\ H_rq'[e].batch = H_rq[e].batch
         /\ H_rq'[e].tip = H_rq[e].tip
         /\ H_rq'[e].blocks = H_rq[e].blocks
         /\ H_rq'[e].done = H_rq[e].done
         /\ H_rq'[e].row = H_rq[e].row
<1>1. H_rq \in [H_Entry -> H!Call] /\ H_rq[e] \in H!Call
  BY DEF H!TypeOK
<1> QED BY <1>1 DEF H!TakeShared, H!Call, OthersAsWere

LEMMA JoinIs ==
  ASSUME H!TypeOK, NEW e \in H_Entry, H!Join(e)
  PROVE  /\ OthersAsWere(e)
         /\ H_rq'[e].pc = "loop"
         /\ H_rq'[e].ledger = H_rq[e].ledger
         /\ H_rq'[e].batch = H_rq[e].batch
         /\ H_rq'[e].tip = H_rq[e].tip
         /\ H_rq'[e].blocks = H_rq[e].blocks
         /\ H_rq'[e].done = H_rq[e].done
         /\ H_rq'[e].row = H_rq[e].row
<1>1. H_rq \in [H_Entry -> H!Call] /\ H_rq[e] \in H!Call
  BY DEF H!TypeOK
<1> QED BY <1>1 DEF H!Join, H!Call, OthersAsWere

LEMMA SleepIs ==
  ASSUME H!TypeOK, NEW e \in H_Entry, H!Sleep(e)
  PROVE  /\ OthersAsWere(e)
         /\ H_rq'[e].pc = "asleep"
         /\ H_rq'[e].ledger = H_rq[e].ledger
         /\ H_rq'[e].batch = H_rq[e].batch
         /\ H_rq'[e].tip = H_rq[e].tip
         /\ H_rq'[e].blocks = H_rq[e].blocks
         /\ H_rq'[e].done = H_rq[e].done
         /\ H_rq'[e].row = H_rq[e].row
<1>1. H_rq \in [H_Entry -> H!Call] /\ H_rq[e] \in H!Call
  BY DEF H!TypeOK
<1> QED BY <1>1 DEF H!Sleep, H!Call, OthersAsWere

LEMMA ReturnIs ==
  ASSUME H!TypeOK, NEW e \in H_Entry, H!Return(e)
  PROVE  /\ OthersAsWere(e)
         /\ H_rq'[e].pc = (IF H_rq[e].row = <<>> THEN "failed" ELSE "returned")
         /\ H_rq'[e].ledger = H_rq[e].ledger
         /\ H_rq'[e].batch = H_rq[e].batch
         /\ H_rq'[e].tip = H_rq[e].tip
         /\ H_rq'[e].blocks = H_rq[e].blocks
         /\ H_rq'[e].done = H_rq[e].done
         /\ H_rq'[e].row = H_rq[e].row
<1>1. H_rq \in [H_Entry -> H!Call] /\ H_rq[e] \in H!Call
  BY DEF H!TypeOK
<1> QED BY <1>1 DEF H!Return, H!Call, OthersAsWere

LEMMA LeadIs ==
  ASSUME H!TypeOK, NEW e \in H_Entry, H!Lead(e)
  PROVE  /\ OthersAsWere(e)
         /\ H_rq'[e].pc = "tip"
         /\ H_rq'[e].ledger = H_rq[e].ledger
         /\ H_rq'[e].batch = SubSeq(H_waiting[H_rq[e].ledger], 1,
                        H!Taken(H_rq[e].ledger))
         /\ H_rq'[e].tip = H_rq[e].tip
         /\ H_rq'[e].blocks = <<>>
         /\ H_rq'[e].done = H_rq[e].done
         /\ H_rq'[e].row = H_rq[e].row
<1>1. H_rq \in [H_Entry -> H!Call] /\ H_rq[e] \in H!Call
  BY DEF H!TypeOK
<1> QED BY <1>1 DEF H!Lead, H!Call, OthersAsWere

LEMMA ReadTipIs ==
  ASSUME H!TypeOK, NEW e \in H_Entry, H!ReadTip(e)
  PROVE  /\ OthersAsWere(e)
         /\ H_rq'[e].pc = "insert"
         /\ H_rq'[e].ledger = H_rq[e].ledger
         /\ H_rq'[e].batch = H_rq[e].batch
         /\ H_rq'[e].tip = H!TipOf(H_disk \o H_open[H_rq[e].ledger])
         /\ H_rq'[e].blocks = H_rq[e].blocks
         /\ H_rq'[e].done = H_rq[e].done
         /\ H_rq'[e].row = H_rq[e].row
<1>1. H_rq \in [H_Entry -> H!Call] /\ H_rq[e] \in H!Call
  BY DEF H!TypeOK
<1> QED BY <1>1 DEF H!ReadTip, H!Call, OthersAsWere

LEMMA CommitIs ==
  ASSUME H!TypeOK, NEW e \in H_Entry, H!Commit(e)
  PROVE  /\ OthersAsWere(e)
         /\ H_rq'[e].pc = "settle"
         /\ H_rq'[e].ledger = H_rq[e].ledger
         /\ H_rq'[e].batch = H_rq[e].batch
         /\ H_rq'[e].tip = H_rq[e].tip
         /\ H_rq'[e].blocks = H_rq[e].blocks
         /\ H_rq'[e].done = H_rq[e].done
         /\ H_rq'[e].row = H_rq[e].row
<1>1. H_rq \in [H_Entry -> H!Call] /\ H_rq[e] \in H!Call
  BY DEF H!TypeOK
<1> QED BY <1>1 DEF H!Commit, H!Call, OthersAsWere

LEMMA CommitFailsIs ==
  ASSUME H!TypeOK, NEW e \in H_Entry, H!CommitFails(e)
  PROVE  /\ OthersAsWere(e)
         /\ H_rq'[e].pc = "settle"
         /\ H_rq'[e].ledger = H_rq[e].ledger
         /\ H_rq'[e].batch = H_rq[e].batch
         /\ H_rq'[e].tip = H_rq[e].tip
         /\ H_rq'[e].blocks = <<>>
         /\ H_rq'[e].done = H_rq[e].done
         /\ H_rq'[e].row = H_rq[e].row
<1>1. H_rq \in [H_Entry -> H!Call] /\ H_rq[e] \in H!Call
  BY DEF H!TypeOK
<1> QED BY <1>1 DEF H!CommitFails, H!Call, OthersAsWere

\* The row an INSERT writes.
NewRow(e) ==
  [id |-> H!NextId(H_disk \o H_open[H_rq[e].ledger]),
   event |-> H_rq[e].batch[Len(H_rq[e].blocks) + 1],
   prev |-> H_rq[e].tip,
   hash |-> H!ComputeHash(H_rq[e].batch[Len(H_rq[e].blocks) + 1], H_rq[e].tip)]

LEMMA InsertIs ==
  ASSUME H!TypeOK, NEW e \in H_Entry, H!Insert(e)
  PROVE  /\ OthersAsWere(e)
         /\ H_rq'[e].pc = H_rq[e].pc /\ H_rq'[e].ledger = H_rq[e].ledger
         /\ H_rq'[e].batch = H_rq[e].batch /\ H_rq'[e].tip = NewRow(e).hash
         /\ H_rq'[e].blocks = Append(H_rq[e].blocks, NewRow(e))
         /\ H_rq'[e].done = H_rq[e].done /\ H_rq'[e].row = H_rq[e].row
<1>1. H_rq \in [H_Entry -> H!Call] /\ H_rq[e] \in H!Call
  BY DEF H!TypeOK
<1>2. H_rq' = [H_rq EXCEPT ![e].tip = NewRow(e).hash,
                           ![e].blocks = Append(@, NewRow(e))]
  BY DEF H!Insert, NewRow
<1> HIDE DEF NewRow
<1> QED BY <1>1, <1>2 DEF H!Call, OthersAsWere

\* Who sleeps may be woken; nothing else of a call changes.
WokenFrom(c, d) ==
  /\ d.pc = c.pc \/ (c.pc = "asleep" /\ d.pc = "loop")
  /\ d.ledger = c.ledger /\ d.batch = c.batch /\ d.tip = c.tip
  /\ d.blocks = c.blocks /\ d.done = c.done /\ d.row = c.row

LEMMA WokenFields ==
  ASSUME NEW calls \in [H_Entry -> H!Call], NEW d, NEW e \in H_Entry
  PROVE  WokenFrom(calls[e], H!Woken(calls, d)[e])
<1>1. calls[e] \in H!Call
  OBVIOUS
<1>2. CASE H!Woken(calls, d)[e] = calls[e]
  BY <1>2 DEF WokenFrom
<1>3. CASE /\ calls[e].pc = "asleep"
           /\ H!Woken(calls, d)[e] = [calls[e] EXCEPT !.pc = "loop"]
  BY <1>1, <1>3 DEF WokenFrom, H!Call
<1> QED BY <1>2, <1>3, WokenIs

LEMMA StepDownIs ==
  ASSUME H!TypeOK, NEW e \in H_Entry, H!StepDown(e)
  PROVE  /\ \A f \in H_Entry : f # e => WokenFrom(H_rq[f], H_rq'[f])
         /\ H_rq'[e].pc = "loop" /\ H_rq'[e].ledger = H_rq[e].ledger
         /\ H_rq'[e].batch = <<>> /\ H_rq'[e].blocks = <<>>
         /\ H_rq'[e].done = H_rq[e].done /\ H_rq'[e].row = H_rq[e].row
<1> DEFINE calls == H!Woken(H_rq, H_rq[e].ledger)
<1>1. H_rq \in [H_Entry -> H!Call] /\ calls \in [H_Entry -> H!Call]
  BY WokenIs DEF H!TypeOK
<1>2. \A f \in H_Entry : WokenFrom(H_rq[f], calls[f])
  BY <1>1, WokenFields
<1>3. H_rq' = [calls EXCEPT ![e] = [calls[e] EXCEPT !.pc = "loop",
                                       !.batch = <<>>, !.blocks = <<>>]]
  BY DEF H!StepDown
<1> HIDE DEF calls
<1>4. calls[e] \in H!Call
  BY <1>1
<1>5. \A f \in H_Entry : f # e => H_rq'[f] = calls[f]
  BY <1>1, <1>3
<1>6. H_rq'[e] = [calls[e] EXCEPT !.pc = "loop", !.batch = <<>>, !.blocks = <<>>]
  BY <1>1, <1>3
<1>7. /\ H_rq'[e].pc = "loop" /\ H_rq'[e].ledger = calls[e].ledger
      /\ H_rq'[e].batch = <<>> /\ H_rq'[e].blocks = <<>>
      /\ H_rq'[e].done = calls[e].done /\ H_rq'[e].row = calls[e].row
  BY <1>4, <1>6 DEF H!Call
<1> QED BY <1>2, <1>5, <1>7 DEF WokenFrom

LEMMA SettleIs ==
  ASSUME H!TypeOK, Paired, NEW e \in H_Entry, H!Settle(e)
  PROVE  /\ H_rq'[e].pc = "settled"
         /\ \A f \in H_Entry :
              /\ \/ f = e \/ H_rq'[f].pc = H_rq[f].pc
                 \/ H_rq[f].pc = "asleep" /\ H_rq'[f].pc = "loop"
              /\ H_rq'[f].ledger = H_rq[f].ledger
              /\ H_rq'[f].batch = H_rq[f].batch /\ H_rq'[f].tip = H_rq[f].tip
              /\ H_rq'[f].blocks = H_rq[f].blocks
              /\ \/ /\ \A k \in DOMAIN H_rq[e].batch : H_rq[e].batch[k] # f
                    /\ H_rq'[f].done = H_rq[f].done /\ H_rq'[f].row = H_rq[f].row
                 \/ \E k \in DOMAIN H_rq[e].batch :
                      /\ H_rq[e].batch[k] = f /\ H_rq'[f].done
                      /\ H_rq'[f].row = IF H_rq[e].blocks = <<>> THEN <<>>
                                        ELSE <<H_rq[e].blocks[k]>>
<1> DEFINE calls == H!Woken(H!Settled(e), H_rq[e].ledger)
<1>1. H_rq[e].blocks = <<>> \/ Len(H_rq[e].blocks) = Len(H_rq[e].batch)
  BY DEF H!Settle, Paired
<1>2. /\ H_rq \in [H_Entry -> H!Call] /\ H!Settled(e) \in [H_Entry -> H!Call]
      /\ calls \in [H_Entry -> H!Call]
  BY <1>1, SettledIs, WokenIs DEF H!TypeOK
<1>3. \A f \in H_Entry : WokenFrom(H!Settled(e)[f], calls[f])
  BY <1>2, WokenFields
<1>4. H_rq' = [calls EXCEPT ![e].pc = "settled"]
  BY DEF H!Settle
<1> HIDE DEF calls
<1>5. ASSUME NEW f \in H_Entry
      PROVE  /\ H_rq'[f].pc = IF f = e THEN "settled" ELSE calls[f].pc
             /\ H_rq'[f].ledger = calls[f].ledger
             /\ H_rq'[f].batch = calls[f].batch /\ H_rq'[f].tip = calls[f].tip
             /\ H_rq'[f].blocks = calls[f].blocks
             /\ H_rq'[f].done = calls[f].done /\ H_rq'[f].row = calls[f].row
  <2>1. calls[f] \in H!Call
    BY <1>2
  <2> QED BY <1>2, <1>4, <2>1 DEF H!Call
<1>6. ASSUME NEW f \in H_Entry
      PROVE  LET s == H!Settled(e)[f] IN
             /\ s.pc = H_rq[f].pc /\ s.ledger = H_rq[f].ledger
             /\ s.batch = H_rq[f].batch /\ s.tip = H_rq[f].tip
             /\ s.blocks = H_rq[f].blocks
             /\ \/ /\ \A k \in DOMAIN H_rq[e].batch : H_rq[e].batch[k] # f
                   /\ s.done = H_rq[f].done /\ s.row = H_rq[f].row
                \/ \E k \in DOMAIN H_rq[e].batch :
                     /\ H_rq[e].batch[k] = f /\ s.done
                     /\ s.row = IF H_rq[e].blocks = <<>> THEN <<>>
                                ELSE <<H_rq[e].blocks[k]>>
  <2>1. H_rq[f] \in H!Call
    BY <1>2
  <2>2. CASE H!Settled(e)[f] = H_rq[f]
             /\ \A k \in DOMAIN H_rq[e].batch : H_rq[e].batch[k] # f
    BY <2>2
  <2>3. ASSUME NEW k \in DOMAIN H_rq[e].batch, H_rq[e].batch[k] = f,
               NEW r, r = IF H_rq[e].blocks = <<>> THEN <<>>
                          ELSE <<H_rq[e].blocks[k]>>,
               H!Settled(e)[f] = [H_rq[f] EXCEPT !.done = TRUE, !.row = r]
        PROVE  LET s == H!Settled(e)[f] IN
               /\ s.pc = H_rq[f].pc /\ s.ledger = H_rq[f].ledger
               /\ s.batch = H_rq[f].batch /\ s.tip = H_rq[f].tip
               /\ s.blocks = H_rq[f].blocks /\ s.done /\ s.row = r
    BY <2>1, <2>3 DEF H!Call
  <2>4. CASE \E k \in DOMAIN H_rq[e].batch :
               /\ H_rq[e].batch[k] = f
               /\ H!Settled(e)[f] =
                    Answered(H_rq[f], H_rq[e].blocks, k)
    BY <2>3, <2>4 DEF Answered
  <2>5. \/ /\ \A k \in DOMAIN H_rq[e].batch : H_rq[e].batch[k] # f
           /\ H!Settled(e)[f] = H_rq[f]
        \/ \E k \in DOMAIN H_rq[e].batch :
             /\ H_rq[e].batch[k] = f
             /\ H!Settled(e)[f] =
                  Answered(H_rq[f], H_rq[e].blocks, k)
    BY <1>1, SettledIs
  <2> QED BY <2>2, <2>4, <2>5
<1>7. H_rq'[e].pc = "settled"
  BY <1>5
<1> QED BY <1>3, <1>5, <1>6, <1>7 DEF WokenFrom

LEMMA LedgerStep == ChainTypes /\ H!Next => HasLedger' /\ Paired'
<1> SUFFICES ASSUME H!TypeOK, HasLedger, Paired, H!Next
             PROVE  HasLedger' /\ Paired'
  BY DEF ChainTypes
<1>0. /\ H_rq \in [H_Entry -> H!Call] /\ \A e \in H_Entry : H_rq[e] \in H!Call
      /\ H_made \in Nat
  BY DEF H!TypeOK
<1> USE DEF HasLedger, Paired, OthersAsWere
<1>1. ASSUME NEW e \in H_Entry, H!Arrive(e)
      PROVE  HasLedger' /\ Paired'
  <2>1. ASSUME NEW f \in H_Entry
        PROVE  /\ H_rq'[f].pc = "made" => H_shared' # 0
               /\ H_rq'[f].pc \notin {"new", "making", "made", "lost"} =>
                    H_rq'[f].ledger # 0
               /\ H_rq'[f].pc = "settle" =>
                    \/ H_rq'[f].blocks = <<>>
                    \/ Len(H_rq'[f].blocks) = Len(H_rq'[f].batch)
    <3>1. CASE f = e
      <4>1. /\ H_rq'[e].pc = IF H_shared = 0 THEN "making" ELSE "ready"
            /\ H_rq'[e].ledger = H_shared
        BY <1>1, ArriveIs
      <4>2. CASE H_shared = 0
        BY <3>1, <4>1, <4>2
      <4>3. CASE H_shared # 0
        BY <3>1, <4>1, <4>3
      <4> QED BY <4>2, <4>3
    <3>2. CASE f # e
      BY <1>0, <1>1, <3>2, ArriveIs DEF H!Arrive
    <3> QED BY <3>1, <3>2
  <2> QED BY <2>1
<1>2. ASSUME NEW e \in H_Entry, H!Make(e)
      PROVE  HasLedger' /\ Paired'
  BY <1>0, <1>2, MakeIs DEF H!Make
<1>3. ASSUME NEW e \in H_Entry, H!TakeShared(e)
      PROVE  HasLedger' /\ Paired'
  BY <1>0, <1>3, TakeSharedIs DEF H!TakeShared
<1>4. ASSUME NEW e \in H_Entry, H!Join(e)
      PROVE  HasLedger' /\ Paired'
  BY <1>0, <1>4, JoinIs DEF H!Join
<1>5. ASSUME NEW e \in H_Entry, H!Sleep(e)
      PROVE  HasLedger' /\ Paired'
  BY <1>0, <1>5, SleepIs DEF H!Sleep
<1>6. ASSUME NEW e \in H_Entry, H!Return(e)
      PROVE  HasLedger' /\ Paired'
  BY <1>0, <1>6, ReturnIs DEF H!Return
<1>7. ASSUME NEW e \in H_Entry, H!Lead(e)
      PROVE  HasLedger' /\ Paired'
  BY ZenonT(60), <1>0, <1>7, LeadIs DEF H!Lead
<1>8. ASSUME NEW e \in H_Entry, H!ReadTip(e)
      PROVE  HasLedger' /\ Paired'
  BY ZenonT(60), <1>0, <1>8, ReadTipIs DEF H!ReadTip
<1>9. ASSUME NEW e \in H_Entry, H!Insert(e)
      PROVE  HasLedger' /\ Paired'
  <2>1. ASSUME NEW f \in H_Entry
        PROVE  /\ H_rq'[f].pc = "made" => H_shared' # 0
               /\ H_rq'[f].pc \notin {"new", "making", "made", "lost"} =>
                    H_rq'[f].ledger # 0
               /\ H_rq'[f].pc = "settle" =>
                    \/ H_rq'[f].blocks = <<>>
                    \/ Len(H_rq'[f].blocks) = Len(H_rq'[f].batch)
    <3>1. CASE f = e
      BY <1>0, <1>9, <3>1, InsertIs DEF H!Insert
    <3>2. CASE f # e
      BY <1>0, <1>9, <3>2, InsertIs DEF H!Insert
    <3> QED BY <3>1, <3>2
  <2> QED BY <2>1
<1>10. ASSUME NEW e \in H_Entry, H!Commit(e)
      PROVE  HasLedger' /\ Paired'
  BY <1>0, <1>10, CommitIs DEF H!Commit
<1>11. ASSUME NEW e \in H_Entry, H!CommitFails(e)
      PROVE  HasLedger' /\ Paired'
  BY ZenonT(60), <1>0, <1>11, CommitFailsIs DEF H!CommitFails
<1>12. ASSUME NEW e \in H_Entry, H!Settle(e)
      PROVE  HasLedger' /\ Paired'
  <2>1. /\ H_shared' = H_shared /\ H_rq[e].pc = "settle"
        /\ H_rq'[e].pc = "settled"
        /\ \A f \in H_Entry :
             /\ \/ f = e \/ H_rq'[f].pc = H_rq[f].pc
                \/ H_rq[f].pc = "asleep" /\ H_rq'[f].pc = "loop"
             /\ H_rq'[f].ledger = H_rq[f].ledger
             /\ H_rq'[f].batch = H_rq[f].batch
             /\ H_rq'[f].blocks = H_rq[f].blocks
    <3>1. H_shared' = H_shared /\ H_rq[e].pc = "settle"
      BY <1>12 DEF H!Settle
    <3>2. /\ H_rq'[e].pc = "settled"
          /\ \A f \in H_Entry :
               /\ \/ f = e \/ H_rq'[f].pc = H_rq[f].pc
                  \/ H_rq[f].pc = "asleep" /\ H_rq'[f].pc = "loop"
               /\ H_rq'[f].ledger = H_rq[f].ledger
               /\ H_rq'[f].batch = H_rq[f].batch
               /\ H_rq'[f].blocks = H_rq[f].blocks
      <4> HIDE DEF HasLedger, Paired
      <4> QED BY SMTT(30), <1>12, SettleIs
    <3> QED BY <3>1, <3>2
  <2>2. HasLedger'
    BY SMTT(30), <1>0, <2>1 DEF HasLedger
  <2>3. Paired'
    BY SMTT(30), <1>0, <2>1 DEF Paired
  <2> QED BY <2>2, <2>3
<1>13. ASSUME NEW e \in H_Entry, H!StepDown(e)
      PROVE  HasLedger' /\ Paired'
  <2>1. ASSUME NEW f \in H_Entry
        PROVE  /\ H_rq'[f].pc = "made" => H_shared' # 0
               /\ H_rq'[f].pc \notin {"new", "making", "made", "lost"} =>
                    H_rq'[f].ledger # 0
               /\ H_rq'[f].pc = "settle" =>
                    \/ H_rq'[f].blocks = <<>>
                    \/ Len(H_rq'[f].blocks) = Len(H_rq'[f].batch)
    <3>1. CASE f = e
      BY <1>0, <1>13, <3>1, StepDownIs DEF H!StepDown
    <3>2. CASE f # e
      <4>1. WokenFrom(H_rq[f], H_rq'[f]) /\ H_shared' = H_shared
        BY <1>13, <3>2, StepDownIs DEF H!StepDown
      <4> QED BY <4>1 DEF WokenFrom
    <3> QED BY <3>1, <3>2
  <2> QED BY <2>1
<1>14. CASE H!Crash
  BY <1>0, <1>14 DEF H!Crash, H!Fresh
<1>15. ASSUME NEW i \in DOMAIN H_disk, H!EditRow(i) \/ H!RemoveRow(i)
      PROVE  HasLedger' /\ Paired'
  BY <1>15 DEF H!EditRow, H!RemoveRow
<1> QED
  BY <1>1, <1>2, <1>3, <1>4, <1>5, <1>6, <1>7, <1>8, <1>9, <1>10, <1>11, <1>12,
     <1>13, <1>14, <1>15
  DEF H!Next, H!GetLedger, H!AddBlock, H!CommitBatch

-------------------------------------------------------------------------------
(* The order of arrival, and the chain.                                    *)

\* From one state of a call to another that bears on nothing in flight.
Mild(c, d) ==
  /\ d.row = c.row /\ d.done = c.done
  /\ Carries(d) => /\ d.pc = c.pc /\ d.batch = c.batch
                   /\ d.blocks = c.blocks /\ d.tip = c.tip
  /\ c.pc = "insert" => d.pc = "insert"
  /\ d.pc \in {"new", "ready"} => c.pc \in {"new", "ready"}
  /\ d.pc = "returned" => d.row # <<>>

LEMMA MildKeeps ==
  ASSUME H!TypeOK, ChainOrder, \A e \in H_Entry : Mild(H_rq[e], H_rq'[e]),
         UNCHANGED <<H_disk, H_open, H_waiting, H_arrived, H_edited>>
  PROVE  ChainOrder'
<1> USE DEF Mild
<1>0. \A e \in H_Entry : Writes(H_rq'[e]) => Carries(H_rq'[e])
  BY DEF Writes, Carries
<1>1. JoinedOnce'
  BY DEF ChainOrder, JoinedOnce
<1>2. QueueInTurn'
  BY DEF ChainOrder, QueueInTurn, Waiters, Carries
<1>3. NotYetDone'
  <2>1. H_waiting \in [H!Ledger -> Seq(H_Entry)]
    BY DEF H!TypeOK
  <2>2. ASSUME NEW j \in DOMAIN Waiters' PROVE ~H_rq'[Waiters'[j]].done
    BY <2>1 DEF ChainOrder, NotYetDone, Waiters, H!Ledger
  <2>3. ASSUME NEW e \in H_Entry
        PROVE  /\ Carries(H_rq'[e]) =>
                    \A i \in DOMAIN H_rq'[e].batch : ~H_rq'[H_rq'[e].batch[i]].done
               /\ H_rq'[e].done => InLine(H_arrived', e)
               /\ H_rq'[e].row # <<>> => H_rq'[e].done
               /\ H_rq'[e].pc = "returned" => H_rq'[e].row # <<>>
    <3>1. ASSUME Carries(H_rq'[e]), NEW i \in DOMAIN H_rq'[e].batch
          PROVE  ~H_rq'[H_rq'[e].batch[i]].done
      <4>1. H_rq[e].batch \in Seq(H_Entry) /\ H_rq'[e].batch = H_rq[e].batch
        BY <3>1, CallIs DEF H!TypeOK
      <4>2. H_rq[e].batch[i] \in H_Entry /\ ~H_rq[H_rq[e].batch[i]].done
        BY <3>1, <4>1 DEF ChainOrder, NotYetDone, Carries
      <4> QED BY <4>1, <4>2
    <3> QED BY <3>1 DEF ChainOrder, NotYetDone
  <2> QED BY <2>2, <2>3 DEF NotYetDone
<1>4. Transaction'
  BY DEF ChainOrder, Transaction, Carries
<1>5. Intact => Intact'
  BY DEF Intact, DiskInTurn, Waiters, Rows, Writes, Carries
<1> QED BY <1>1, <1>2, <1>3, <1>4, <1>5 DEF ChainOrder

\* Who joins last is behind all that joined.
LEMMA JoinLine ==
  ASSUME NEW S, NEW line \in Seq(S), NEW x \in S
  PROVE  /\ InLine(Append(line, x), x)
         /\ \A a : InLine(line, a) => /\ InLine(Append(line, x), a)
                                      /\ Ahead(Append(line, x), a, x)
         /\ \A a, b : Ahead(line, a, b) => Ahead(Append(line, x), a, b)
<1> DEFINE longer == Append(line, x)
<1>1. /\ DOMAIN line = 1 .. Len(line) /\ DOMAIN longer = 1 .. Len(line) + 1
      /\ Len(line) \in Nat
      /\ longer[Len(line) + 1] = x /\ \A n \in 1 .. Len(line) : longer[n] = line[n]
  OBVIOUS
<1> HIDE DEF longer
<1>2. InLine(longer, x)
  BY <1>1 DEF InLine
<1>3. ASSUME NEW a, InLine(line, a)
      PROVE  InLine(longer, a) /\ Ahead(longer, a, x)
  <2>1. PICK n \in 1 .. Len(line) : line[n] = a
    BY <1>1, <1>3 DEF InLine
  <2>2. n \in 1 .. Len(line) + 1 /\ n < Len(line) + 1 /\ longer[n] = a
    BY <1>1, <2>1
  <2> QED BY <1>1, <2>2 DEF InLine, Ahead
<1>4. ASSUME NEW a, NEW b, Ahead(line, a, b)
      PROVE  Ahead(longer, a, b)
  <2>1. PICK m \in 1 .. Len(line), n \in 1 .. Len(line) :
          m < n /\ line[m] = a /\ line[n] = b
    BY <1>1, <1>4 DEF Ahead
  <2>2. m \in DOMAIN longer /\ n \in DOMAIN longer /\ longer[m] = a /\ longer[n] = b
    BY <1>1, <2>1
  <2> QED BY <2>1, <2>2 DEF Ahead
<1> QED BY <1>2, <1>3, <1>4 DEF longer

\* Nobody is ahead of himself.
LEMMA NotAheadOfSelf ==
  ASSUME NEW line \in Seq(H_Entry),
         \A m, n \in DOMAIN line : line[m] = line[n] => m = n, NEW a
  PROVE  ~Ahead(line, a, a)
  BY DEF Ahead

\* The leader keeps the lead from one step of its commit to the next.
LEMMA LeaderStays ==
  ASSUME OneLedger, OneLeader, NEW e \in H_Entry, Leads(H_rq[e]), Leads(H_rq'[e]),
         H_rq'[e].ledger = H_rq[e].ledger, OthersAsWere(e),
         UNCHANGED <<H_leading, H_made, H_shared>>
  PROVE  OneLedger' /\ OneLeader'
<1>1. \A f \in H_Entry : Leads(H_rq'[f]) => Leads(H_rq[f])
  BY DEF OthersAsWere
<1>2. OneLeader'
  BY <1>1 DEF OneLeader
<1>3. OneLedger'
  BY DEF OneLedger, OthersAsWere, Leads
<1> QED BY <1>2, <1>3

LEMMA OneStep ==
  ASSUME ~H_ColdStart, ChainTypes, OneLedger, OneLeader, H!Next
  PROVE  OneLedger' /\ OneLeader'
<1>0. /\ H_rq \in [H_Entry -> H!Call] /\ 1 \in H!Ledger
      /\ H_leading \in [H!Ledger -> BOOLEAN]
      /\ H!TypeOK /\ Paired
  BY DEF ChainTypes, H!TypeOK, H!Ledger
<1>1. ASSUME NEW e \in H_Entry, H!Arrive(e)
      PROVE  OneLedger' /\ OneLeader'
  <2>1. H_rq'[e].pc = "ready" /\ H_rq'[e].ledger = 1
    BY <1>0, <1>1, ArriveIs DEF OneLedger
  <2> QED BY ZenonT(60), <1>0, <1>1, <2>1, ArriveIs
          DEF H!Arrive, OneLedger, OneLeader, Leads, OthersAsWere
<1>2. ASSUME NEW e \in H_Entry, H!GetLedger(e)
      PROVE  FALSE
  BY <1>2 DEF H!GetLedger, H!Make, H!TakeShared, OneLedger
<1>3. ASSUME NEW e \in H_Entry, H!Join(e)
      PROVE  OneLedger' /\ OneLeader'
  BY <1>0, <1>3, JoinIs DEF H!Join, OneLedger, OneLeader, Leads, OthersAsWere
<1>4. ASSUME NEW e \in H_Entry, H!Sleep(e)
      PROVE  OneLedger' /\ OneLeader'
  BY <1>0, <1>4, SleepIs DEF H!Sleep, OneLedger, OneLeader, Leads, OthersAsWere
<1>5. ASSUME NEW e \in H_Entry, H!Return(e)
      PROVE  OneLedger' /\ OneLeader'
  BY <1>0, <1>5, ReturnIs DEF H!Return, OneLedger, OneLeader, Leads, OthersAsWere
<1>6. ASSUME NEW e \in H_Entry, H!Lead(e)
      PROVE  OneLedger' /\ OneLeader'
  <2>1. H_rq[e].ledger = 1 /\ ~H_leading[1]
    BY <1>6 DEF H!Lead, OneLedger
  <2>2. \A f \in H_Entry : ~Leads(H_rq[f])
    BY <2>1 DEF OneLeader
  <2>3. H_leading'[1]
    BY <1>0, <1>6, <2>1 DEF H!Lead
  <2>4. \A f \in H_Entry : Leads(H_rq'[f]) => f = e
    BY <1>0, <1>6, <2>2, LeadIs DEF OthersAsWere
  <2>5. OneLedger'
    BY <1>0, <1>6, <2>1, LeadIs DEF H!Lead, OneLedger, OthersAsWere
  <2> QED BY <2>3, <2>4, <2>5 DEF OneLeader
<1>7. ASSUME NEW e \in H_Entry, H!ReadTip(e)
      PROVE  OneLedger' /\ OneLeader'
  <2>1. /\ H_rq[e].pc \in {"tip", "insert"}
        /\ H_rq'[e].pc \in {"insert", "settle"}
        /\ H_rq'[e].ledger = H_rq[e].ledger /\ OthersAsWere(e)
    BY <1>0, <1>7, ReadTipIs DEF H!ReadTip
  <2>2. UNCHANGED <<H_leading, H_made, H_shared>>
    BY <1>7 DEF H!ReadTip
  <2> QED BY <2>1, <2>2, LeaderStays DEF Leads
<1>8. ASSUME NEW e \in H_Entry, H!Insert(e)
      PROVE  OneLedger' /\ OneLeader'
  <2>1. /\ H_rq[e].pc \in {"tip", "insert"}
        /\ H_rq'[e].pc \in {"insert", "settle"}
        /\ H_rq'[e].ledger = H_rq[e].ledger /\ OthersAsWere(e)
    BY <1>0, <1>8, InsertIs DEF H!Insert
  <2>2. UNCHANGED <<H_leading, H_made, H_shared>>
    BY <1>8 DEF H!Insert
  <2> QED BY <2>1, <2>2, LeaderStays DEF Leads
<1>9. ASSUME NEW e \in H_Entry, H!Commit(e)
      PROVE  OneLedger' /\ OneLeader'
  <2>1. /\ H_rq[e].pc \in {"tip", "insert"}
        /\ H_rq'[e].pc \in {"insert", "settle"}
        /\ H_rq'[e].ledger = H_rq[e].ledger /\ OthersAsWere(e)
    BY <1>0, <1>9, CommitIs DEF H!Commit
  <2>2. UNCHANGED <<H_leading, H_made, H_shared>>
    BY <1>9 DEF H!Commit
  <2> QED BY <2>1, <2>2, LeaderStays DEF Leads
<1>10. ASSUME NEW e \in H_Entry, H!CommitFails(e)
      PROVE  OneLedger' /\ OneLeader'
  <2>1. /\ H_rq[e].pc \in {"tip", "insert"}
        /\ H_rq'[e].pc \in {"insert", "settle"}
        /\ H_rq'[e].ledger = H_rq[e].ledger /\ OthersAsWere(e)
    BY <1>0, <1>10, CommitFailsIs DEF H!CommitFails
  <2>2. UNCHANGED <<H_leading, H_made, H_shared>>
    BY <1>10 DEF H!CommitFails
  <2> QED BY <2>1, <2>2, LeaderStays DEF Leads
<1>11. ASSUME NEW e \in H_Entry, H!Settle(e)
      PROVE  OneLedger' /\ OneLeader'
  <2>1. H_rq[e].pc = "settle" /\ H_rq'[e].pc = "settled"
    BY <1>0, <1>11, SettleIs DEF H!Settle
  <2>2. ASSUME NEW f \in H_Entry
        PROVE  /\ H_rq'[f].ledger = H_rq[f].ledger
               /\ \/ f = e \/ H_rq'[f].pc = H_rq[f].pc
                  \/ H_rq[f].pc = "asleep" /\ H_rq'[f].pc = "loop"
    BY <1>0, <1>11, SettleIs
  <2>3. \A f \in H_Entry : Leads(H_rq'[f]) => Leads(H_rq[f])
    BY <2>1, <2>2 DEF Leads
  <2> QED BY <1>11, <2>1, <2>2, <2>3 DEF H!Settle, OneLedger, OneLeader
<1>12. ASSUME NEW e \in H_Entry, H!StepDown(e)
      PROVE  OneLedger' /\ OneLeader'
  <2>1. Leads(H_rq[e]) /\ H_rq'[e].pc = "loop" /\ H_rq'[e].ledger = H_rq[e].ledger
    BY <1>0, <1>12, StepDownIs DEF H!StepDown, Leads
  <2>2. ASSUME NEW f \in H_Entry, f # e
        PROVE  WokenFrom(H_rq[f], H_rq'[f])
    BY <1>0, <1>12, <2>2, StepDownIs
  <2>3. \A f \in H_Entry : ~Leads(H_rq'[f])
    BY <2>1, <2>2 DEF OneLeader, Leads, WokenFrom
  <2>4. OneLedger'
    <3>1. ASSUME NEW f \in H_Entry
          PROVE  /\ H_rq'[f].pc \notin {"making", "made"}
                 /\ H_rq'[f].pc \notin {"new", "lost"} => H_rq'[f].ledger = 1
      BY <2>1, <2>2 DEF OneLedger, WokenFrom, Leads
    <3> QED BY <1>12, <3>1 DEF H!StepDown, OneLedger
  <2> QED BY <2>3, <2>4 DEF OneLeader
<1>13. CASE H!Crash
  BY <1>13 DEF H!Crash, H!Start, H!Fresh, OneLedger, OneLeader, Leads
<1>14. ASSUME NEW i \in DOMAIN H_disk, H!EditRow(i) \/ H!RemoveRow(i)
      PROVE  OneLedger' /\ OneLeader'
  BY <1>14 DEF H!EditRow, H!RemoveRow, OneLedger, OneLeader
<1> QED
  BY <1>1, <1>2, <1>3, <1>4, <1>5, <1>6, <1>7, <1>8, <1>9, <1>10, <1>11, <1>12,
     <1>13, <1>14
  DEF H!Next, H!AddBlock, H!CommitBatch

\* What the service does in the order of the calls, step by step.
ChainKept == ChainTypes /\ OneLedger /\ OneLeader /\ ChainOrder

LEMMA MildSteps ==
  ASSUME ~H_ColdStart, ChainKept, NEW e \in H_Entry,
         H!Arrive(e) \/ H!Sleep(e) \/ H!Return(e) \/ H!StepDown(e)
  PROVE  ChainOrder'
<1>0. /\ H!TypeOK /\ Paired /\ ChainOrder
      /\ H_rq \in [H_Entry -> H!Call] /\ OneLedger
  BY DEF ChainKept, ChainTypes, H!TypeOK
<1>1. UNCHANGED <<H_disk, H_open, H_waiting, H_arrived, H_edited>>
  BY DEF H!Arrive, H!Sleep, H!Return, H!StepDown
<1>2. \A f \in H_Entry : H_rq[f].pc = "returned" => H_rq[f].row # <<>>
  BY <1>0 DEF ChainOrder, NotYetDone
<1>3. ASSUME NEW f \in H_Entry PROVE Mild(H_rq[f], H_rq'[f])
  <2>0. Mild(H_rq[f], H_rq[f])
    BY <1>2 DEF Mild
  <2>1. CASE H!Arrive(e)
    <3>1. H_rq'[e].pc = "ready" /\ H_rq[e].pc = "new"
      <4>1. H_rq[e].pc = "new"
        BY <2>1 DEF H!Arrive
      <4> QED BY <1>0, <2>1, <4>1, ArriveIs DEF OneLedger
    <3>2. CASE f = e
      BY <1>0, <2>1, <3>1, <3>2, ArriveIs DEF Mild, Carries
    <3>3. CASE f # e
      BY <1>0, <2>0, <2>1, <3>3, ArriveIs DEF OthersAsWere
    <3> QED BY <3>2, <3>3
  <2>2. CASE H!Sleep(e)
    <3>1. H_rq'[e].pc = "asleep" /\ H_rq[e].pc = "loop"
      BY <1>0, <2>2, SleepIs DEF H!Sleep
    <3>2. CASE f = e
      BY <1>0, <2>2, <3>1, <3>2, SleepIs DEF Mild, Carries
    <3>3. CASE f # e
      BY <1>0, <2>0, <2>2, <3>3, SleepIs DEF OthersAsWere
    <3> QED BY <3>2, <3>3
  <2>3. CASE H!Return(e)
    <3>1. /\ H_rq[e].pc = "loop" /\ H_rq'[e].row = H_rq[e].row
          /\ H_rq'[e].pc \in {"failed", "returned"}
          /\ H_rq'[e].pc = "returned" => H_rq[e].row # <<>>
      BY <1>0, <2>3, ReturnIs DEF H!Return
    <3>2. CASE f = e
      BY <1>0, <2>3, <3>1, <3>2, ReturnIs DEF Mild, Carries
    <3>3. CASE f # e
      BY <1>0, <2>0, <2>3, <3>3, ReturnIs DEF OthersAsWere
    <3> QED BY <3>2, <3>3
  <2>4. CASE H!StepDown(e)
    <3>1. H_rq[e].pc = "settled"
      BY <2>4 DEF H!StepDown
    <3>2. CASE f = e
      BY <1>0, <2>4, <3>1, <3>2, StepDownIs DEF Mild, Carries
    <3>3. CASE f # e
      <4>1. WokenFrom(H_rq[f], H_rq'[f])
        BY <1>0, <2>4, <3>3, StepDownIs
      <4> QED BY <1>2, <4>1 DEF WokenFrom, Mild, Carries
    <3> QED BY <3>2, <3>3
  <2> QED BY <2>1, <2>2, <2>3, <2>4
<1> QED BY <1>0, <1>1, <1>3, MildKeeps

LEMMA JoinKeeps ==
  ASSUME ~H_ColdStart, ChainKept, NEW e \in H_Entry, H!Join(e)
  PROVE  ChainOrder'
<1>0. /\ H!TypeOK /\ ChainOrder /\ OneLedger /\ OthersAsWere(e)
      /\ H_rq \in [H_Entry -> H!Call] /\ H_arrived \in Seq(H_Entry)
      /\ Waiters \in Seq(H_Entry)
  BY JoinIs DEF ChainKept, ChainTypes, H!TypeOK, H!Ledger, Waiters
<1>1. /\ H_rq[e].pc = "ready" /\ H_rq'[e].pc = "loop"
      /\ H_rq'[e].done = H_rq[e].done /\ H_rq'[e].row = H_rq[e].row
      /\ H_arrived' = Append(H_arrived, e) /\ Waiters' = Append(Waiters, e)
      /\ UNCHANGED <<H_disk, H_open, H_edited>>
  <2>1. H_rq[e].ledger = 1
    BY <1>0 DEF H!Join, OneLedger
  <2>2. H_waiting \in [H!Ledger -> Seq(H_Entry)] /\ 1 \in H!Ledger
    BY <1>0 DEF H!TypeOK, H!Ledger
  <2> QED BY <1>0, <2>1, <2>2, JoinIs DEF H!Join, Waiters
<1>2. /\ \A f \in H_Entry : H_rq'[f].done = H_rq[f].done /\ H_rq'[f].row = H_rq[f].row
      /\ \A f \in H_Entry : Carries(H_rq'[f]) => H_rq'[f] = H_rq[f]
      /\ \A f \in H_Entry : H_rq'[f].pc = "insert" <=> H_rq[f].pc = "insert"
  BY <1>0, <1>1 DEF OthersAsWere, Carries
<1>3. /\ ~InLine(H_arrived, e) /\ ~H_rq[e].done
  BY <1>0, <1>1 DEF ChainOrder, JoinedOnce, NotYetDone
<1>4. /\ InLine(H_arrived', e)
      /\ \A a : InLine(H_arrived, a) => InLine(H_arrived', a) /\ Ahead(H_arrived', a, e)
      /\ \A a, b : Ahead(H_arrived, a, b) => Ahead(H_arrived', a, b)
  BY <1>0, <1>1, JoinLine
<1>5. /\ DOMAIN Waiters' = 1 .. Len(Waiters) + 1 /\ DOMAIN Waiters = 1 .. Len(Waiters)
      /\ Len(Waiters) \in Nat
      /\ \A j \in DOMAIN Waiters : Waiters'[j] = Waiters[j] /\ Waiters[j] \in H_Entry
      /\ Waiters'[Len(Waiters) + 1] = e
  BY <1>0, <1>1
<1>6. /\ InTurn(H_arrived, Waiters) /\ \A j \in DOMAIN Waiters : ~H_rq[Waiters[j]].done
  BY <1>0 DEF ChainOrder, QueueInTurn, NotYetDone
<1>7. JoinedOnce'
  <2>1. \A m, n \in DOMAIN H_arrived' : H_arrived'[m] = H_arrived'[n] => m = n
    BY <1>0, <1>1, <1>3 DEF ChainOrder, JoinedOnce, InLine
  <2>2. ASSUME NEW f \in H_Entry, H_rq'[f].pc \in {"new", "ready"}
        PROVE  ~InLine(H_arrived', f)
    <3>1. f # e /\ ~InLine(H_arrived, f)
      BY <1>0, <1>1, <2>2 DEF OthersAsWere, ChainOrder, JoinedOnce
    <3> QED BY <1>0, <1>1, <3>1 DEF InLine
  <2> QED BY <2>1, <2>2 DEF JoinedOnce
<1>8. InTurn(H_arrived', Waiters')
  BY <1>4, <1>5, <1>6 DEF InTurn
<1>9. QueueInTurn'
  <2>1. ASSUME NEW f \in H_Entry, Carries(H_rq'[f])
        PROVE  /\ InTurn(H_arrived', H_rq'[f].batch)
               /\ \A i \in DOMAIN H_rq'[f].batch, j \in DOMAIN Waiters' :
                    Ahead(H_arrived', H_rq'[f].batch[i], Waiters'[j])
    <3>1. /\ H_rq'[f] = H_rq[f] /\ InTurn(H_arrived, H_rq[f].batch)
          /\ \A i \in DOMAIN H_rq[f].batch, j \in DOMAIN Waiters :
               Ahead(H_arrived, H_rq[f].batch[i], Waiters[j])
      BY <1>0, <1>2, <2>1 DEF ChainOrder, QueueInTurn
    <3> QED BY <1>4, <1>5, <3>1 DEF InTurn
  <2> QED BY <1>8, <2>1 DEF QueueInTurn
<1>10. NotYetDone'
  <2>1. \A j \in DOMAIN Waiters' : ~H_rq'[Waiters'[j]].done
    BY <1>2, <1>3, <1>5, <1>6
  <2>2. ASSUME NEW f \in H_Entry, Carries(H_rq'[f]), NEW i \in DOMAIN H_rq'[f].batch
        PROVE  ~H_rq'[H_rq'[f].batch[i]].done
    <3>1. H_rq'[f] = H_rq[f] /\ H_rq[f].batch \in Seq(H_Entry)
      BY <1>0, <1>2, <2>2, CallIs
    <3>2. H_rq[f].batch[i] \in H_Entry /\ ~H_rq[H_rq[f].batch[i]].done
      BY <1>0, <2>2, <3>1 DEF ChainOrder, NotYetDone
    <3> QED BY <1>2, <3>1, <3>2
  <2>3. ASSUME NEW f \in H_Entry
        PROVE  /\ H_rq'[f].done => InLine(H_arrived', f)
               /\ H_rq'[f].row # <<>> => H_rq'[f].done
               /\ H_rq'[f].pc = "returned" => H_rq'[f].row # <<>>
    BY <1>0, <1>1, <1>2, <1>4 DEF ChainOrder, NotYetDone, OthersAsWere
  <2> QED BY <2>1, <2>2, <2>3 DEF NotYetDone
<1>11. Transaction'
  BY <1>0, <1>1, <1>2 DEF ChainOrder, Transaction, Carries
<1>12. ASSUME Intact PROVE Intact'
  <2>1. DiskInTurn'
    <3>1. \A i \in DOMAIN H_disk, j \in DOMAIN Waiters' :
            Ahead(H_arrived', H_disk[i].event, Waiters'[j])
      BY <1>4, <1>5, <1>12 DEF Intact, DiskInTurn
    <3>2. \A f \in H_Entry : Writes(H_rq'[f]) => H_rq'[f] = H_rq[f]
      BY <1>2 DEF Writes, Carries
    <3> QED BY <1>1, <1>4, <1>12, <3>1, <3>2 DEF Intact, DiskInTurn
  <2> QED BY <1>1, <1>2, <1>12, <2>1 DEF Intact, Rows, Carries
<1> QED BY <1>0, <1>1, <1>7, <1>9, <1>10, <1>11, <1>12 DEF ChainOrder

LEMMA LeadKeeps ==
  ASSUME ~H_ColdStart, ChainKept, NEW e \in H_Entry, H!Lead(e)
  PROVE  ChainOrder'
<1> DEFINE n == H!Taken(1)
<1>0. /\ H!TypeOK /\ ChainOrder /\ OneLedger /\ OneLeader /\ OthersAsWere(e)
      /\ H_rq \in [H_Entry -> H!Call] /\ H_rq[e].ledger = 1
      /\ Waiters \in Seq(H_Entry) /\ Len(Waiters) \in Nat
      /\ H_waiting \in [H!Ledger -> Seq(H_Entry)] /\ 1 \in H!Ledger
  <2>1. H!TypeOK /\ ChainOrder /\ OneLedger /\ OneLeader
    BY DEF ChainKept, ChainTypes
  <2>2. /\ H_rq \in [H_Entry -> H!Call] /\ H_waiting \in [H!Ledger -> Seq(H_Entry)]
        /\ 1 \in H!Ledger
    BY <2>1 DEF H!TypeOK, H!Ledger
  <2>3. OthersAsWere(e) /\ H_rq[e].pc = "loop"
    BY <2>1, LeadIs DEF H!Lead
  <2> QED BY <2>1, <2>2, <2>3 DEF OneLedger, Waiters
<1>1. n \in Nat /\ n <= Len(Waiters)
  BY <1>0, SmallerOfTwo DEF H!Taken, Waiters
<1>2. /\ H_rq[e].pc = "loop" /\ H_rq'[e].pc = "tip"
      /\ H_rq'[e].done = H_rq[e].done /\ H_rq'[e].row = H_rq[e].row
      /\ H_rq'[e].batch = SubSeq(Waiters, 1, n) /\ H_rq'[e].blocks = <<>>
      /\ Waiters' = SubSeq(Waiters, n + 1, Len(Waiters))
      /\ UNCHANGED <<H_disk, H_open, H_arrived, H_edited>>
  BY <1>0, LeadIs DEF H!Lead, Waiters
<1> HIDE DEF n
<1>3. \A f \in H_Entry : Carries(H_rq'[f]) => f = e
  <2>1. ~H_leading[1]
    BY <1>0 DEF H!Lead
  <2>2. \A f \in H_Entry : ~Leads(H_rq[f])
    BY <1>0, <2>1 DEF OneLeader
  <2> QED BY <1>0, <2>2 DEF OthersAsWere, Carries, Leads
<1>4. /\ DOMAIN Waiters = 1 .. Len(Waiters) /\ DOMAIN H_rq'[e].batch = 1 .. n
      /\ \A i \in 1 .. n : H_rq'[e].batch[i] = Waiters[i]
      /\ DOMAIN Waiters' = 1 .. Len(Waiters) - n
      /\ \A j \in 1 .. Len(Waiters) - n : Waiters'[j] = Waiters[n + j]
  BY <1>0, <1>1, <1>2
<1>5. /\ \A i \in 1 .. n : i \in DOMAIN Waiters
      /\ \A j \in 1 .. Len(Waiters) - n : n + j \in DOMAIN Waiters
      /\ \A i \in 1 .. n, j \in 1 .. Len(Waiters) - n : i < n + j
      /\ \A i, j \in 1 .. Len(Waiters) - n : i < j => n + i < n + j
  BY <1>0, <1>1, <1>4
<1>6. /\ InTurn(H_arrived, Waiters) /\ \A j \in DOMAIN Waiters : ~H_rq[Waiters[j]].done
      /\ \A j \in DOMAIN Waiters : Waiters[j] \in H_Entry
  BY <1>0 DEF ChainOrder, QueueInTurn, NotYetDone
<1>7. /\ \A f \in H_Entry : H_rq'[f].done = H_rq[f].done /\ H_rq'[f].row = H_rq[f].row
      /\ \A f \in H_Entry : H_rq'[f].pc # "insert" /\ H_rq'[f].pc # "settle"
      /\ \A f \in H_Entry : H_rq[f].pc # "insert"
  BY <1>0, <1>2, <1>3 DEF OthersAsWere, Carries
<1>8. JoinedOnce'
  BY <1>0, <1>2 DEF ChainOrder, JoinedOnce, OthersAsWere
<1>9. QueueInTurn'
  <2>1. InTurn(H_arrived', Waiters')
    <3>1. ASSUME NEW i \in DOMAIN Waiters', NEW j \in DOMAIN Waiters', i < j
          PROVE  Ahead(H_arrived', Waiters'[i], Waiters'[j])
      <4>1. /\ n + i \in DOMAIN Waiters /\ n + j \in DOMAIN Waiters
            /\ n + i < n + j
            /\ Waiters'[i] = Waiters[n + i] /\ Waiters'[j] = Waiters[n + j]
        BY <1>4, <1>5, <3>1
      <4> QED BY <1>2, <1>6, <4>1 DEF InTurn
    <3>2. ASSUME NEW i \in DOMAIN Waiters' PROVE InLine(H_arrived', Waiters'[i])
      BY <1>2, <1>4, <1>5, <1>6 DEF InTurn
    <3> QED BY <3>1, <3>2 DEF InTurn
  <2>2. InTurn(H_arrived', H_rq'[e].batch)
    BY <1>2, <1>4, <1>5, <1>6 DEF InTurn
  <2>3. \A i \in 1 .. n, j \in 1 .. Len(Waiters) - n :
          Ahead(H_arrived', H_rq'[e].batch[i], Waiters'[j])
    BY <1>2, <1>4, <1>5, <1>6 DEF InTurn
  <2> QED BY <1>3, <1>4, <2>1, <2>2, <2>3 DEF QueueInTurn
<1>10. NotYetDone'
  <2>1. \A j \in DOMAIN Waiters' : ~H_rq'[Waiters'[j]].done
    BY <1>4, <1>5, <1>6, <1>7
  <2>2. \A i \in DOMAIN H_rq'[e].batch : ~H_rq'[H_rq'[e].batch[i]].done
    BY <1>4, <1>5, <1>6, <1>7
  <2>3. ASSUME NEW f \in H_Entry
        PROVE  /\ H_rq'[f].done => InLine(H_arrived', f)
               /\ H_rq'[f].row # <<>> => H_rq'[f].done
               /\ H_rq'[f].pc = "returned" => H_rq'[f].row # <<>>
    BY <1>0, <1>2, <1>7 DEF ChainOrder, NotYetDone, OthersAsWere
  <2> QED BY <1>3, <2>1, <2>2, <2>3 DEF NotYetDone
<1>11. Transaction'
  <2>1. \A f \in H_Entry : H_rq'[f].pc = "tip" => f = e
    BY <1>3 DEF Carries
  <2> QED BY <1>0, <1>2, <1>7, <2>1 DEF ChainOrder, Transaction
<1>12. ASSUME Intact PROVE Intact'
  <2>1. /\ \A i \in DOMAIN H_disk, j \in DOMAIN Waiters :
             Ahead(H_arrived, H_disk[i].event, Waiters[j])
        /\ \A i \in DOMAIN H_disk : InLine(H_arrived, H_disk[i].event)
        /\ \A i, j \in DOMAIN H_disk :
             i < j => Ahead(H_arrived, H_disk[i].event, H_disk[j].event)
    BY <1>12 DEF Intact, DiskInTurn
  <2>2. \A f \in H_Entry : Writes(H_rq'[f]) => f = e
    BY <1>3 DEF Writes, Carries
  <2>3. DiskInTurn'
    <3>1. ASSUME NEW i \in DOMAIN H_disk, NEW j \in DOMAIN Waiters'
          PROVE  Ahead(H_arrived', H_disk[i].event, Waiters'[j])
      BY <1>2, <1>4, <1>5, <2>1
    <3>2. ASSUME NEW i \in DOMAIN H_disk, NEW k \in DOMAIN H_rq'[e].batch
          PROVE  Ahead(H_arrived', H_disk[i].event, H_rq'[e].batch[k])
      BY <1>2, <1>4, <1>5, <2>1
    <3> QED BY <1>2, <2>1, <2>2, <3>1, <3>2 DEF DiskInTurn
  <2> QED BY <1>2, <1>7, <1>12, <2>3 DEF Intact, Rows
<1> QED BY <1>0, <1>2, <1>8, <1>9, <1>10, <1>11, <1>12 DEF ChainOrder

\* While a call writes, what is left of the order stays as it is: the calls and
\* the queue are those of before.
LEMMA LeaderKeepsOrder ==
  ASSUME ChainKept, NEW e \in H_Entry, Writes(H_rq[e]), Carries(H_rq'[e]),
         OthersAsWere(e), H_rq'[e].batch = H_rq[e].batch,
         H_rq'[e].done = H_rq[e].done, H_rq'[e].row = H_rq[e].row,
         UNCHANGED <<H_waiting, H_arrived>>
  PROVE  JoinedOnce' /\ QueueInTurn' /\ NotYetDone'
<1>0. /\ ChainOrder /\ H_rq \in [H_Entry -> H!Call] /\ Waiters' = Waiters
      /\ Waiters \in Seq(H_Entry) /\ Carries(H_rq[e])
      /\ H_rq[e].pc \notin {"new", "ready", "returned"}
      /\ H_rq'[e].pc \notin {"new", "ready", "returned"}
  <2>1. H!TypeOK /\ ChainOrder
    BY DEF ChainKept, ChainTypes
  <2>2. /\ H_rq \in [H_Entry -> H!Call] /\ H_waiting \in [H!Ledger -> Seq(H_Entry)]
        /\ 1 \in H!Ledger
    BY <2>1 DEF H!TypeOK, H!Ledger
  <2> QED BY <2>1, <2>2 DEF Waiters, Writes, Carries
<1>1. \A f \in H_Entry :
        /\ H_rq'[f].batch = H_rq[f].batch /\ H_rq'[f].done = H_rq[f].done
        /\ H_rq'[f].row = H_rq[f].row
        /\ Carries(H_rq'[f]) => Carries(H_rq[f])
        /\ H_rq'[f].pc \in {"new", "ready", "returned"} => H_rq'[f].pc = H_rq[f].pc
  BY <1>0 DEF OthersAsWere
<1>2. JoinedOnce'
  BY <1>0, <1>1 DEF ChainOrder, JoinedOnce
<1>3. QueueInTurn'
  BY <1>0, <1>1 DEF ChainOrder, QueueInTurn
<1>4. NotYetDone'
  <2>1. \A j \in DOMAIN Waiters' : ~H_rq'[Waiters'[j]].done
    BY <1>0, <1>1 DEF ChainOrder, NotYetDone
  <2>2. ASSUME NEW f \in H_Entry, Carries(H_rq'[f]), NEW i \in DOMAIN H_rq'[f].batch
        PROVE  ~H_rq'[H_rq'[f].batch[i]].done
    <3>1. H_rq[f].batch \in Seq(H_Entry) /\ H_rq'[f].batch = H_rq[f].batch
      BY <1>0, <1>1, CallIs
    <3>2. H_rq[f].batch[i] \in H_Entry /\ ~H_rq[H_rq[f].batch[i]].done
      BY <1>0, <1>1, <2>2, <3>1 DEF ChainOrder, NotYetDone
    <3> QED BY <1>1, <3>1, <3>2
  <2>3. ASSUME NEW f \in H_Entry
        PROVE  /\ H_rq'[f].done => InLine(H_arrived', f)
               /\ H_rq'[f].row # <<>> => H_rq'[f].done
               /\ H_rq'[f].pc = "returned" => H_rq'[f].row # <<>>
    BY <1>0, <1>1 DEF ChainOrder, NotYetDone
  <2> QED BY <2>1, <2>2, <2>3 DEF NotYetDone
<1> QED BY <1>2, <1>3, <1>4

\* A writer is alone, and writes through ledger 1.
LEMMA WriterIs ==
  ASSUME ChainKept, NEW e \in H_Entry, Leads(H_rq[e])
  PROVE  /\ H!TypeOK /\ ChainOrder /\ H_rq[e].ledger = 1 /\ 1 \in H!Ledger
         /\ H_disk \in Seq(H!Row) /\ H_open[1] \in Seq(H!Row)
         /\ H_open \in [H!Ledger -> Seq(H!Row)] /\ Rows \in Seq(H!Row)
         /\ H_rq \in [H_Entry -> H!Call]
         /\ H_rq[e].batch \in Seq(H_Entry) /\ H_rq[e].blocks \in Seq(H!Row)
         /\ H_rq[e].tip \in H!Hash
         /\ \A f \in H_Entry : Leads(H_rq[f]) => f = e
<1>1. H!TypeOK /\ ChainOrder /\ OneLedger /\ OneLeader
  BY DEF ChainKept, ChainTypes
<1>2. /\ H_rq \in [H_Entry -> H!Call] /\ H_open \in [H!Ledger -> Seq(H!Row)]
      /\ 1 \in H!Ledger /\ H_disk \in Seq(H!Row)
  BY <1>1 DEF H!TypeOK, H!Ledger
<1>3. H_rq[e].ledger = 1 /\ \A f \in H_Entry : Leads(H_rq[f]) => f = e
  BY <1>1 DEF OneLedger, OneLeader, Leads
<1>4. H_open[1] \in Seq(H!Row)
  BY <1>2
<1>5. Rows \in Seq(H!Row)
  BY <1>2, <1>4 DEF Rows
<1> QED BY <1>1, <1>2, <1>3, <1>4, <1>5, CallIs

LEMMA ReadTipKeeps ==
  ASSUME ~H_ColdStart, ChainKept, NEW e \in H_Entry, H!ReadTip(e)
  PROVE  ChainOrder'
<1>0. /\ H_rq[e].pc = "tip" /\ Leads(H_rq[e]) /\ Writes(H_rq[e])
      /\ UNCHANGED <<H_disk, H_open, H_waiting, H_arrived, H_edited>>
  BY DEF H!ReadTip, Leads, Writes
<1>1. /\ H!TypeOK /\ ChainOrder /\ H_rq[e].ledger = 1
      /\ \A f \in H_Entry : Leads(H_rq[f]) => f = e
  BY <1>0, WriterIs
<1>2. /\ OthersAsWere(e) /\ H_rq'[e].pc = "insert" /\ H_rq'[e].tip = H!TipOf(Rows)
      /\ H_rq'[e].batch = H_rq[e].batch /\ H_rq'[e].blocks = H_rq[e].blocks
      /\ H_rq'[e].done = H_rq[e].done /\ H_rq'[e].row = H_rq[e].row
  BY <1>1, ReadTipIs DEF Rows
<1>3. H_open[1] = <<>> /\ H_rq[e].blocks = <<>>
  BY <1>0, <1>1 DEF ChainOrder, Transaction, Leads
<1>4. JoinedOnce' /\ QueueInTurn' /\ NotYetDone'
  BY <1>0, <1>2, LeaderKeepsOrder DEF Carries
<1>5. \A f \in H_Entry : Carries(H_rq'[f]) => f = e
  BY <1>1, <1>2 DEF OthersAsWere, Carries, Leads
<1>6. Transaction'
  BY <1>0, <1>2, <1>3, <1>5 DEF Transaction, Carries, Follow
<1>7. ASSUME Intact PROVE Intact'
  <2>1. Waiters' = Waiters /\ Rows' = Rows
    BY <1>0 DEF Waiters, Rows
  <2>2. \A f \in H_Entry : H_rq'[f].row = H_rq[f].row
    BY <1>2 DEF OthersAsWere
  <2>3. \A f \in H_Entry : Writes(H_rq'[f]) => f = e
    BY <1>5 DEF Writes, Carries
  <2>4. DiskInTurn'
    BY <1>0, <1>2, <1>7, <2>1, <2>3 DEF Intact, DiskInTurn
  <2> QED BY <1>0, <1>2, <1>5, <1>7, <2>1, <2>2, <2>4 DEF Intact, Carries
<1> QED BY <1>0, <1>1, <1>4, <1>6, <1>7 DEF ChainOrder

\* What a hash commits to, added to, is not the forged hash.
LEMMA NotForged ==
  ASSUME NEW h \in H!Hash, NEW x, x \in H_Entry
  PROVE  Append(h, x) # <<H_Forged>>
<1>1. SUFFICES ASSUME Append(h, x) = <<H_Forged>> PROVE FALSE
  OBVIOUS
<1>2. h \in Seq(H!Event) /\ Len(h) \in Nat /\ x \in H!Event
  BY DEF H!Hash, H!Event
<1>3. Len(Append(h, x)) = Len(h) + 1 /\ Append(h, x)[Len(h) + 1] = x
  BY <1>2
<1>4. Len(<<H_Forged>>) = 1 /\ <<H_Forged>>[1] = H_Forged
  OBVIOUS
<1>5. Len(h) = 0
  BY <1>1, <1>2, <1>3, <1>4
<1> QED BY <1>1, <1>3, <1>4, <1>5

\* The next row links to the last.
LEMMA LinkedOn ==
  ASSUME NEW rows \in Seq(H!Row), \A i \in DOMAIN rows : Link(rows, i),
         NEW row \in H!Row, row.id = H!NextId(rows), row.prev = H!TipOf(rows),
         row.hash = Append(row.prev, row.event), row.event \in H_Entry
  PROVE  /\ \A i \in DOMAIN Append(rows, row) : Link(Append(rows, row), i)
         /\ H!TipOf(Append(rows, row)) = row.hash
<1> DEFINE longer == Append(rows, row)
<1>1. /\ DOMAIN rows = 1 .. Len(rows) /\ Len(rows) \in Nat
      /\ longer \in Seq(H!Row) /\ longer # <<>>
      /\ DOMAIN longer = 1 .. Len(rows) + 1 /\ Len(longer) = Len(rows) + 1
      /\ \A i \in 1 .. Len(rows) : longer[i] = rows[i]
      /\ longer[Len(rows) + 1] = row
  OBVIOUS
<1> HIDE DEF longer
<1>2. H!TipOf(longer) = row.hash
  BY <1>1, TipIs
<1>3. ASSUME NEW i \in 1 .. Len(rows) PROVE Link(longer, i)
  <2>1. Link(rows, i) /\ longer[i] = rows[i]
    BY <1>1
  <2>2. i # 1 => longer[i - 1] = rows[i - 1]
    BY <1>1
  <2> QED BY <2>1, <2>2 DEF Link
<1>4. Link(longer, Len(rows) + 1)
  <2>1. CASE rows = <<>>
    <3>1. Len(rows) = 0 /\ row.id = 1 /\ row.prev = <<>>
      BY <2>1, TipIs
    <3>2. <<>> # <<H_Forged>>
      OBVIOUS
    <3>3. Len(rows) + 1 = 1 /\ longer[1] = row
      BY <1>1, <3>1
    <3>4. row.prev # <<H_Forged>>
      BY <3>1, <3>2
    <3>5. Link(longer, 1)
      BY <3>1, <3>3, <3>4 DEF Link
    <3> QED BY <3>3, <3>5
  <2>2. CASE rows # <<>>
    <3>1. /\ Len(rows) \in 1 .. Len(rows) /\ Len(rows) + 1 # 1
          /\ (Len(rows) + 1) - 1 = Len(rows)
      BY <1>1, <2>2
    <3>2. row.prev = rows[Len(rows)].hash /\ row.id = rows[Len(rows)].id + 1
      BY <2>2, TipIs
    <3>3. Link(rows, Len(rows)) /\ rows[Len(rows)] \in H!Row
      BY <1>1, <3>1
    <3>4. rows[Len(rows)].id = Len(rows) /\ rows[Len(rows)].prev \in H!Hash
      BY <3>3 DEF Link, H!Row
    <3>5. rows[Len(rows)].hash # <<H_Forged>>
      BY <3>3, <3>4, NotForged DEF Link
    <3>6. row.id = Len(rows) + 1 /\ row.prev # <<H_Forged>>
      BY <3>2, <3>4, <3>5
    <3> QED BY <1>1, <3>1, <3>2, <3>6 DEF Link
  <2> QED BY <2>1, <2>2
<1>5. \A i \in DOMAIN longer : Link(longer, i)
  BY <1>1, <1>3, <1>4
<1> QED BY <1>2, <1>5 DEF longer

LEMMA InsertKeeps ==
  ASSUME ~H_ColdStart, ChainKept, NEW e \in H_Entry, H!Insert(e)
  PROVE  ChainOrder'
<1> DEFINE row == NewRow(e)
<1>0. /\ H_rq[e].pc = "insert" /\ Leads(H_rq[e]) /\ Writes(H_rq[e])
      /\ Len(H_rq[e].blocks) < Len(H_rq[e].batch)
      /\ UNCHANGED <<H_disk, H_waiting, H_arrived, H_edited>>
  BY DEF H!Insert, Leads, Writes
<1>1. /\ H!TypeOK /\ ChainOrder /\ H_rq[e].ledger = 1 /\ 1 \in H!Ledger
      /\ H_disk \in Seq(H!Row) /\ H_open[1] \in Seq(H!Row)
      /\ H_open \in [H!Ledger -> Seq(H!Row)] /\ Rows \in Seq(H!Row)
      /\ H_rq[e].batch \in Seq(H_Entry) /\ H_rq[e].blocks \in Seq(H!Row)
      /\ H_rq[e].tip \in H!Hash
      /\ \A f \in H_Entry : Leads(H_rq[f]) => f = e
  BY <1>0, WriterIs
<1>2. /\ OthersAsWere(e) /\ H_rq'[e].pc = "insert" /\ H_rq'[e].tip = row.hash
      /\ H_rq'[e].batch = H_rq[e].batch
      /\ H_rq'[e].blocks = Append(H_rq[e].blocks, row)
      /\ H_rq'[e].done = H_rq[e].done /\ H_rq'[e].row = H_rq[e].row
  BY <1>0, <1>1, InsertIs
<1>3. H_open[1] = H_rq[e].blocks /\ Follow(H_rq[e].blocks, H_rq[e].batch)
  BY <1>0, <1>1 DEF ChainOrder, Transaction
<1>4. /\ row.id = H!NextId(Rows) /\ row.prev = H_rq[e].tip
      /\ row.event = H_rq[e].batch[Len(H_rq[e].blocks) + 1]
      /\ row.hash = Append(row.prev, row.event) /\ row.event \in H_Entry
      /\ row \in H!Row
  <2>1. /\ row.id = H!NextId(Rows) /\ row.prev = H_rq[e].tip
        /\ row.event = H_rq[e].batch[Len(H_rq[e].blocks) + 1]
        /\ row.hash = Append(row.prev, row.event)
        /\ row = [id |-> row.id, event |-> row.event, prev |-> row.prev,
                  hash |-> row.hash]
    BY <1>1 DEF NewRow, Rows, H!ComputeHash
  <2> HIDE DEF row
  <2>2. row.event \in H_Entry /\ row.event \in H!Event
    <3>1. Len(H_rq[e].blocks) + 1 \in 1 .. Len(H_rq[e].batch)
      BY <1>0, <1>1
    <3>2. row.event \in H_Entry
      BY SMTT(30), <1>1, <2>1, <3>1
    <3> QED BY <3>2 DEF H!Event
  <2>3. row.id \in Nat
    BY <1>1, <2>1, TipIs
  <2>4. row.hash \in H!Hash
    BY <1>1, <2>1, <2>2, HashIsHash DEF H!ComputeHash
  <2> QED BY ZenonT(60), <1>1, <2>1, <2>2, <2>3, <2>4, RowIs
<1>5. H_open'[1] = Append(H_open[1], row)
  BY <1>1 DEF H!Insert, NewRow
<1> HIDE DEF row
<1>6. Rows' = Append(Rows, row)
  BY SMTT(30), <1>0, <1>1, <1>4, <1>5 DEF Rows
<1>7. JoinedOnce' /\ QueueInTurn' /\ NotYetDone'
  BY <1>0, <1>2, LeaderKeepsOrder DEF Carries
<1>8. \A f \in H_Entry : Carries(H_rq'[f]) => f = e
  BY <1>1, <1>2 DEF OthersAsWere, Carries, Leads
<1>9. Follow(H_rq'[e].blocks, H_rq'[e].batch)
  <2>1. /\ Len(H_rq'[e].blocks) = Len(H_rq[e].blocks) + 1
        /\ Len(H_rq[e].blocks) \in Nat /\ Len(H_rq[e].batch) \in Nat
        /\ DOMAIN H_rq'[e].blocks = 1 .. Len(H_rq[e].blocks) + 1
        /\ DOMAIN H_rq[e].blocks = 1 .. Len(H_rq[e].blocks)
        /\ \A k \in 1 .. Len(H_rq[e].blocks) :
             H_rq'[e].blocks[k] = H_rq[e].blocks[k]
        /\ H_rq'[e].blocks[Len(H_rq[e].blocks) + 1] = row
    BY SMTT(30), <1>1, <1>2, <1>4
  <2> QED BY <1>0, <1>2, <1>3, <1>4, <2>1 DEF Follow
<1>10. Transaction'
  <2>1. H_open'[1] = H_rq'[e].blocks
    BY <1>2, <1>3, <1>5
  <2> QED BY <1>2, <1>8, <1>9, <2>1 DEF Transaction, Carries
<1>11. ASSUME Intact PROVE Intact'
  <2>1. Waiters' = Waiters
    BY <1>0 DEF Waiters
  <2>2. \A f \in H_Entry : H_rq'[f].row = H_rq[f].row
    BY <1>2 DEF OthersAsWere
  <2>3. \A f \in H_Entry : Writes(H_rq'[f]) => f = e
    BY <1>8 DEF Writes, Carries
  <2>4. DiskInTurn'
    BY <1>0, <1>2, <1>11, <2>1, <2>3 DEF Intact, DiskInTurn
  <2>5. H_rq[e].tip = H!TipOf(Rows) /\ \A i \in DOMAIN Rows : Link(Rows, i)
    BY <1>0, <1>11 DEF Intact
  <2>6. /\ \A i \in DOMAIN Rows' : Link(Rows', i)
        /\ H!TipOf(Rows') = row.hash
    BY <1>1, <1>4, <1>6, <2>5, LinkedOn
  <2>7. \A f \in H_Entry : H_rq'[f].pc = "insert" => H_rq'[f].tip = H!TipOf(Rows')
    BY <1>2, <1>8, <2>6 DEF Carries
  <2>8. \A f \in H_Entry : H_rq'[f].pc # "settle"
    BY <1>2, <1>8 DEF Carries
  <2>9. H!TipOf(Rows)' = H!TipOf(Rows')
    BY DEF H!TipOf
  <2> QED BY <1>0, <1>11, <2>2, <2>4, <2>6, <2>7, <2>8, <2>9 DEF Intact
<1> QED BY <1>0, <1>1, <1>7, <1>10, <1>11 DEF ChainOrder

\* A longer file names the same block.
LEMMA NamedStays ==
  ASSUME NEW rows \in Seq(H!Row), NEW more \in Seq(H!Row), NEW at, Named(rows, at)
  PROVE  Named(rows \o more, at)
<1> DEFINE longer == rows \o more
<1>1. /\ DOMAIN rows = 1 .. Len(rows) /\ Len(rows) \in Nat
      /\ DOMAIN rows \subseteq DOMAIN longer
      /\ \A i \in DOMAIN rows : longer[i] = rows[i]
      /\ DOMAIN longer \subseteq Nat
  OBVIOUS
<1> HIDE DEF longer
<1>2. PICK k \in DOMAIN rows :
        /\ H!Broken(rows, k) /\ rows[k].id = at
        /\ \A j \in DOMAIN rows : j < k => ~H!Broken(rows, j)
  BY DEF Named
<1>3. ASSUME NEW i \in DOMAIN rows PROVE H!Broken(longer, i) <=> H!Broken(rows, i)
  <2>1. i # 1 => i - 1 \in DOMAIN rows
    BY <1>1
  <2>2. longer[i] = rows[i] /\ (i # 1 => longer[i - 1] = rows[i - 1])
    BY <1>1, <2>1
  <2> QED BY <2>2 DEF H!Broken
<1>4. ASSUME NEW j \in DOMAIN longer, j < k PROVE ~H!Broken(longer, j)
  <2>1. j \in DOMAIN rows
    BY <1>1, <1>4, 1 <= j
  <2> QED BY <1>2, <1>3, <1>4, <2>1
<1>5. k \in DOMAIN longer /\ H!Broken(longer, k) /\ longer[k].id = at
  BY <1>1, <1>2, <1>3
<1> QED BY <1>4, <1>5 DEF Named, longer

\* Where the members of two sequences come to be, one after the other.
LEMMA ConcatIs ==
  ASSUME NEW S, NEW a \in Seq(S), NEW b \in Seq(S)
  PROVE  /\ DOMAIN (a \o b) = 1 .. Len(a) + Len(b)
         /\ \A i \in 1 .. Len(a) : (a \o b)[i] = a[i]
         /\ \A k \in 1 .. Len(b) : (a \o b)[Len(a) + k] = b[k]
  OBVIOUS

\* What is left of a sequence when the entry at i is taken out.
LEMMA CutOut ==
  ASSUME NEW S, NEW s \in Seq(S), NEW i \in 1 .. Len(s), i # Len(s)
  PROVE  LET t == SubSeq(s, 1, i - 1) \o SubSeq(s, i + 1, Len(s))
         IN  /\ DOMAIN t = 1 .. Len(s) - 1
             /\ \A k \in 1 .. i - 1 : t[k] = s[k]
             /\ t[i] = s[i + 1]
<1>1. /\ SubSeq(s, 1, i - 1) \in Seq(S) /\ Len(SubSeq(s, 1, i - 1)) = i - 1
      /\ \A k \in 1 .. i - 1 : SubSeq(s, 1, i - 1)[k] = s[k]
  OBVIOUS
<1>2. /\ SubSeq(s, i + 1, Len(s)) \in Seq(S)
      /\ Len(SubSeq(s, i + 1, Len(s))) = Len(s) - i
      /\ SubSeq(s, i + 1, Len(s))[1] = s[i + 1]
  OBVIOUS
<1>3. ASSUME NEW a \in Seq(S), NEW b \in Seq(S),
             Len(a) = i - 1, Len(b) = Len(s) - i
      PROVE  /\ DOMAIN (a \o b) = 1 .. Len(s) - 1
             /\ \A k \in 1 .. i - 1 : (a \o b)[k] = a[k]
             /\ (a \o b)[i] = b[1]
  <2>1. /\ DOMAIN (a \o b) = 1 .. Len(a) + Len(b)
        /\ \A k \in 1 .. Len(a) : (a \o b)[k] = a[k]
        /\ \A k \in 1 .. Len(b) : (a \o b)[Len(a) + k] = b[k]
    BY ConcatIs
  <2>2. /\ Len(a) + Len(b) = Len(s) - 1 /\ 1 .. Len(a) = 1 .. i - 1
        /\ 1 \in 1 .. Len(b) /\ Len(a) + 1 = i
    BY <1>3
  <2>3. (a \o b)[Len(a) + 1] = b[1]
    BY <2>1, <2>2
  <2> QED BY ZenonT(60), <2>1, <2>2, <2>3
<1> QED BY ZenonT(60), <1>1, <1>2, <1>3

\* A commit appends the rows of the batch, one by one.
LEMMA CommitAppends ==
  ASSUME ~H_ColdStart, ChainKept, NEW e \in H_Entry, H!Commit(e)
  PROVE  LET n == Len(H_disk)
             l == Len(H_rq[e].batch)
         IN /\ n \in Nat /\ l \in Nat
            /\ DOMAIN H_disk = 1 .. n /\ DOMAIN H_rq[e].batch = 1 .. l
            /\ DOMAIN H_disk' = 1 .. n + l
            /\ \A i \in 1 .. n : H_disk'[i] = H_disk[i]
            /\ \A k \in 1 .. l : H_disk'[n + k] = H_rq[e].blocks[k]
            /\ DOMAIN H_rq[e].blocks = 1 .. l
            /\ \A k \in 1 .. l : H_disk'[n + k].event = H_rq[e].batch[k]
<1>0. /\ H_rq[e].pc = "insert" /\ Leads(H_rq[e]) /\ Writes(H_rq[e])
      /\ Len(H_rq[e].blocks) = Len(H_rq[e].batch)
  BY DEF H!Commit, Leads, Writes
<1>1. /\ H!TypeOK /\ ChainOrder /\ H_rq[e].ledger = 1 /\ 1 \in H!Ledger
      /\ H_disk \in Seq(H!Row) /\ H_open[1] \in Seq(H!Row)
      /\ H_rq[e].batch \in Seq(H_Entry) /\ H_rq[e].blocks \in Seq(H!Row)
  BY <1>0, WriterIs
<1>3. H_open[1] = H_rq[e].blocks /\ Follow(H_rq[e].blocks, H_rq[e].batch)
  BY <1>0, <1>1 DEF ChainOrder, Transaction
<1>4. H_disk' = H_disk \o H_open[1]
  BY <1>1 DEF H!Commit
<1> DEFINE n == Len(H_disk)
           l == Len(H_rq[e].batch)
<1>9. /\ n \in Nat /\ l \in Nat
      /\ DOMAIN H_disk = 1 .. n /\ DOMAIN H_rq[e].batch = 1 .. l
      /\ DOMAIN H_disk' = 1 .. n + l
      /\ \A i \in 1 .. n : H_disk'[i] = H_disk[i]
      /\ \A k \in 1 .. l : H_disk'[n + k] = H_rq[e].blocks[k]
      /\ DOMAIN H_rq[e].blocks = 1 .. l
  <2>1. /\ n \in Nat /\ l \in Nat /\ DOMAIN H_disk = 1 .. n
        /\ DOMAIN H_rq[e].batch = 1 .. l
    BY <1>1
  <2>2. Len(H_open[1]) = l /\ DOMAIN H_open[1] = 1 .. l
    BY <1>0, <1>1, <1>3
  <2>3. /\ DOMAIN (H_disk \o H_open[1]) = 1 .. n + l
        /\ \A i \in 1 .. n : (H_disk \o H_open[1])[i] = H_disk[i]
        /\ \A k \in 1 .. l : (H_disk \o H_open[1])[n + k] = H_open[1][k]
    <3>1. n = Len(H_disk) /\ l = Len(H_open[1])
      BY <2>2
    <3> HIDE DEF n, l
    <3>2. /\ DOMAIN (H_disk \o H_open[1])
                = 1 .. Len(H_disk) + Len(H_open[1])
          /\ \A i \in 1 .. Len(H_disk) :
               (H_disk \o H_open[1])[i] = H_disk[i]
          /\ \A k \in 1 .. Len(H_open[1]) :
               (H_disk \o H_open[1])[Len(H_disk) + k] = H_open[1][k]
      BY <1>1, ConcatIs
    <3> QED BY <3>1, <3>2
  <2>4. H_disk' = H_disk \o H_open[1] /\ H_open[1] = H_rq[e].blocks
    BY <1>3, <1>4
  <2> HIDE DEF n, l
  <2> QED BY <2>1, <2>2, <2>3, <2>4
<1> HIDE DEF n, l
<1>10. \A k \in 1 .. l : H_disk'[n + k].event = H_rq[e].batch[k]
  BY <1>3, <1>9 DEF Follow
<1> QED BY <1>9, <1>10 DEF n, l

LEMMA CommitKeeps ==
  ASSUME ~H_ColdStart, ChainKept, NEW e \in H_Entry, H!Commit(e)
  PROVE  ChainOrder'
<1>0. /\ H_rq[e].pc = "insert" /\ Leads(H_rq[e]) /\ Writes(H_rq[e])
      /\ Len(H_rq[e].blocks) = Len(H_rq[e].batch)
      /\ UNCHANGED <<H_waiting, H_arrived, H_edited>>
  BY DEF H!Commit, Leads, Writes
<1>1. /\ H!TypeOK /\ ChainOrder /\ H_rq[e].ledger = 1 /\ 1 \in H!Ledger
      /\ H_disk \in Seq(H!Row) /\ H_open[1] \in Seq(H!Row)
      /\ H_open \in [H!Ledger -> Seq(H!Row)] /\ Rows \in Seq(H!Row)
      /\ H_rq[e].batch \in Seq(H_Entry) /\ H_rq[e].blocks \in Seq(H!Row)
      /\ \A f \in H_Entry : Leads(H_rq[f]) => f = e
  BY <1>0, WriterIs
<1>2. /\ OthersAsWere(e) /\ H_rq'[e].pc = "settle"
      /\ H_rq'[e].batch = H_rq[e].batch /\ H_rq'[e].blocks = H_rq[e].blocks
      /\ H_rq'[e].done = H_rq[e].done /\ H_rq'[e].row = H_rq[e].row
  BY <1>0, <1>1, CommitIs
<1>3. /\ H_open[1] = H_rq[e].blocks /\ Follow(H_rq[e].blocks, H_rq[e].batch)
      /\ InTurn(H_arrived, H_rq[e].batch)
      /\ \A i \in DOMAIN H_rq[e].batch, j \in DOMAIN Waiters :
           Ahead(H_arrived, H_rq[e].batch[i], Waiters[j])
  BY <1>0, <1>1 DEF ChainOrder, Transaction, QueueInTurn, Carries
<1>4. H_disk' = H_disk \o H_open[1] /\ H_open'[1] = <<>> /\ Waiters' = Waiters
  BY <1>0, <1>1 DEF H!Commit, Waiters
<1>5. Rows' = Rows
  BY <1>1, <1>4 DEF Rows
<1>6. JoinedOnce' /\ QueueInTurn' /\ NotYetDone'
  BY <1>0, <1>2, LeaderKeepsOrder DEF Carries
<1>7. \A f \in H_Entry : Carries(H_rq'[f]) => f = e
  BY <1>1, <1>2 DEF OthersAsWere, Carries, Leads
<1>8. Transaction'
  BY <1>0, <1>2, <1>3, <1>4, <1>7 DEF Transaction, Carries
<1> DEFINE n == Len(H_disk)
           l == Len(H_rq[e].batch)
<1>9. /\ n \in Nat /\ l \in Nat
      /\ DOMAIN H_disk = 1 .. n /\ DOMAIN H_rq[e].batch = 1 .. l
      /\ DOMAIN H_disk' = 1 .. n + l
      /\ \A i \in 1 .. n : H_disk'[i] = H_disk[i]
      /\ \A k \in 1 .. l : H_disk'[n + k] = H_rq[e].blocks[k]
      /\ DOMAIN H_rq[e].blocks = 1 .. l
  BY CommitAppends
<1>10. \A k \in 1 .. l : H_disk'[n + k].event = H_rq[e].batch[k]
  BY CommitAppends
<1> HIDE DEF n, l
<1>11. ASSUME NEW i \in DOMAIN H_disk'
       PROVE  \/ i \in 1 .. n /\ H_disk'[i] = H_disk[i]
              \/ /\ i - n \in 1 .. l /\ i = n + (i - n)
                 /\ H_disk'[i].event = H_rq[e].batch[i - n]
  <2>1. i \in 1 .. n \/ (i - n \in 1 .. l /\ i = n + (i - n))
    BY <1>9
  <2> QED BY <1>9, <1>10, <2>1
<1>12. ASSUME Intact PROVE Intact'
  <2>1. \A f \in H_Entry : H_rq'[f].row = H_rq[f].row
    BY <1>2 DEF OthersAsWere
  <2>2. ASSUME NEW row, InFile(H_disk, row) PROVE InFile(H_disk', row)
    BY <1>9, <2>2 DEF InFile
  <2>3. \A k \in 1 .. l : InFile(H_disk', H_rq[e].blocks[k])
    <3>1. \A k \in 1 .. l : n + k \in 1 .. n + l
      BY <1>9
    <3> QED BY <1>9, <3>1 DEF InFile
  <2>4. DiskInTurn'
    <3>1. /\ \A i \in 1 .. n : InLine(H_arrived, H_disk[i].event)
          /\ \A i, j \in 1 .. n :
               i < j => Ahead(H_arrived, H_disk[i].event, H_disk[j].event)
          /\ \A i \in 1 .. n, j \in DOMAIN Waiters :
               Ahead(H_arrived, H_disk[i].event, Waiters[j])
          /\ \A i \in 1 .. n, k \in 1 .. l :
               Ahead(H_arrived, H_disk[i].event, H_rq[e].batch[k])
      BY <1>0, <1>9, <1>12 DEF Intact, DiskInTurn
    <3>2. ASSUME NEW i \in DOMAIN H_disk' PROVE InLine(H_arrived', H_disk'[i].event)
      BY <1>0, <1>3, <1>9, <1>11, <3>1 DEF InTurn
    <3>3. ASSUME NEW i \in DOMAIN H_disk', NEW j \in DOMAIN H_disk', i < j
          PROVE  Ahead(H_arrived', H_disk'[i].event, H_disk'[j].event)
      <4>1. CASE i \in 1 .. n /\ j \in 1 .. n
        BY <1>0, <1>9, <3>1, <3>3, <4>1
      <4>2. CASE i \in 1 .. n /\ j \notin 1 .. n
        <5>1. j - n \in 1 .. l /\ H_disk'[j].event = H_rq[e].batch[j - n]
          BY <1>11, <4>2
        <5> QED BY <1>0, <1>9, <3>1, <4>2, <5>1
      <4>3. CASE i \notin 1 .. n
        <5>1. /\ i - n \in 1 .. l /\ j - n \in 1 .. l /\ i - n < j - n
              /\ H_disk'[i].event = H_rq[e].batch[i - n]
              /\ H_disk'[j].event = H_rq[e].batch[j - n]
          <6>1. j \notin 1 .. n
            BY <1>9, <3>3, <4>3
          <6>2. i \in Nat /\ j \in Nat
            BY <1>9
          <6> QED BY <1>9, <1>11, <3>3, <4>3, <6>1, <6>2
        <5> QED BY <1>0, <1>3, <1>9, <5>1 DEF InTurn
      <4> QED BY <4>1, <4>2, <4>3
    <3>4. ASSUME NEW i \in DOMAIN H_disk', NEW j \in DOMAIN Waiters'
          PROVE  Ahead(H_arrived', H_disk'[i].event, Waiters'[j])
      BY <1>0, <1>3, <1>4, <1>9, <1>11, <3>1
    <3>5. \A f \in H_Entry : ~Writes(H_rq'[f])
      BY <1>2, <1>7 DEF Writes, Carries
    <3> QED BY <3>2, <3>3, <3>4, <3>5 DEF DiskInTurn
  <2>5. \A f \in H_Entry : H_rq'[f].pc # "insert"
    BY <1>2, <1>7 DEF Carries
  <2>6. \A f \in H_Entry : H_rq'[f].pc = "settle" => f = e
    BY <1>7 DEF Carries
  <2> QED BY <1>2, <1>5, <1>9, <1>12, <2>1, <2>2, <2>3, <2>4, <2>5, <2>6 DEF Intact
<1>13. ASSUME Named(H_disk, H_edited.at) PROVE Named(H_disk', H_edited'.at)
  BY <1>0, <1>1, <1>4, <1>13, NamedStays
<1> QED BY <1>0, <1>1, <1>6, <1>8, <1>12, <1>13 DEF ChainOrder

LEMMA CommitFailsKeeps ==
  ASSUME ~H_ColdStart, ChainKept, NEW e \in H_Entry, H!CommitFails(e)
  PROVE  ChainOrder'
<1>0. /\ Leads(H_rq[e]) /\ Writes(H_rq[e])
      /\ UNCHANGED <<H_disk, H_waiting, H_arrived, H_edited>>
  BY DEF H!CommitFails, Leads, Writes
<1>1. /\ H!TypeOK /\ ChainOrder /\ H_rq[e].ledger = 1 /\ 1 \in H!Ledger
      /\ H_disk \in Seq(H!Row) /\ H_open[1] \in Seq(H!Row)
      /\ H_open \in [H!Ledger -> Seq(H!Row)] /\ Rows \in Seq(H!Row)
      /\ \A f \in H_Entry : Leads(H_rq[f]) => f = e
  BY <1>0, WriterIs
<1>2. /\ OthersAsWere(e) /\ H_rq'[e].pc = "settle"
      /\ H_rq'[e].batch = H_rq[e].batch /\ H_rq'[e].blocks = <<>>
      /\ H_rq'[e].done = H_rq[e].done /\ H_rq'[e].row = H_rq[e].row
  BY <1>0, <1>1, CommitFailsIs
<1>3. H_open'[1] = <<>> /\ Waiters' = Waiters
  BY <1>0, <1>1 DEF H!CommitFails, Waiters
<1>4. /\ Rows' = H_disk /\ DOMAIN H_disk = 1 .. Len(H_disk) /\ Len(H_disk) \in Nat
      /\ \A i \in DOMAIN H_disk : i \in DOMAIN Rows /\ Rows[i] = H_disk[i]
  BY <1>0, <1>1, <1>3 DEF Rows
<1>5. JoinedOnce' /\ QueueInTurn' /\ NotYetDone'
  BY <1>0, <1>2, LeaderKeepsOrder DEF Carries
<1>6. \A f \in H_Entry : Carries(H_rq'[f]) => f = e
  BY <1>1, <1>2 DEF OthersAsWere, Carries, Leads
<1>7. Transaction'
  BY <1>2, <1>3, <1>6 DEF Transaction, Carries
<1>8. ASSUME Intact PROVE Intact'
  <2>1. ASSUME NEW i \in DOMAIN H_disk PROVE Link(H_disk, i)
    <3>1. Link(Rows, i) /\ Rows[i] = H_disk[i]
      BY <1>4, <1>8 DEF Intact
    <3>2. i # 1 => Rows[i - 1] = H_disk[i - 1]
      BY <1>4
    <3> QED BY <3>1, <3>2 DEF Link
  <2>2. \A f \in H_Entry : H_rq'[f].row = H_rq[f].row
    BY <1>2 DEF OthersAsWere
  <2>3. \A f \in H_Entry : ~Writes(H_rq'[f]) /\ H_rq'[f].pc # "insert"
    BY <1>2, <1>6 DEF Writes, Carries
  <2>4. DiskInTurn'
    BY <1>0, <1>3, <1>8, <2>3 DEF Intact, DiskInTurn
  <2>5. \A f \in H_Entry : H_rq'[f].pc = "settle" => H_rq'[f].blocks = <<>>
    BY <1>2, <1>6 DEF Carries
  <2> QED BY <1>0, <1>4, <1>8, <2>1, <2>2, <2>3, <2>4, <2>5 DEF Intact
<1> QED BY <1>0, <1>1, <1>5, <1>7, <1>8 DEF ChainOrder

LEMMA SettleKeeps ==
  ASSUME ~H_ColdStart, ChainKept, NEW e \in H_Entry, H!Settle(e)
  PROVE  ChainOrder'
<1>0. /\ H_rq[e].pc = "settle" /\ Leads(H_rq[e]) /\ Carries(H_rq[e])
      /\ UNCHANGED <<H_disk, H_open, H_waiting, H_arrived, H_edited>>
  BY DEF H!Settle, Leads, Carries
<1>1. /\ H!TypeOK /\ ChainOrder /\ Paired
      /\ H_rq[e].batch \in Seq(H_Entry) /\ H_rq[e].blocks \in Seq(H!Row)
      /\ H_arrived \in Seq(H_Entry) /\ Waiters' = Waiters /\ Rows' = Rows
      /\ \A f \in H_Entry : Leads(H_rq[f]) => f = e
      /\ \A j \in DOMAIN Waiters : Waiters[j] \in H_Entry
  <2>1. H_waiting \in [H!Ledger -> Seq(H_Entry)] /\ 1 \in H!Ledger
    BY DEF ChainKept, ChainTypes, H!TypeOK, H!Ledger
  <2>2. Waiters \in Seq(H_Entry)
    BY <2>1 DEF Waiters
  <2> QED BY <1>0, <2>2, WriterIs
          DEF ChainKept, ChainTypes, Waiters, Rows, H!TypeOK
<1>2. H_rq'[e].pc = "settled"
  BY <1>1, SettleIs
<1>3. ASSUME NEW f \in H_Entry
      PROVE  /\ \/ f = e \/ H_rq'[f].pc = H_rq[f].pc
                \/ H_rq[f].pc = "asleep" /\ H_rq'[f].pc = "loop"
             /\ H_rq'[f].batch = H_rq[f].batch
             /\ \/ /\ \A k \in DOMAIN H_rq[e].batch : H_rq[e].batch[k] # f
                   /\ H_rq'[f].done = H_rq[f].done /\ H_rq'[f].row = H_rq[f].row
                \/ \E k \in DOMAIN H_rq[e].batch :
                     /\ H_rq[e].batch[k] = f /\ H_rq'[f].done
                     /\ H_rq'[f].row = IF H_rq[e].blocks = <<>> THEN <<>>
                                       ELSE <<H_rq[e].blocks[k]>>
  BY <1>1, SettleIs
<1>4. \A f \in H_Entry : ~Carries(H_rq'[f]) /\ ~Writes(H_rq'[f])
  BY <1>1, <1>2, <1>3 DEF Carries, Writes, Leads
<1>5. \A f \in H_Entry : Carries(H_rq[f]) => f = e
  BY <1>1 DEF Carries, Leads
<1>6. JoinedOnce'
  BY <1>0, <1>1, <1>2, <1>3 DEF ChainOrder, JoinedOnce
<1>7. QueueInTurn'
  BY <1>0, <1>1, <1>4 DEF ChainOrder, QueueInTurn
<1>8. NotYetDone'
  <2>1. /\ InTurn(H_arrived, H_rq[e].batch)
        /\ \A k \in DOMAIN H_rq[e].batch, j \in DOMAIN Waiters :
             Ahead(H_arrived, H_rq[e].batch[k], Waiters[j])
        /\ \A m, n \in DOMAIN H_arrived : H_arrived[m] = H_arrived[n] => m = n
        /\ \A k \in DOMAIN H_rq[e].batch : ~H_rq[H_rq[e].batch[k]].done
        /\ \A j \in DOMAIN Waiters : ~H_rq[Waiters[j]].done
    BY <1>0, <1>1 DEF ChainOrder, QueueInTurn, JoinedOnce, NotYetDone
  <2>2. ASSUME NEW j \in DOMAIN Waiters'
        PROVE  ~H_rq'[Waiters'[j]].done
    <3>1. Waiters[j] \in H_Entry /\ ~H_rq[Waiters[j]].done
      BY <1>1, <2>1, <2>2
    <3>2. \A k \in DOMAIN H_rq[e].batch : H_rq[e].batch[k] # Waiters[j]
      BY <1>1, <2>1, <2>2, NotAheadOfSelf
    <3>3. ~H_rq'[Waiters[j]].done
      BY ZenonT(60), <1>3, <3>1, <3>2
    <3> QED BY <1>1, <3>3
  <2>3. ASSUME NEW f \in H_Entry
        PROVE  /\ H_rq'[f].done => InLine(H_arrived', f)
               /\ H_rq'[f].row # <<>> => H_rq'[f].done
               /\ H_rq'[f].pc = "returned" => H_rq'[f].row # <<>>
    <3>1. /\ H_rq[f].done => InLine(H_arrived, f)
          /\ H_rq[f].row # <<>> => H_rq[f].done
          /\ H_rq[f].pc = "returned" => H_rq[f].row # <<>>
      BY <1>1 DEF ChainOrder, NotYetDone
    <3>2. CASE /\ \A k \in DOMAIN H_rq[e].batch : H_rq[e].batch[k] # f
               /\ H_rq'[f].done = H_rq[f].done /\ H_rq'[f].row = H_rq[f].row
      BY <1>0, <1>2, <1>3, <3>1, <3>2
    <3>3. CASE \E k \in DOMAIN H_rq[e].batch :
                 H_rq[e].batch[k] = f /\ H_rq'[f].done
      <4>1. PICK k \in DOMAIN H_rq[e].batch : H_rq[e].batch[k] = f /\ H_rq'[f].done
        BY <3>3
      <4>2. InLine(H_arrived', f)
        BY <1>0, <2>1, <4>1 DEF InTurn
      <4>3. H_rq[f].pc # "returned"
        BY <2>1, <3>1, <4>1
      <4> QED BY <1>2, <1>3, <4>1, <4>2, <4>3
    <3> QED BY <1>3, <3>2, <3>3
  <2> QED BY <1>4, <2>2, <2>3 DEF NotYetDone
<1>9. Transaction'
  <2>1. H_open[1] = <<>>
    <3>1. \A f \in H_Entry : H_rq[f].pc # "insert"
      BY <1>0, <1>5 DEF Carries
    <3> QED BY <1>1, <3>1 DEF ChainOrder, Transaction
  <2> QED BY <1>0, <1>4, <2>1 DEF Transaction, Carries
<1>10. ASSUME Intact PROVE Intact'
  <2>1. DiskInTurn'
    BY <1>0, <1>1, <1>4, <1>10 DEF Intact, DiskInTurn
  <2>2. ASSUME NEW f \in H_Entry, H_rq'[f].row # <<>>
        PROVE  H_rq'[f].row[1].event = f /\ InFile(H_disk', H_rq'[f].row[1])
    <3>1. CASE H_rq'[f].row = H_rq[f].row
      BY <1>0, <1>10, <2>2, <3>1 DEF Intact
    <3>2. CASE \E k \in DOMAIN H_rq[e].batch :
                 /\ H_rq[e].batch[k] = f
                 /\ H_rq'[f].row = IF H_rq[e].blocks = <<>> THEN <<>>
                                   ELSE <<H_rq[e].blocks[k]>>
      <4>1. PICK k \in DOMAIN H_rq[e].batch :
              /\ H_rq[e].batch[k] = f /\ H_rq[e].blocks # <<>>
              /\ H_rq'[f].row = <<H_rq[e].blocks[k]>>
        BY <2>2, <3>2
      <4>2. /\ Follow(H_rq[e].blocks, H_rq[e].batch)
            /\ Len(H_rq[e].blocks) = Len(H_rq[e].batch)
        BY <1>0, <1>1, <4>1 DEF ChainOrder, Transaction
      <4>3. k \in DOMAIN H_rq[e].blocks
        BY <1>1, <4>1, <4>2
      <4>4. H_rq[e].blocks[k].event = f /\ InFile(H_disk, H_rq[e].blocks[k])
        BY <1>0, <1>10, <4>1, <4>2, <4>3 DEF Follow, Intact
      <4>5. H_rq'[f].row[1] = H_rq[e].blocks[k]
        BY <4>1
      <4> QED BY <1>0, <4>4, <4>5
    <3> QED BY <1>3, <3>1, <3>2
  <2>3. \A f \in H_Entry : H_rq'[f].pc # "insert" /\ H_rq'[f].pc # "settle"
    BY <1>4 DEF Carries
  <2> QED BY <1>1, <1>10, <2>1, <2>2, <2>3 DEF Intact
<1> QED BY <1>0, <1>1, <1>6, <1>7, <1>8, <1>9, <1>10 DEF ChainOrder

LEMMA CrashKeeps ==
  ASSUME ~H_ColdStart, ChainKept, H!Crash
  PROVE  ChainOrder'
<1>0. /\ ChainOrder /\ UNCHANGED <<H_disk, H_arrived, H_edited>>
      /\ H_disk \in Seq(H!Row) /\ 1 \in H!Ledger
      /\ H_open[1] \in Seq(H!Row)
  <2>1. H!TypeOK /\ ChainOrder
    BY DEF ChainKept, ChainTypes
  <2>2. H_open \in [H!Ledger -> Seq(H!Row)] /\ 1 \in H!Ledger
        /\ H_disk \in Seq(H!Row)
    BY <2>1 DEF H!TypeOK, H!Ledger
  <2> QED BY <2>1, <2>2 DEF H!Crash
<1>1. Waiters' = <<>> /\ H_open'[1] = <<>> /\ DOMAIN Waiters' = {}
  BY <1>0 DEF H!Crash, Waiters
<1>2. ASSUME NEW f \in H_Entry
      PROVE  \/ H_rq[f].pc \in {"new", "returned", "failed"} /\ H_rq'[f] = H_rq[f]
             \/ H_rq'[f].pc = "lost" /\ H_rq'[f].row = <<>> /\ ~H_rq'[f].done
  BY DEF H!Crash, H!Fresh
<1>3. \A f \in H_Entry : ~Carries(H_rq'[f]) /\ ~Writes(H_rq'[f])
  BY <1>2 DEF Carries, Writes
<1>4. JoinedOnce'
  BY <1>0, <1>2 DEF ChainOrder, JoinedOnce
<1>5. QueueInTurn'
  BY <1>1, <1>3 DEF QueueInTurn, InTurn
<1>6. NotYetDone'
  BY <1>0, <1>1, <1>2, <1>3 DEF ChainOrder, NotYetDone
<1>7. Transaction'
  BY <1>1, <1>3 DEF Transaction, Carries
<1>8. /\ Rows' = H_disk /\ DOMAIN H_disk = 1 .. Len(H_disk) /\ Len(H_disk) \in Nat
      /\ \A i \in DOMAIN H_disk : i \in DOMAIN Rows /\ Rows[i] = H_disk[i]
  BY <1>0, <1>1 DEF Rows
<1>9. ASSUME Intact PROVE Intact'
  <2>1. ASSUME NEW i \in DOMAIN H_disk PROVE Link(H_disk, i)
    <3>1. Link(Rows, i) /\ Rows[i] = H_disk[i]
      BY <1>8, <1>9 DEF Intact
    <3>2. i # 1 => Rows[i - 1] = H_disk[i - 1]
      BY <1>8
    <3> QED BY <3>1, <3>2 DEF Link
  <2>2. DiskInTurn'
    BY <1>0, <1>1, <1>3, <1>9 DEF Intact, DiskInTurn
  <2>3. \A f \in H_Entry : H_rq'[f].pc # "insert" /\ H_rq'[f].pc # "settle"
    BY <1>3 DEF Carries
  <2> QED BY <1>0, <1>2, <1>8, <1>9, <2>1, <2>2, <2>3 DEF Intact
<1> QED BY <1>0, <1>4, <1>5, <1>6, <1>7, <1>9 DEF ChainOrder

\* Before an edit the rows link, and no transaction is open.
LEMMA EditableIs ==
  ASSUME ChainKept, NEW i \in DOMAIN H_disk, H!Editable(i)
  PROVE  /\ ChainOrder /\ H_disk \in Seq(H!Row)
         /\ \A k \in DOMAIN H_disk : Link(H_disk, k) /\ ~H!Broken(H_disk, k)
<1>1. /\ H!TypeOK /\ ChainOrder /\ H_edited.kind = "none" /\ H_open[1] = <<>>
      /\ 1 \in H!Ledger
  BY DEF ChainKept, ChainTypes, H!Editable, H!Ledger
<1>2. H_disk \in Seq(H!Row) /\ Rows = H_disk
  BY <1>1 DEF H!TypeOK, Rows
<1>3. \A k \in DOMAIN H_disk : Link(H_disk, k)
  BY <1>1, <1>2 DEF ChainOrder, Intact
<1> QED BY <1>1, <1>2, <1>3 DEF Link, H!Broken, H!ComputeHash, H!Genesis

LEMMA EditRowKeeps ==
  ASSUME ~H_ColdStart, ChainKept, NEW i \in DOMAIN H_disk, H!EditRow(i)
  PROVE  ChainOrder'
<1>0. /\ UNCHANGED <<H_open, H_waiting, H_rq, H_arrived>>
      /\ H_edited'.kind = "row" /\ H_edited'.at = H_disk[i].id
      /\ H!Editable(i)
  BY DEF H!EditRow
<1>1. /\ ChainOrder /\ H_disk \in Seq(H!Row)
      /\ \A k \in DOMAIN H_disk : Link(H_disk, k) /\ ~H!Broken(H_disk, k)
  BY <1>0, EditableIs
<1>2. JoinedOnce' /\ QueueInTurn' /\ NotYetDone' /\ Transaction'
  BY <1>0, <1>1 DEF ChainOrder, JoinedOnce, QueueInTurn, NotYetDone, Transaction, Waiters
<1>3. /\ DOMAIN H_disk = 1 .. Len(H_disk) /\ Len(H_disk) \in Nat
      /\ H_disk[i] \in H!Row /\ Link(H_disk, i)
  BY <1>1
<1>4. /\ H_disk[i].prev \in H!Hash /\ H_disk[i].event \in H_Entry
      /\ H_disk[i].hash = Append(H_disk[i].prev, H_disk[i].event)
      /\ H_disk[i].prev # <<H_Forged>> /\ H_disk[i].event # H_Forged
      /\ H_disk[i].prev = IF i = 1 THEN <<>> ELSE H_disk[i - 1].hash
  BY <1>3 DEF Link, H!Row
<1>5. PICK row : /\ H_disk' = [H_disk EXCEPT ![i] = row]
                 /\ row \in {[H_disk[i] EXCEPT !.event = H_Forged],
                             [H_disk[i] EXCEPT !.prev = <<H_Forged>>],
                             [H_disk[i] EXCEPT !.hash = <<H_Forged>>]}
  BY DEF H!EditRow
<1>6. /\ row.id = H_disk[i].id
      /\ \/ /\ row.prev = H_disk[i].prev /\ row.event = H_Forged
            /\ row.hash = H_disk[i].hash
         \/ row.prev = <<H_Forged>>
         \/ /\ row.prev = H_disk[i].prev /\ row.event = H_disk[i].event
            /\ row.hash = <<H_Forged>>
  BY <1>3, <1>5 DEF H!Row
<1>7. /\ DOMAIN H_disk' = DOMAIN H_disk /\ H_disk'[i] = row
      /\ \A k \in DOMAIN H_disk : k # i => H_disk'[k] = H_disk[k]
  BY <1>1, <1>5
<1>8. H!Broken(H_disk', i)
  <2>1. i # 1 => i - 1 \in DOMAIN H_disk /\ i - 1 # i
    BY <1>3
  <2>2. CASE row.prev = <<H_Forged>>
    <3>1. row.prev # IF i = 1 THEN <<>> ELSE H_disk'[i - 1].hash
      BY <1>4, <1>7, <2>1, <2>2
    <3> QED BY <1>7, <3>1 DEF H!Broken, H!Genesis
  <2>3. CASE /\ row.prev = H_disk[i].prev /\ row.event = H_Forged
             /\ row.hash = H_disk[i].hash
    <3>1. Append(H_disk[i].prev, H_Forged) # Append(H_disk[i].prev, H_disk[i].event)
      <4>1. H_disk[i].prev \in Seq(H!Event) /\ H_Forged \in H!Event
            /\ H_disk[i].event \in H!Event
        BY <1>4 DEF H!Hash, H!Event
      <4>2. /\ Append(H_disk[i].prev, H_Forged)[Len(H_disk[i].prev) + 1] = H_Forged
            /\ Append(H_disk[i].prev, H_disk[i].event)[Len(H_disk[i].prev) + 1]
                 = H_disk[i].event
        BY <4>1
      <4> QED BY <1>4, <4>2
    <3> QED BY <1>4, <1>7, <2>3, <3>1 DEF H!Broken, H!ComputeHash
  <2>4. CASE /\ row.prev = H_disk[i].prev /\ row.event = H_disk[i].event
             /\ row.hash = <<H_Forged>>
    <3>1. Append(row.prev, row.event) # <<H_Forged>>
      BY <1>4, <2>4, NotForged
    <3> QED BY <1>7, <2>4, <3>1 DEF H!Broken, H!ComputeHash
  <2> QED BY <1>6, <2>2, <2>3, <2>4
<1>9. ASSUME NEW j \in DOMAIN H_disk', j < i PROVE ~H!Broken(H_disk', j)
  <2>1. /\ j \in DOMAIN H_disk /\ H_disk'[j] = H_disk[j] /\ ~H!Broken(H_disk, j)
        /\ j # 1 => H_disk'[j - 1] = H_disk[j - 1]
    BY <1>1, <1>3, <1>7, <1>9
  <2> QED BY <2>1 DEF H!Broken
<1>10. Named(H_disk', H_edited'.at)
  BY <1>0, <1>6, <1>7, <1>8, <1>9 DEF Named
<1> QED BY <1>0, <1>2, <1>10 DEF ChainOrder

LEMMA RemoveRowKeeps ==
  ASSUME ~H_ColdStart, ChainKept, NEW i \in DOMAIN H_disk, H!RemoveRow(i)
  PROVE  ChainOrder'
<1>0. /\ UNCHANGED <<H_open, H_waiting, H_rq, H_arrived>>
      /\ H_edited'.kind = "removed"
      /\ H_edited'.at = IF i = Len(H_disk) THEN 0 ELSE H_disk[i + 1].id
      /\ H_disk' = SubSeq(H_disk, 1, i - 1) \o SubSeq(H_disk, i + 1, Len(H_disk))
      /\ H!Editable(i)
  BY DEF H!RemoveRow, H!RemoveAt
<1>1. /\ ChainOrder /\ H_disk \in Seq(H!Row)
      /\ \A k \in DOMAIN H_disk : Link(H_disk, k) /\ ~H!Broken(H_disk, k)
  BY <1>0, EditableIs
<1>2. JoinedOnce' /\ QueueInTurn' /\ NotYetDone' /\ Transaction'
  BY <1>0, <1>1 DEF ChainOrder, JoinedOnce, QueueInTurn, NotYetDone, Transaction, Waiters
<1>3. /\ DOMAIN H_disk = 1 .. Len(H_disk) /\ Len(H_disk) \in Nat
      /\ i \in 1 .. Len(H_disk)
      /\ \A k \in DOMAIN H_disk : H_disk[k] \in H!Row
  BY <1>1
<1>4. ASSUME H_edited'.at # 0 PROVE Named(H_disk', H_edited'.at)
  <2>1. i # Len(H_disk) /\ i + 1 \in 1 .. Len(H_disk) /\ H_edited'.at = H_disk[i + 1].id
    BY <1>0, <1>3, <1>4
  <2>2. /\ DOMAIN H_disk' = 1 .. Len(H_disk) - 1
        /\ \A k \in 1 .. i - 1 : H_disk'[k] = H_disk[k]
        /\ H_disk'[i] = H_disk[i + 1]
    <3>1. LET t == SubSeq(H_disk, 1, i - 1)
                     \o SubSeq(H_disk, i + 1, Len(H_disk))
          IN  /\ DOMAIN t = 1 .. Len(H_disk) - 1
              /\ \A k \in 1 .. i - 1 : t[k] = H_disk[k]
              /\ t[i] = H_disk[i + 1]
      BY ZenonT(60), <1>1, <1>3, <2>1, CutOut
    <3> QED BY ZenonT(60), <1>0, <3>1
  <2>3. H!Broken(H_disk', i)
    <3>1. /\ Link(H_disk, i + 1) /\ Link(H_disk, i) /\ (i + 1) - 1 = i /\ i + 1 # 1
          /\ H_disk[i].prev \in H!Hash /\ H_disk[i].event \in H_Entry
      <4>1. Link(H_disk, i + 1) /\ Link(H_disk, i) /\ H_disk[i] \in H!Row
        BY <1>1, <1>3, <2>1
      <4>2. (i + 1) - 1 = i /\ i + 1 # 1
        BY <1>3
      <4>3. H_disk[i].prev \in H!Hash
        BY <4>1 DEF H!Row
      <4>4. H_disk[i].event \in H_Entry
        BY <4>1 DEF Link
      <4> QED BY <4>1, <4>2, <4>3, <4>4
    <3>2. H_disk[i + 1].prev = Append(H_disk[i].prev, H_disk[i].event)
      BY <3>1 DEF Link
    <3>3. /\ H_disk[i].prev \in Seq(H!Event) /\ H_disk[i].event \in H!Event
      BY <3>1 DEF H!Hash, H!Event
    <3>4. Len(H_disk[i + 1].prev) = Len(H_disk[i].prev) + 1
          /\ Len(H_disk[i].prev) \in Nat
      BY <3>2, <3>3
    <3>5. H_disk[i + 1].prev # H_disk[i].prev
      BY <3>4
    <3>6. H_disk[i].prev = IF i = 1 THEN <<>> ELSE H_disk'[i - 1].hash
      <4>1. i # 1 => i - 1 \in 1 .. i - 1
        BY <1>3
      <4> QED BY <2>2, <3>1, <4>1 DEF Link
    <3> QED BY <2>2, <3>5, <3>6 DEF H!Broken, H!Genesis
  <2>4. ASSUME NEW j \in DOMAIN H_disk', j < i PROVE ~H!Broken(H_disk', j)
    <3>1. j \in 1 .. i - 1 /\ j \in DOMAIN H_disk /\ (j # 1 => j - 1 \in 1 .. i - 1)
      BY <1>3, <2>2, <2>4
    <3>2. /\ H_disk'[j] = H_disk[j] /\ ~H!Broken(H_disk, j)
          /\ j # 1 => H_disk'[j - 1] = H_disk[j - 1]
      BY <1>1, <2>2, <3>1
    <3> QED BY <3>2 DEF H!Broken
  <2>5. i \in DOMAIN H_disk'
    BY <1>3, <2>1, <2>2
  <2> QED BY <2>1, <2>2, <2>3, <2>4, <2>5 DEF Named
<1> QED BY <1>0, <1>2, <1>4 DEF ChainOrder

LEMMA ChainInit == ~H_ColdStart /\ H!Init => ChainKept
<1> SUFFICES ASSUME ~H_ColdStart, H!Init PROVE ChainKept
  OBVIOUS
<1>1. ChainTypes
  BY ChainTypeInit
<1>2. 1 \in H!Ledger
  BY DEF H!Ledger
<1>3. /\ H_disk = <<>> /\ H_arrived = <<>> /\ H_waiting[1] = <<>> /\ H_open[1] = <<>>
      /\ \A e \in H_Entry : /\ H_rq[e].pc = "new" /\ H_rq[e].row = <<>>
                            /\ ~H_rq[e].done
      /\ H_made = 1 /\ H_shared = 1
      /\ H_edited.kind = "none" /\ H_edited.at = 0
  BY <1>2 DEF H!Init, H!Fresh, H!Start
<1>4. \A e \in H_Entry : ~Leads(H_rq[e]) /\ ~Carries(H_rq[e]) /\ ~Writes(H_rq[e])
  BY <1>3 DEF Leads, Carries, Writes
<1>5. OneLedger /\ OneLeader
  BY <1>3, <1>4 DEF OneLedger, OneLeader
<1>6. JoinedOnce /\ QueueInTurn /\ NotYetDone /\ Transaction
  BY <1>3, <1>4
  DEF JoinedOnce, QueueInTurn, NotYetDone, Transaction, InLine, InTurn, Waiters
<1>7. Intact
  BY <1>3, <1>4 DEF Intact, DiskInTurn, Rows, Waiters
<1> QED BY <1>1, <1>3, <1>5, <1>6, <1>7 DEF ChainKept, ChainOrder

LEMMA ChainStep == ~H_ColdStart /\ ChainKept /\ H!Next => ChainKept'
<1> SUFFICES ASSUME ~H_ColdStart, ChainKept, H!Next PROVE ChainKept'
  OBVIOUS
<1>1. ChainTypes' /\ OneLedger' /\ OneLeader'
  BY ChainTypeStep, LedgerStep, OneStep DEF ChainKept, ChainTypes
<1>2. ASSUME NEW e \in H_Entry, H!GetLedger(e)
      PROVE  FALSE
  BY <1>2 DEF H!GetLedger, H!Make, H!TakeShared, OneLedger, ChainKept
<1>3. ChainOrder'
  BY <1>2, MildSteps, JoinKeeps, LeadKeeps, ReadTipKeeps, InsertKeeps, CommitKeeps,
     CommitFailsKeeps, SettleKeeps, CrashKeeps, EditRowKeeps, RemoveRowKeeps
  DEF H!Next, H!AddBlock, H!CommitBatch
<1> QED BY <1>1, <1>3 DEF ChainKept

\* The least of a set of numbers, as the community module defines it.
LEMMA LeastOf ==
  ASSUME NEW S \in SUBSET Nat, NEW k \in S, \A j \in S : k <= j
  PROVE  H!Min(S) = k
<1>1. \A x \in S : (\A y \in S : x <= y) => x = k
  OBVIOUS
<1> QED BY <1>1 DEF H!Min

LEMMA ChainTells ==
  ASSUME ChainKept
  PROVE  /\ H!ChainUnbroken /\ H!ArrivalOrder
         /\ H!ReturnsItsBlock /\ H!EditNamed
<1> DEFINE bad == {i \in DOMAIN H_disk : H!Broken(H_disk, i)}
<1>0. /\ H!TypeOK /\ ChainOrder /\ H_disk \in Seq(H!Row)
      /\ H_open[1] \in Seq(H!Row) /\ H_rq \in [H_Entry -> H!Call]
  BY DEF ChainKept, ChainTypes, H!TypeOK, H!Ledger
<1>1. DOMAIN H_disk = 1 .. Len(H_disk) /\ Len(H_disk) \in Nat
  BY <1>0
<1>2. H!VerifyChain.valid <=> bad = {}
  BY DEF H!VerifyChain
<1>3. bad # {} => H!VerifyChain.invalid = H_disk[H!Min(bad)].id
  BY DEF H!VerifyChain
<1>4. ASSUME H_edited.kind = "none"
      PROVE  /\ \A i \in DOMAIN H_disk : Link(H_disk, i)
             /\ Intact
  <2>1. Intact
    BY <1>0, <1>4 DEF ChainOrder
  <2>2. ASSUME NEW i \in DOMAIN H_disk PROVE Link(H_disk, i)
    <3>1. /\ Rows[i] = H_disk[i] /\ i \in DOMAIN Rows
          /\ i # 1 => Rows[i - 1] = H_disk[i - 1]
      BY <1>0, <1>1, ConcatIs DEF Rows
    <3>2. Link(Rows, i)
      BY <2>1, <3>1 DEF Intact
    <3> QED BY <3>1, <3>2 DEF Link
  <2> QED BY <2>1, <2>2
<1>5. H!ChainUnbroken
  <2> SUFFICES ASSUME H_edited.kind = "none"
               PROVE  bad = {} /\ \A i \in DOMAIN H_disk : H_disk[i].id = i
    BY <1>2 DEF H!ChainUnbroken
  <2> QED BY <1>4 DEF Link, H!Broken, H!ComputeHash, H!Genesis
<1>6. H!ArrivalOrder
  BY <1>4 DEF H!ArrivalOrder, Intact, DiskInTurn, Ahead
<1>7. H!ReturnsItsBlock
  <2> SUFFICES ASSUME H_edited.kind = "none", NEW e \in H_Entry,
                      H_rq[e].pc = "returned"
               PROVE  /\ Head(H_rq[e].row).event = e
                      /\ H!Contains(H_disk, Head(H_rq[e].row))
    BY DEF H!ReturnsItsBlock
  <2>1. H_rq[e].row # <<>> /\ H_rq[e].row \in Seq(H!Row)
    BY <1>0, CallIs DEF ChainOrder, NotYetDone
  <2>2. H_rq[e].row[1].event = e /\ InFile(H_disk, H_rq[e].row[1])
    BY <1>4, <2>1 DEF Intact
  <2>3. Head(H_rq[e].row) = H_rq[e].row[1]
    BY <2>1
  <2> QED BY <1>1, <2>2, <2>3 DEF InFile, H!Contains
<1>8. H!EditNamed
  <2> SUFFICES ASSUME H_edited.at # 0
               PROVE  bad # {} /\ H_disk[H!Min(bad)].id = H_edited.at
    BY <1>2, <1>3 DEF H!EditNamed
  <2>1. PICK k \in DOMAIN H_disk :
          /\ H!Broken(H_disk, k) /\ H_disk[k].id = H_edited.at
          /\ \A j \in DOMAIN H_disk : j < k => ~H!Broken(H_disk, j)
    BY <1>0 DEF ChainOrder, Named
  <2>2. k \in bad /\ bad \in SUBSET Nat /\ \A j \in bad : k <= j
    BY <1>1, <2>1
  <2>3. H!Min(bad) = k
    BY <2>2, LeastOf
  <2> QED BY <2>1, <2>2, <2>3
<1> QED BY <1>5, <1>6, <1>7, <1>8

ChainPart == part = "chain" => ChainKept

LEMMA FreezeChain == ASSUME ~H_ColdStart PROVE FreezeSpec => []ChainPart
<1>1. FreezeInit => ChainPart
  BY ChainInit DEF FreezeInit, ChainPart
<1>2. ChainPart /\ [FreezeNext]_FreezeVars => ChainPart'
  <2> SUFFICES ASSUME ChainPart, [FreezeNext]_FreezeVars, part' = "chain"
               PROVE  ChainKept'
    BY DEF ChainPart
  <2>1. part = "chain" /\ ChainKept
    BY DEF ChainPart, FreezeNext, FreezeVars
  <2>2. CASE H!Next
    BY <2>1, <2>2, ChainStep
  <2>3. CASE UNCHANGED H_vars
    BY <2>1, <2>3
    DEF H_vars, ChainKept, ChainTypes, H!TypeOK, HasLedger, Paired, OneLedger,
        OneLeader, ChainOrder, JoinedOnce, QueueInTurn, NotYetDone, Transaction,
        Intact, DiskInTurn, Waiters, Rows, H!TipOf
  <2> QED BY <2>1, <2>2, <2>3 DEF FreezeNext, FreezeVars
<1> QED BY <1>1, <1>2, PTL DEF FreezeSpec

\* However many calls overlap, fail or are lost in crashes, a file only the
\* service has written verifies and is in the order of the calls, once the
\* ledger object was there before them (HashChainLedger.add_block, _commit).
THEOREM ChainIsInOrder ==
  ASSUME ~H_ColdStart PROVE FreezeSpec => []ChainInOrder
<1>1. ChainPart => ChainInOrder
  BY ChainTells DEF ChainPart, ChainInOrder
<1> QED BY <1>1, FreezeChain, PTL

\* A call returns only its own durable block, and verify_chain names the first
\* block that no longer fits after any one edit of the file.
THEOREM ChainTellsTheTruth ==
  ASSUME ~H_ColdStart PROVE FreezeSpec => []ChainTellsTrue
<1>1. ChainPart => ChainTellsTrue
  BY ChainTells DEF ChainPart, ChainTellsTrue
<1> QED BY <1>1, FreezeChain, PTL

-------------------------------------------------------------------------------
(* The chain implements the log its callers are promised (AppendLog), while *)
(* nobody edits the file.                                                  *)

\* The call has joined and waits for its answer, or leads.
Inside(call) ==
  call.pc \in {"loop", "asleep", "tip", "insert", "settle", "settled"}
InHand ==
  /\ \A j \in DOMAIN Waiters : Inside(H_rq[Waiters[j]])
  /\ \A e \in H_Entry : Carries(H_rq[e]) =>
       \A k \in DOMAIN H_rq[e].batch : Inside(H_rq[H_rq[e].batch[k]])

InDisk(a) == \E i \in DOMAIN H_disk : H_disk[i].event = a
\* A call that is answered without a block has none, and one about to be has
\* none either.
NotInFile ==
  \A e \in H_Entry :
    /\ H_rq[e].done /\ H_rq[e].row = <<>> => ~InDisk(e)
    /\ H_rq[e].pc = "settle" /\ H_rq[e].blocks = <<>> =>
         \A k \in DOMAIN H_rq[e].batch : ~InDisk(H_rq[e].batch[k])

PromiseInv == ChainKept /\ H_edited.kind = "none" /\ InHand /\ NotInFile

LEMMA WaitersAre ==
  ASSUME PromiseInv
  PROVE  /\ Waiters \in Seq(H_Entry) /\ H_rq \in [H_Entry -> H!Call] /\ H!TypeOK
         /\ ChainOrder /\ OneLedger /\ Intact /\ 1 \in H!Ledger
         /\ \A j \in DOMAIN Waiters : Waiters[j] \in H_Entry /\ ~H_rq[Waiters[j]].done
         /\ \A e \in H_Entry : H_rq[e].batch \in Seq(H_Entry)
         /\ \A e \in H_Entry : Carries(H_rq[e]) =>
              \A k \in DOMAIN H_rq[e].batch :
                H_rq[e].batch[k] \in H_Entry /\ ~H_rq[H_rq[e].batch[k]].done
<1>1. /\ H!TypeOK /\ ChainOrder /\ OneLedger /\ 1 \in H!Ledger
  BY DEF PromiseInv, ChainKept, ChainTypes, H!Ledger
<1>2. Waiters \in Seq(H_Entry) /\ H_rq \in [H_Entry -> H!Call]
  BY <1>1 DEF H!TypeOK, Waiters
<1>3. \A e \in H_Entry : H_rq[e].batch \in Seq(H_Entry)
  BY <1>2, CallIs
<1>4. Intact
  BY <1>1 DEF PromiseInv, ChainOrder
<1>5. \A j \in DOMAIN Waiters : Waiters[j] \in H_Entry /\ ~H_rq[Waiters[j]].done
  BY <1>1, <1>2 DEF ChainOrder, NotYetDone
<1>6. \A e \in H_Entry : Carries(H_rq[e]) =>
        \A k \in DOMAIN H_rq[e].batch :
          H_rq[e].batch[k] \in H_Entry /\ ~H_rq[H_rq[e].batch[k]].done
  BY <1>1, <1>3 DEF ChainOrder, NotYetDone
<1> QED BY <1>1, <1>2, <1>3, <1>4, <1>5, <1>6

\* Who is inside and unanswered stays inside, nothing is answered, and nothing
\* new is carried.
LEMMA QuietKeeps ==
  ASSUME PromiseInv, UNCHANGED H_disk, UNCHANGED H_waiting,
         \A f \in H_Entry :
           /\ Inside(H_rq[f]) /\ ~H_rq[f].done => Inside(H_rq'[f])
           /\ H_rq'[f].done /\ H_rq'[f].row = <<>> => H_rq[f].done /\ H_rq[f].row = <<>>
           /\ Carries(H_rq'[f]) => Carries(H_rq[f]) /\ H_rq'[f].batch = H_rq[f].batch
           /\ H_rq'[f].pc = "settle" /\ H_rq'[f].blocks = <<>> =>
                H_rq[f].pc = "settle" /\ H_rq[f].blocks = <<>>
  PROVE  InHand' /\ NotInFile'
<1>1. InHand'
  BY WaitersAre DEF PromiseInv, InHand, Waiters
<1>2. NotInFile'
  BY DEF PromiseInv, NotInFile, InDisk, Carries
<1> QED BY <1>1, <1>2

LEMMA QuietSteps ==
  ASSUME PromiseInv, NEW e \in H_Entry,
         \/ H!Arrive(e) \/ H!Sleep(e) \/ H!Return(e) \/ H!ReadTip(e)
         \/ H!Insert(e) \/ H!StepDown(e)
  PROVE  InHand' /\ NotInFile'
<1>1. UNCHANGED <<H_disk, H_waiting>> /\ H!TypeOK
  BY WaitersAre DEF H!Arrive, H!Sleep, H!Return, H!ReadTip, H!Insert, H!StepDown
<1>2. CASE H!Arrive(e) \/ H!Sleep(e) \/ H!Return(e) \/ H!ReadTip(e) \/ H!Insert(e)
  <2>1. /\ OthersAsWere(e) /\ H_rq'[e].done = H_rq[e].done /\ H_rq'[e].row = H_rq[e].row
        /\ H_rq'[e].batch = H_rq[e].batch
        /\ Inside(H_rq[e]) /\ ~H_rq[e].done => Inside(H_rq'[e])
        /\ Carries(H_rq'[e]) => Carries(H_rq[e])
        /\ H_rq'[e].pc # "settle"
    <3>1. CASE H!Arrive(e)
      <4>1. H_rq[e].pc = "new"
        BY <3>1 DEF H!Arrive
      <4> QED BY <1>1, <3>1, <4>1, ArriveIs DEF Inside, Carries
    <3>2. CASE H!Sleep(e)
      BY <1>1, <3>2, SleepIs DEF Inside, Carries
    <3>3. CASE H!Return(e)
      <4>1. H_rq[e].done
        BY <3>3 DEF H!Return
      <4> QED BY <1>1, <3>3, <4>1, ReturnIs DEF Inside, Carries
    <3>4. CASE H!ReadTip(e)
      <4>1. H_rq[e].pc = "tip"
        BY <3>4 DEF H!ReadTip
      <4> QED BY <1>1, <3>4, <4>1, ReadTipIs DEF Inside, Carries
    <3>5. CASE H!Insert(e)
      <4>1. H_rq[e].pc = "insert"
        BY <3>5 DEF H!Insert
      <4> QED BY <1>1, <3>5, <4>1, InsertIs DEF Inside, Carries
    <3> QED BY <1>2, <3>1, <3>2, <3>3, <3>4, <3>5
  <2> QED BY <1>1, <2>1, QuietKeeps DEF OthersAsWere
<1>3. CASE H!StepDown(e)
  <2>1. /\ \A f \in H_Entry : f # e => WokenFrom(H_rq[f], H_rq'[f])
        /\ H_rq'[e].pc = "loop" /\ H_rq'[e].done = H_rq[e].done
        /\ H_rq'[e].row = H_rq[e].row
    BY <1>1, <1>3, StepDownIs
  <2>2. ASSUME NEW f \in H_Entry
        PROVE  /\ Inside(H_rq[f]) /\ ~H_rq[f].done => Inside(H_rq'[f])
               /\ H_rq'[f].done /\ H_rq'[f].row = <<>> => H_rq[f].done /\ H_rq[f].row = <<>>
               /\ Carries(H_rq'[f]) => Carries(H_rq[f]) /\ H_rq'[f].batch = H_rq[f].batch
               /\ H_rq'[f].pc = "settle" /\ H_rq'[f].blocks = <<>> =>
                    H_rq[f].pc = "settle" /\ H_rq[f].blocks = <<>>
    <3>1. CASE f = e
      BY <2>1, <3>1 DEF Inside, Carries
    <3>2. CASE f # e
      BY <2>1, <3>2 DEF WokenFrom, Inside, Carries
    <3> QED BY <3>1, <3>2
  <2> QED BY <1>1, <2>2, QuietKeeps
<1> QED BY <1>2, <1>3

LEMMA JoinPromises ==
  ASSUME PromiseInv, NEW e \in H_Entry, H!Join(e)
  PROVE  InHand' /\ NotInFile'
<1>1. /\ OthersAsWere(e) /\ H_rq'[e].pc = "loop" /\ H_rq'[e].done = H_rq[e].done
      /\ H_rq'[e].row = H_rq[e].row /\ UNCHANGED H_disk /\ H_rq[e].pc = "ready"
  BY WaitersAre, JoinIs DEF H!Join
<1>2. Waiters' = Append(Waiters, e)
  <2>1. H_rq[e].ledger = 1 /\ 1 \in DOMAIN H_waiting
    BY <1>1, WaitersAre DEF OneLedger, H!TypeOK
  <2> QED BY <2>1 DEF H!Join, Waiters
<1>3. \A f \in H_Entry : Inside(H_rq[f]) => Inside(H_rq'[f])
  BY <1>1 DEF OthersAsWere, Inside
<1>4. ASSUME NEW j \in DOMAIN Waiters' PROVE Inside(H_rq'[Waiters'[j]])
  <2>1. Waiters'[j] = e \/ (j \in DOMAIN Waiters /\ Waiters'[j] = Waiters[j])
    BY <1>2, WaitersAre
  <2>2. Inside(H_rq'[e])
    BY <1>1 DEF Inside
  <2> QED BY <1>3, <2>1, <2>2, WaitersAre DEF PromiseInv, InHand
<1>5. ASSUME NEW f \in H_Entry, Carries(H_rq'[f]), NEW k \in DOMAIN H_rq'[f].batch
      PROVE  Inside(H_rq'[H_rq'[f].batch[k]])
  <2>1. f # e /\ H_rq'[f] = H_rq[f]
    BY <1>1, <1>5 DEF Carries, OthersAsWere
  <2> QED BY <1>3, <1>5, <2>1, WaitersAre DEF PromiseInv, InHand
<1>6. NotInFile'
  BY <1>1 DEF PromiseInv, NotInFile, InDisk, OthersAsWere
<1> QED BY <1>4, <1>5, <1>6 DEF InHand

LEMMA LeadPromises ==
  ASSUME PromiseInv, NEW e \in H_Entry, H!Lead(e)
  PROVE  InHand' /\ NotInFile'
<1> DEFINE n == H!Taken(1)
<1>1. /\ OthersAsWere(e) /\ H_rq'[e].pc = "tip" /\ H_rq'[e].done = H_rq[e].done
      /\ H_rq'[e].row = H_rq[e].row /\ UNCHANGED H_disk /\ H_rq[e].pc = "loop"
  BY WaitersAre, LeadIs DEF H!Lead
<1>2. H_rq[e].ledger = 1 /\ 1 \in DOMAIN H_waiting
  BY <1>1, WaitersAre DEF OneLedger, H!TypeOK
<1>3. H_rq'[e].batch = SubSeq(Waiters, 1, n)
  BY <1>2, WaitersAre, LeadIs DEF Waiters
<1>4. Waiters' = SubSeq(Waiters, n + 1, Len(Waiters))
  BY <1>2 DEF H!Lead, Waiters
<1>5. n \in 0 .. Len(Waiters)
  <2>1. Len(Waiters) \in Nat
    BY WaitersAre
  <2> QED BY <2>1, SmallerOfTwo DEF H!Taken, Waiters
<1> HIDE DEF n
<1>6. /\ \A k \in DOMAIN H_rq'[e].batch :
           k \in DOMAIN Waiters /\ H_rq'[e].batch[k] = Waiters[k]
      /\ \A j \in DOMAIN Waiters' :
           j + n \in DOMAIN Waiters /\ Waiters'[j] = Waiters[j + n]
  BY <1>3, <1>4, <1>5, WaitersAre
<1>7. \A f \in H_Entry : Inside(H_rq[f]) => Inside(H_rq'[f])
  BY <1>1 DEF OthersAsWere, Inside
<1>8. \A j \in DOMAIN Waiters : Inside(H_rq'[Waiters[j]])
  BY <1>7, WaitersAre DEF PromiseInv, InHand
<1>9. ASSUME NEW f \in H_Entry, Carries(H_rq'[f]), NEW k \in DOMAIN H_rq'[f].batch
      PROVE  Inside(H_rq'[H_rq'[f].batch[k]])
  <2>1. CASE f = e
    BY <1>6, <1>8, <1>9, <2>1
  <2>2. CASE f # e
    <3>1. H_rq'[f] = H_rq[f]
      BY <1>1, <2>2 DEF OthersAsWere
    <3> QED BY <1>7, <1>9, <3>1, WaitersAre DEF PromiseInv, InHand
  <2> QED BY <2>1, <2>2
<1>10. NotInFile'
  BY <1>1 DEF PromiseInv, NotInFile, InDisk, OthersAsWere
<1> QED BY <1>6, <1>8, <1>9, <1>10 DEF InHand

LEMMA CrashPromises ==
  ASSUME PromiseInv, H!Crash
  PROVE  InHand' /\ NotInFile'
<1>1. Waiters' = <<>> /\ DOMAIN Waiters' = {} /\ UNCHANGED H_disk
  BY WaitersAre DEF H!Crash, Waiters
<1>2. ASSUME NEW f \in H_Entry
      PROVE  \/ H_rq[f].pc \in {"new", "returned", "failed"} /\ H_rq'[f] = H_rq[f]
             \/ H_rq'[f].pc = "lost" /\ ~H_rq'[f].done
  BY DEF H!Crash, H!Fresh
<1>3. InHand'
  BY <1>1, <1>2 DEF InHand, Carries
<1>4. NotInFile'
  BY <1>1, <1>2 DEF PromiseInv, NotInFile, InDisk
<1> QED BY <1>3, <1>4

\* A call of the batch is not in the file before the commit.
LEMMA NotYetInFile ==
  ASSUME PromiseInv, NEW e \in H_Entry, Writes(H_rq[e]), NEW k \in DOMAIN H_rq[e].batch
  PROVE  ~InDisk(H_rq[e].batch[k])
<1>1. \A i \in DOMAIN H_disk : Ahead(H_arrived, H_disk[i].event, H_rq[e].batch[k])
  BY WaitersAre DEF Intact, DiskInTurn
<1>2. \A m, n \in DOMAIN H_arrived : H_arrived[m] = H_arrived[n] => m = n
  BY WaitersAre DEF ChainOrder, JoinedOnce
<1>3. H_arrived \in Seq(H_Entry)
  BY WaitersAre DEF H!TypeOK
<1> QED BY <1>1, <1>2, <1>3, NotAheadOfSelf DEF InDisk

InDiskNext(a) == \E i \in DOMAIN H_disk' : H_disk'[i].event = a

LEMMA CommitPromises ==
  ASSUME ~H_ColdStart, PromiseInv, NEW e \in H_Entry, H!Commit(e)
  PROVE  InHand' /\ NotInFile'
<1>1. /\ OthersAsWere(e) /\ H_rq'[e].pc = "settle" /\ H_rq'[e].batch = H_rq[e].batch
      /\ H_rq'[e].done = H_rq[e].done /\ H_rq'[e].row = H_rq[e].row
      /\ H_rq'[e].blocks = H_rq[e].blocks
      /\ H_rq[e].pc = "insert" /\ UNCHANGED H_waiting
      /\ Len(H_rq[e].blocks) = Len(H_rq[e].batch)
  BY WaitersAre, CommitIs DEF H!Commit
<1>2. InHand'
  <2>1. \A f \in H_Entry : Inside(H_rq[f]) => Inside(H_rq'[f])
    BY <1>1 DEF OthersAsWere, Inside
  <2>2. \A f \in H_Entry : H_rq'[f].batch = H_rq[f].batch
          /\ (Carries(H_rq'[f]) => Carries(H_rq[f]))
    BY <1>1 DEF OthersAsWere, Carries
  <2> QED BY <1>1, <2>1, <2>2, WaitersAre DEF PromiseInv, InHand, Waiters
<1> DEFINE n == Len(H_disk)
           l == Len(H_rq[e].batch)
<1>3. /\ n \in Nat /\ l \in Nat
      /\ DOMAIN H_disk = 1 .. n /\ DOMAIN H_rq[e].batch = 1 .. l
      /\ DOMAIN H_disk' = 1 .. n + l
      /\ \A i \in 1 .. n : H_disk'[i] = H_disk[i]
      /\ \A k \in 1 .. l : H_disk'[n + k].event = H_rq[e].batch[k]
  BY CommitAppends DEF PromiseInv
<1> HIDE DEF n, l
<1>4. ASSUME NEW a, InDiskNext(a)
      PROVE  InDisk(a) \/ \E k \in DOMAIN H_rq[e].batch : H_rq[e].batch[k] = a
  <2>1. PICK i \in 1 .. n + l : H_disk'[i].event = a
    BY <1>3, <1>4 DEF InDiskNext
  <2>2. CASE i \in 1 .. n
    BY <1>3, <2>1, <2>2 DEF InDisk
  <2>3. CASE i \notin 1 .. n
    <3>1. i - n \in 1 .. l /\ n + (i - n) = i
      BY <1>3, <2>3
    <3> QED BY <1>3, <2>1, <3>1
  <2> QED BY <2>2, <2>3
<1>5. ASSUME NEW f \in H_Entry, H_rq'[f].done, H_rq'[f].row = <<>> PROVE ~InDiskNext(f)
  <2>1. H_rq[f].done /\ H_rq[f].row = <<>>
    BY <1>1, <1>5 DEF OthersAsWere
  <2>2. \A k \in DOMAIN H_rq[e].batch : H_rq[e].batch[k] # f
    BY <1>1, <2>1, WaitersAre DEF Carries
  <2> QED BY <1>4, <2>1, <2>2 DEF PromiseInv, NotInFile
<1>6. ASSUME NEW f \in H_Entry, H_rq'[f].pc = "settle", H_rq'[f].blocks = <<>>,
             NEW k \in DOMAIN H_rq'[f].batch
      PROVE  ~InDiskNext(H_rq'[f].batch[k])
  <2>1. f = e
    <3>1. \A x \in H_Entry : Leads(H_rq[x]) /\ Leads(H_rq[e]) => x = e
      BY DEF PromiseInv, ChainKept, OneLeader
    <3> QED BY <1>1, <1>6, <3>1 DEF OthersAsWere, Leads
  <2>2. l = 0
    BY <1>1, <1>6, <2>1 DEF l
  <2> QED BY <1>1, <1>3, <1>6, <2>1, <2>2
<1>7. NotInFile'
  BY <1>5, <1>6 DEF NotInFile, InDisk, InDiskNext
<1> QED BY <1>2, <1>7

LEMMA CommitFailsPromises ==
  ASSUME PromiseInv, NEW e \in H_Entry, H!CommitFails(e)
  PROVE  InHand' /\ NotInFile'
<1>1. /\ OthersAsWere(e) /\ H_rq'[e].pc = "settle" /\ H_rq'[e].batch = H_rq[e].batch
      /\ H_rq'[e].done = H_rq[e].done /\ H_rq'[e].row = H_rq[e].row
      /\ H_rq[e].pc \in {"tip", "insert"} /\ UNCHANGED <<H_disk, H_waiting>>
  BY WaitersAre, CommitFailsIs DEF H!CommitFails
<1>2. InHand'
  <2>1. \A f \in H_Entry : Inside(H_rq[f]) => Inside(H_rq'[f])
    BY <1>1 DEF OthersAsWere, Inside
  <2>2. \A f \in H_Entry : H_rq'[f].batch = H_rq[f].batch
          /\ (Carries(H_rq'[f]) => Carries(H_rq[f]))
    BY <1>1 DEF OthersAsWere, Carries
  <2> QED BY <1>1, <2>1, <2>2, WaitersAre DEF PromiseInv, InHand, Waiters
<1>3. \A k \in DOMAIN H_rq[e].batch : ~InDisk(H_rq[e].batch[k])
  BY <1>1, NotYetInFile DEF Writes
<1>4. NotInFile'
  BY <1>1, <1>3 DEF PromiseInv, NotInFile, InDisk, OthersAsWere
<1> QED BY <1>2, <1>4

LEMMA SettlePromises ==
  ASSUME PromiseInv, NEW e \in H_Entry, H!Settle(e)
  PROVE  InHand' /\ NotInFile'
<1>1. H_rq[e].pc = "settle" /\ UNCHANGED <<H_disk, H_waiting>> /\ Carries(H_rq[e])
      /\ H!TypeOK /\ Paired
  BY WaitersAre DEF H!Settle, Carries, PromiseInv, ChainKept, ChainTypes
<1>2. H_rq'[e].pc = "settled"
  BY <1>1, SettleIs
<1>3. ASSUME NEW f \in H_Entry
      PROVE  /\ \/ f = e \/ H_rq'[f].pc = H_rq[f].pc
                \/ H_rq[f].pc = "asleep" /\ H_rq'[f].pc = "loop"
             /\ H_rq'[f].batch = H_rq[f].batch
             /\ \/ /\ \A k \in DOMAIN H_rq[e].batch : H_rq[e].batch[k] # f
                   /\ H_rq'[f].done = H_rq[f].done /\ H_rq'[f].row = H_rq[f].row
                \/ \E k \in DOMAIN H_rq[e].batch :
                     /\ H_rq[e].batch[k] = f /\ H_rq'[f].done
                     /\ H_rq'[f].row = IF H_rq[e].blocks = <<>> THEN <<>>
                                       ELSE <<H_rq[e].blocks[k]>>
  BY <1>1, SettleIs
<1>4. \A f \in H_Entry : Leads(H_rq[f]) => f = e
  BY <1>1 DEF PromiseInv, ChainKept, OneLeader, Leads
<1>5. \A f \in H_Entry : ~Carries(H_rq'[f]) /\ (Inside(H_rq[f]) => Inside(H_rq'[f]))
  <2>1. ASSUME NEW f \in H_Entry, f # e
        PROVE  ~Carries(H_rq'[f]) /\ (Inside(H_rq[f]) => Inside(H_rq'[f]))
    <3>1. \/ H_rq'[f].pc = H_rq[f].pc
          \/ H_rq[f].pc = "asleep" /\ H_rq'[f].pc = "loop"
      BY <1>3, <2>1
    <3>2. ~Leads(H_rq[f])
      BY <1>4, <2>1
    <3> QED BY <3>1, <3>2 DEF Carries, Inside, Leads
  <2>2. ~Carries(H_rq'[e]) /\ Inside(H_rq'[e])
    BY <1>2 DEF Carries, Inside
  <2> QED BY <2>1, <2>2
<1>6. InHand'
  BY <1>1, <1>5, WaitersAre DEF PromiseInv, InHand, Waiters
<1>7. ASSUME NEW f \in H_Entry, H_rq'[f].done, H_rq'[f].row = <<>> PROVE ~InDisk(f)
  <2>1. CASE H_rq'[f].done = H_rq[f].done /\ H_rq'[f].row = H_rq[f].row
    BY <1>7, <2>1 DEF PromiseInv, NotInFile
  <2>2. CASE \E k \in DOMAIN H_rq[e].batch :
               /\ H_rq[e].batch[k] = f
               /\ H_rq'[f].row = IF H_rq[e].blocks = <<>> THEN <<>>
                                 ELSE <<H_rq[e].blocks[k]>>
    <3>1. PICK k \in DOMAIN H_rq[e].batch :
            /\ H_rq[e].batch[k] = f
            /\ H_rq'[f].row = IF H_rq[e].blocks = <<>> THEN <<>>
                              ELSE <<H_rq[e].blocks[k]>>
      BY <2>2
    <3>2. H_rq[e].blocks = <<>>
      <4>1. H_rq[e].blocks # <<>> => H_rq'[f].row = <<H_rq[e].blocks[k]>>
        BY <3>1
      <4>2. \A x : <<x>> # <<>>
        OBVIOUS
      <4> QED BY <1>7, <4>1, <4>2
    <3> QED BY <1>1, <3>1, <3>2 DEF PromiseInv, NotInFile
  <2> QED BY <1>3, <2>1, <2>2
<1>8. NotInFile'
  BY <1>1, <1>5, <1>7 DEF NotInFile, InDisk, Carries
<1> QED BY <1>6, <1>8

\* A call of one leader's is not carried past the limit, nor twice.
LEMMA GroupIs ==
  ASSUME PromiseInv, NEW e \in H_Entry, Writes(H_rq[e])
  PROVE  /\ H_rq[e].batch \in Seq(H_Entry) /\ Len(H_rq[e].batch) <= H_MaxBatch
         /\ \A i, j \in DOMAIN H_rq[e].batch :
              H_rq[e].batch[i] = H_rq[e].batch[j] => i = j
<1>1. H_rq[e].batch \in Seq(H_Entry) /\ Len(H_rq[e].batch) <= H_MaxBatch
  BY WaitersAre DEF H!TypeOK
<1>2. \A i, j \in DOMAIN H_rq[e].batch :
        i < j => Ahead(H_arrived, H_rq[e].batch[i], H_rq[e].batch[j])
  BY WaitersAre DEF ChainOrder, QueueInTurn, InTurn, Carries, Writes
<1>3. \A m, n \in DOMAIN H_arrived : H_arrived[m] = H_arrived[n] => m = n
  BY WaitersAre DEF ChainOrder, JoinedOnce
<1>4. H_arrived \in Seq(H_Entry)
  BY WaitersAre DEF H!TypeOK
<1>5. ASSUME NEW i \in DOMAIN H_rq[e].batch, NEW j \in DOMAIN H_rq[e].batch,
             H_rq[e].batch[i] = H_rq[e].batch[j]
      PROVE  i = j
  <2>1. i \in Nat /\ j \in Nat
    BY <1>1
  <2>2. ~(i < j) /\ ~(j < i)
    BY <1>2, <1>3, <1>4, <1>5, NotAheadOfSelf
  <2> QED BY <2>1, <2>2
<1> QED BY <1>1, <1>5

LEMMA PromiseInit == ~H_ColdStart /\ H!Init => PromiseInv
<1> SUFFICES ASSUME ~H_ColdStart, H!Init PROVE PromiseInv
  OBVIOUS
<1>1. ChainKept
  BY ChainInit
<1>2. \A e \in H_Entry : H_rq[e].pc = "new" /\ ~H_rq[e].done
  BY DEF H!Init, H!Fresh
<1>3. DOMAIN Waiters = {}
  BY <1>1 DEF H!Init, Waiters, ChainKept, ChainTypes, H!TypeOK, H!Ledger
<1>4. H_edited.kind = "none"
  BY DEF H!Init
<1> QED BY <1>1, <1>2, <1>3, <1>4 DEF PromiseInv, InHand, NotInFile, Carries

LEMMA PromiseStep ==
  ~H_ColdStart /\ H_MaxEdit = 0 /\ PromiseInv /\ H!Next => PromiseInv'
<1> SUFFICES ASSUME ~H_ColdStart, H_MaxEdit = 0, PromiseInv, H!Next
             PROVE  PromiseInv'
  OBVIOUS
<1>1. ChainKept'
  BY ChainStep DEF PromiseInv
<1>2. ASSUME NEW e \in H_Entry, H!GetLedger(e) PROVE FALSE
  BY <1>2, WaitersAre DEF H!GetLedger, H!Make, H!TakeShared, OneLedger
<1>3. ASSUME NEW i, H!EditRow(i) \/ H!RemoveRow(i) PROVE FALSE
  BY <1>3 DEF H!EditRow, H!RemoveRow, H!Editable
<1>4. InHand' /\ NotInFile'
  BY <1>2, <1>3, QuietSteps, JoinPromises, LeadPromises, CommitPromises,
     CommitFailsPromises, SettlePromises, CrashPromises
  DEF H!Next, H!AddBlock, H!CommitBatch
<1>5. UNCHANGED H_edited
  BY <1>2, <1>3
  DEF H!Next, H!AddBlock, H!CommitBatch, H!Arrive, H!Join, H!Sleep, H!Lead,
      H!Return, H!ReadTip, H!Insert, H!Commit, H!CommitFails, H!Settle,
      H!StepDown, H!Crash
<1> QED BY <1>1, <1>4, <1>5 DEF PromiseInv

-------------------------------------------------------------------------------
(* The refinement mapping: what is durable, and what each call was told.   *)

Log == [i \in DOMAIN H_disk |-> H_disk[i].event]
Told == [e \in H_Entry |-> CASE H_rq[e].pc = "returned" -> "ok"
                             [] H_rq[e].pc = "failed"   -> "error"
                             [] H_rq[e].pc = "lost"     -> "lost"
                             [] OTHER -> "none"]

\* What has been told is told by where the call is.
Word(pc) == CASE pc = "returned" -> "ok" [] pc = "failed" -> "error"
              [] pc = "lost" -> "lost" [] OTHER -> "none"

LEMMA ToldIs ==
  /\ Told = [e \in H_Entry |-> Word(H_rq[e].pc)]
  /\ Told' = [e \in H_Entry |-> Word(H_rq'[e].pc)]
  BY DEF Told, Word

LEMMA WordIs ==
  /\ Word("returned") = "ok" /\ Word("failed") = "error" /\ Word("lost") = "lost"
  /\ \A pc : pc \notin {"returned", "failed", "lost"} => Word(pc) = "none"
  BY DEF Word

\* The steps of the log, by the names of the mapping.
LogGrows ==
  \E n \in 1 .. H_MaxBatch : \E group \in [1 .. n -> H_Entry] :
    /\ \A i, j \in 1 .. n : group[i] = group[j] => i = j
    /\ \A i \in 1 .. n :
         /\ ~\E k \in DOMAIN Log : Log[k] = group[i]
         /\ Told[group[i]] = "none"
    /\ Log' = Log \o group
    /\ UNCHANGED Told

LEMMA AbstractCommit == LogGrows => H!Promise!Next
  BY DEF LogGrows, Log, Told, H!Promise!Next, H!Promise!Commit, H!Promise!Logged

LEMMA AbstractAnswer ==
  ASSUME NEW e \in H_Entry, Told[e] = "none", UNCHANGED Log,
         Told' = [Told EXCEPT ![e] =
                    IF \E k \in DOMAIN Log : Log[k] = e THEN "ok" ELSE "error"]
  PROVE  H!Promise!Next
  BY DEF Log, Told, H!Promise!Next, H!Promise!Answer, H!Promise!Logged

LEMMA AbstractLose ==
  ASSUME UNCHANGED Log,
         NEW lost \in SUBSET {e \in H_Entry : Told[e] = "none"},
         Told' = [e \in H_Entry |-> IF e \in lost THEN "lost" ELSE Told[e]]
  PROVE  H!Promise!Next
  BY DEF Log, Told, H!Promise!Next, H!Promise!Lose

\* What neither writes the file nor answers a call is no step of the log.
LEMMA Unsaid ==
  ASSUME UNCHANGED H_disk,
         \A f \in H_Entry : Word(H_rq'[f].pc) = Word(H_rq[f].pc)
  PROVE  UNCHANGED <<Log, Told>>
<1>1. Log' = Log
  BY DEF Log
<1>2. Told' = Told
  BY ToldIs
<1> QED BY <1>1, <1>2

LEMMA InnerSteps ==
  ASSUME PromiseInv, NEW e \in H_Entry,
         \/ H!Arrive(e) \/ H!Join(e) \/ H!Sleep(e) \/ H!Lead(e) \/ H!ReadTip(e)
         \/ H!Insert(e) \/ H!CommitFails(e) \/ H!Settle(e) \/ H!StepDown(e)
  PROVE  UNCHANGED <<Log, Told>>
<1> DEFINE Inner == {"new", "making", "ready", "loop", "asleep", "tip", "insert",
                     "settle", "settled"}
<1>1. H!TypeOK /\ Paired /\ UNCHANGED H_disk
  BY WaitersAre DEF PromiseInv, ChainKept, ChainTypes, H!Arrive, H!Join, H!Sleep,
     H!Lead, H!ReadTip, H!Insert, H!CommitFails, H!Settle, H!StepDown
<1>2. \A pc \in Inner : Word(pc) = "none"
  BY WordIs
<1>3. CASE H!Settle(e) \/ H!StepDown(e)
  <2>1. H_rq[e].pc \in Inner /\ H_rq'[e].pc \in Inner
    BY <1>1, <1>3, SettleIs, StepDownIs DEF H!Settle, H!StepDown
  <2>2. ASSUME NEW f \in H_Entry, f # e
        PROVE  \/ H_rq'[f].pc = H_rq[f].pc
               \/ H_rq[f].pc = "asleep" /\ H_rq'[f].pc = "loop"
    BY <1>1, <1>3, <2>2, SettleIs, StepDownIs DEF WokenFrom
  <2>3. ASSUME NEW f \in H_Entry PROVE Word(H_rq'[f].pc) = Word(H_rq[f].pc)
    <3>1. \/ H_rq'[f].pc = H_rq[f].pc
          \/ H_rq[f].pc \in Inner /\ H_rq'[f].pc \in Inner
      BY <2>1, <2>2
    <3> HIDE DEF Inner
    <3> QED BY <1>2, <3>1
  <2> QED BY <1>1, <2>3, Unsaid
<1>4. CASE \/ H!Arrive(e) \/ H!Join(e) \/ H!Sleep(e) \/ H!Lead(e) \/ H!ReadTip(e)
           \/ H!Insert(e) \/ H!CommitFails(e)
  <2>1. H_rq[e].pc \in Inner
    BY <1>4 DEF H!Arrive, H!Join, H!Sleep, H!Lead, H!ReadTip, H!Insert, H!CommitFails
  <2>2. OthersAsWere(e) /\ H_rq'[e].pc \in Inner
    BY <1>1, <1>4, <2>1, ArriveIs, JoinIs, SleepIs, LeadIs, ReadTipIs, InsertIs,
       CommitFailsIs
  <2>3. ASSUME NEW f \in H_Entry PROVE Word(H_rq'[f].pc) = Word(H_rq[f].pc)
    <3>1. \/ H_rq'[f] = H_rq[f]
          \/ H_rq[f].pc \in Inner /\ H_rq'[f].pc \in Inner
      BY <2>1, <2>2 DEF OthersAsWere
    <3> HIDE DEF Inner
    <3> QED BY <1>2, <3>1
  <2> QED BY <1>1, <2>3, Unsaid
<1> QED BY <1>3, <1>4

\* A commit is a group of the log, or nothing if nobody was in the batch.
LEMMA CommitIsAGroup ==
  ASSUME ~H_ColdStart, PromiseInv, NEW e \in H_Entry, H!Commit(e)
  PROVE  LogGrows \/ UNCHANGED <<Log, Told>>
<1> DEFINE n == Len(H_disk)
           l == Len(H_rq[e].batch)
<1>1. /\ n \in Nat /\ l \in Nat
      /\ DOMAIN H_disk = 1 .. n /\ DOMAIN H_rq[e].batch = 1 .. l
      /\ DOMAIN H_disk' = 1 .. n + l
      /\ \A i \in 1 .. n : H_disk'[i] = H_disk[i]
      /\ \A k \in 1 .. l : H_disk'[n + k].event = H_rq[e].batch[k]
  BY CommitAppends DEF PromiseInv
<1>2. /\ OthersAsWere(e) /\ H_rq[e].pc = "insert" /\ H_rq'[e].pc = "settle"
      /\ H_disk \in Seq(H!Row)
  BY WaitersAre, CommitIs DEF H!Commit, H!TypeOK
<1>3. /\ H_rq[e].batch \in Seq(H_Entry) /\ l <= H_MaxBatch
      /\ \A i, j \in 1 .. l : H_rq[e].batch[i] = H_rq[e].batch[j] => i = j
  BY <1>1, <1>2, GroupIs DEF Writes
<1> HIDE DEF n, l
<1>4. UNCHANGED Told
  <2>1. Word("insert") = "none" /\ Word("settle") = "none"
    BY WordIs
  <2>2. \A f \in H_Entry : Word(H_rq'[f].pc) = Word(H_rq[f].pc)
    BY <1>2, <2>1 DEF OthersAsWere
  <2> QED BY <2>2, ToldIs
<1>5. Log' = Log \o H_rq[e].batch
  <2>1. /\ Log \in Seq(H!Event) /\ Len(Log) = n /\ DOMAIN Log = 1 .. n
        /\ \A i \in 1 .. n : Log[i] = H_disk[i].event
    <3>1. \A i \in 1 .. n : H_disk[i].event \in H!Event
      <4>1. \A row \in H!Row : row.event \in H!Event
        BY DEF H!Row
      <4> QED BY <1>1, <1>2, <4>1
    <3>2. Log \in [1 .. n -> H!Event]
      BY <1>1, <3>1 DEF Log
    <3>3. \A s \in [1 .. n -> H!Event] : s \in Seq(H!Event) /\ Len(s) = n
      BY <1>1
    <3>4. \A i \in 1 .. n : Log[i] = H_disk[i].event
      BY <1>1 DEF Log
    <3> QED BY <3>2, <3>3, <3>4
  <2>2. H_rq[e].batch \in Seq(H!Event) /\ Len(H_rq[e].batch) = l
    BY <1>3 DEF H!Event, l
  <2>3. /\ DOMAIN (Log \o H_rq[e].batch) = 1 .. n + l
        /\ \A i \in 1 .. n : (Log \o H_rq[e].batch)[i] = Log[i]
        /\ \A k \in 1 .. l : (Log \o H_rq[e].batch)[n + k] = H_rq[e].batch[k]
    <3> DEFINE b == H_rq[e].batch
    <3>1. /\ DOMAIN (Log \o b) = 1 .. Len(Log) + Len(b)
          /\ \A i \in 1 .. Len(Log) : (Log \o b)[i] = Log[i]
          /\ \A k \in 1 .. Len(b) : (Log \o b)[Len(Log) + k] = b[k]
      <4> HIDE DEF b
      <4>1. Log \in Seq(H!Event) /\ b \in Seq(H!Event)
        BY <2>1, <2>2 DEF b
      <4> HIDE DEF Log
      <4> QED BY <4>1, ConcatIs
    <3>2. Len(Log) = n /\ Len(b) = l
      BY <2>1, <2>2
    <3> HIDE DEF b
    <3>3. /\ DOMAIN (Log \o b) = 1 .. n + l
          /\ \A i \in 1 .. n : (Log \o b)[i] = Log[i]
          /\ \A k \in 1 .. l : (Log \o b)[n + k] = b[k]
      BY <3>1, <3>2
    <3> QED BY <3>3 DEF b
  <2>4. Log \o H_rq[e].batch \in Seq(H!Event)
    BY <2>1, <2>2
  <2>5. Log' = [i \in 1 .. n + l |-> H_disk'[i].event]
    BY <1>1 DEF Log
  <2>6. ASSUME NEW i \in 1 .. n + l
        PROVE  H_disk'[i].event = (Log \o H_rq[e].batch)[i]
    <3>1. CASE i \in 1 .. n
      BY <1>1, <2>1, <2>3, <3>1
    <3>2. CASE i \notin 1 .. n
      <4>1. i - n \in 1 .. l /\ n + (i - n) = i
        BY <1>1, <3>2
      <4>2. H_disk'[n + (i - n)].event = H_rq[e].batch[i - n]
        BY <1>1, <4>1
      <4>3. (Log \o H_rq[e].batch)[n + (i - n)] = H_rq[e].batch[i - n]
        BY <2>3, <4>1
      <4> QED BY <4>1, <4>2, <4>3
    <3> QED BY <3>1, <3>2
  <2> DEFINE both == Log \o H_rq[e].batch
  <2>7. both = [i \in DOMAIN both |-> both[i]]
    BY <2>4
  <2>8. DOMAIN both = 1 .. n + l /\ \A i \in 1 .. n + l : H_disk'[i].event = both[i]
    BY <2>3, <2>6
  <2> HIDE DEF both
  <2>9. Log' = both
    BY <2>5, <2>7, <2>8
  <2> QED BY <2>9 DEF both
<1>6. CASE l = 0
  <2>1. UNCHANGED Log
    BY <1>1, <1>6 DEF Log
  <2> QED BY <1>4, <2>1
<1>7. CASE l # 0
  <2>1. l \in 1 .. H_MaxBatch /\ H_rq[e].batch \in [1 .. l -> H_Entry]
    BY <1>1, <1>3, <1>7
  <2>2. ASSUME NEW i \in 1 .. l
        PROVE  /\ ~\E k \in DOMAIN Log : Log[k] = H_rq[e].batch[i]
               /\ Told[H_rq[e].batch[i]] = "none"
    <3>1. ~InDisk(H_rq[e].batch[i])
      BY <1>1, <1>2, NotYetInFile DEF Writes
    <3>2. H_rq[e].batch[i] \in H_Entry /\ Inside(H_rq[H_rq[e].batch[i]])
      BY <1>1, <1>2, WaitersAre DEF PromiseInv, InHand, Carries
    <3>3. Word(H_rq[H_rq[e].batch[i]].pc) = "none"
      BY <3>2, WordIs DEF Inside
    <3>4. Told[H_rq[e].batch[i]] = "none"
      BY <3>2, <3>3, ToldIs
    <3> QED BY <3>1, <3>4 DEF InDisk, Log
  <2> QED BY <1>3, <1>4, <1>5, <2>1, <2>2 DEF LogGrows
<1> QED BY <1>6, <1>7

\* A call is told what has become of its entry.
LEMMA ReturnIsAnAnswer ==
  ASSUME PromiseInv, NEW e \in H_Entry, H!Return(e)
  PROVE  H!Promise!Next
<1>1. /\ H_rq[e].pc = "loop" /\ H_rq[e].done /\ OthersAsWere(e) /\ UNCHANGED H_disk
      /\ H_rq'[e].pc = IF H_rq[e].row = <<>> THEN "failed" ELSE "returned"
  BY WaitersAre, ReturnIs DEF H!Return
<1>2. (\E k \in DOMAIN Log : Log[k] = e) <=> InDisk(e)
  BY DEF Log, InDisk
<1>3. H_rq[e].row = <<>> => ~InDisk(e)
  BY <1>1 DEF PromiseInv, NotInFile
<1>4. H_rq[e].row # <<>> => InDisk(e)
  BY WaitersAre DEF Intact, InFile, InDisk
<1>5. /\ Word("loop") = "none" /\ Word("failed") = "error" /\ Word("returned") = "ok"
  BY WordIs
<1> DEFINE word == IF \E k \in DOMAIN Log : Log[k] = e THEN "ok" ELSE "error"
<1>6. Word(H_rq'[e].pc) = word
  BY <1>1, <1>2, <1>3, <1>4, <1>5
<1>7. Told[e] = "none"
  BY <1>1, <1>5, ToldIs
<1> HIDE DEF word
<1>8. Told' = [Told EXCEPT ![e] = word]
  BY <1>1, <1>6, ToldIs DEF OthersAsWere
<1>9. UNCHANGED Log
  BY <1>1 DEF Log
<1> QED BY <1>7, <1>8, <1>9, AbstractAnswer DEF word

LEMMA CrashIsALoss ==
  ASSUME PromiseInv, H!Crash
  PROVE  H!Promise!Next
<1> DEFINE gone == {e \in H_Entry : Told[e] = "none" /\ H_rq[e].pc # "new"}
<1>1. UNCHANGED H_disk
  BY DEF H!Crash
<1>2. ASSUME NEW e \in H_Entry
      PROVE  \/ H_rq[e].pc \in {"new", "returned", "failed"} /\ H_rq'[e] = H_rq[e]
             \/ H_rq[e].pc \notin {"new", "returned", "failed"} /\ H_rq'[e].pc = "lost"
  BY DEF H!Crash, H!Fresh
<1>3. ASSUME NEW e \in H_Entry
      PROVE  Word(H_rq'[e].pc) = IF e \in gone THEN "lost" ELSE Told[e]
  <2>1. Told[e] = Word(H_rq[e].pc)
    BY ToldIs
  <2>2. CASE H_rq[e].pc \in {"new", "returned", "failed"}
    <3>1. H_rq'[e] = H_rq[e]
      BY <1>2, <2>2
    <3>2. e \notin gone
      BY <2>1, <2>2, WordIs
    <3> QED BY <2>1, <3>1, <3>2
  <2>3. CASE H_rq[e].pc \notin {"new", "returned", "failed"}
    <3>1. Word(H_rq'[e].pc) = "lost"
      BY <1>2, <2>3, WordIs
    <3>2. e \in gone \/ Told[e] = "lost"
      BY <2>1, <2>3, WordIs
    <3> QED BY <3>1, <3>2
  <2> QED BY <2>2, <2>3
<1> HIDE DEF gone
<1>4. Told' = [e \in H_Entry |-> IF e \in gone THEN "lost" ELSE Told[e]]
  BY <1>3, ToldIs
<1>5. gone \in SUBSET {e \in H_Entry : Told[e] = "none"}
  BY DEF gone
<1>6. UNCHANGED Log
  BY <1>1 DEF Log
<1> QED BY <1>4, <1>5, <1>6, AbstractLose

\* The initial states map to the initial state, each step to a step or none.
LEMMA MapsInit == H!Init => H!Promise!Init
<1> SUFFICES ASSUME H!Init PROVE H!Promise!Init
  OBVIOUS
<1>1. H_disk = <<>> /\ \A e \in H_Entry : H_rq[e].pc = "new"
  BY DEF H!Init, H!Fresh
<1>2. Log = <<>>
  BY <1>1 DEF Log
<1>3. Told = [e \in H_Entry |-> "none"]
  BY <1>1, ToldIs, WordIs
<1> QED BY <1>2, <1>3 DEF H!Promise!Init, Log, Told

LEMMA MapsStep ==
  ASSUME ~H_ColdStart, H_MaxEdit = 0, PromiseInv, H!Next
  PROVE  H!Promise!Next \/ UNCHANGED <<Log, Told>>
<1>1. ASSUME NEW e \in H_Entry, H!GetLedger(e) PROVE FALSE
  BY <1>1, WaitersAre DEF H!GetLedger, H!Make, H!TakeShared, OneLedger
<1>2. ASSUME NEW i, H!EditRow(i) \/ H!RemoveRow(i) PROVE FALSE
  BY <1>2 DEF H!EditRow, H!RemoveRow, H!Editable
<1> QED BY <1>1, <1>2, InnerSteps, CommitIsAGroup, AbstractCommit, ReturnIsAnAnswer,
           CrashIsALoss
    DEF H!Next, H!AddBlock, H!CommitBatch

\* While nobody edits the file, the hash chain is an append-only log that gives
\* each call one answer: a batch becomes durable as a whole or not at all, no
\* entry twice, a call is told "ok" only of what is durable and an error only of
\* what is not and never will be (hash_chain.py, add_block and _commit).
THEOREM ChainKeepsItsPromise ==
  ASSUME ~H_ColdStart, H_MaxEdit = 0
  PROVE  H!Spec => H!KeepsItsPromise
<1>1. H!Init => PromiseInv
  BY PromiseInit
<1>2. PromiseInv /\ [H!Next]_(H!vars) => PromiseInv'
  <2>1. CASE UNCHANGED H!vars
    BY <2>1
    DEF H!vars, PromiseInv, InHand, NotInFile, InDisk, ChainKept, ChainTypes,
        H!TypeOK, HasLedger, Paired, OneLedger, OneLeader, ChainOrder, JoinedOnce,
        QueueInTurn, NotYetDone, Transaction, Intact, DiskInTurn, Waiters, Rows,
        H!TipOf
  <2> QED BY <2>1, PromiseStep
<1>3. H!Init => H!Promise!Init
  BY MapsInit
<1>4. PromiseInv /\ [H!Next]_(H!vars) => [H!Promise!Next]_<<Log, Told>>
  <2>1. CASE UNCHANGED H!vars
    BY <2>1 DEF H!vars, Log, Told
  <2> QED BY <2>1, MapsStep
<1> QED BY <1>1, <1>2, <1>3, <1>4, PTL
    DEF H!Spec, H!KeepsItsPromise, H!Promise!Spec, Log, Told
===============================================================================
