------------------------------ MODULE MCFreeze -------------------------------
(***************************************************************************)
(* What a freeze rests on, for TLC, side by side: each behaviour is one of *)
(* the lease table with its watchdog, of the hash chain that records it,   *)
(* or of the Monitor's holds. The constant or variable x of the chain is   *)
(* written H_x here and of the policy P_x; what is not in play is off.     *)
(***************************************************************************)
EXTENDS LeaseWatchdog, TLC

CONSTANTS
  H_Entry, H_Forged, H_MaxBatch, H_MaxLedger, H_ColdStart, H_MaxCrash,
  H_MaxEdit, P_Incident, P_Pid, P_Hold, P_LeaseId, P_NoPid, P_NoHold,
  P_NoLease, P_Retires

VARIABLES
  part,  \* what this behaviour is of
  H_disk, H_open, H_waiting, H_leading, H_rq, H_made, H_shared, H_arrived,
  H_crashes, H_edited, P_q, P_ask, P_closer, P_hold, P_holds, P_link,
  P_handled, P_th, P_stop, P_lease, P_late, P_dead

H == INSTANCE HashChain WITH
  Entry <- H_Entry, Forged <- H_Forged, MaxBatch <- H_MaxBatch,
  MaxLedger <- H_MaxLedger, ColdStart <- H_ColdStart, MaxCrash <- H_MaxCrash,
  MaxEdit <- H_MaxEdit, disk <- H_disk, open <- H_open, waiting <- H_waiting,
  leading <- H_leading, rq <- H_rq, made <- H_made, shared <- H_shared,
  arrived <- H_arrived, crashes <- H_crashes, edited <- H_edited

P == INSTANCE SuspendPolicy WITH
  Incident <- P_Incident, Pid <- P_Pid, Hold <- P_Hold, LeaseId <- P_LeaseId,
  NoPid <- P_NoPid, NoHold <- P_NoHold, NoLease <- P_NoLease,
  Retires <- P_Retires, q <- P_q, ask <- P_ask, closer <- P_closer,
  hold <- P_hold, holds <- P_holds, link <- P_link, handled <- P_handled,
  th <- P_th, stop <- P_stop, lease <- P_lease, late <- P_late, dead <- P_dead

ASSUME FreezeAssumption ==
  /\ H!HashAssumption
  /\ P!PolicyAssumption

-------------------------------------------------------------------------------
H_vars ==
  <<H_disk, H_open, H_waiting, H_leading, H_rq, H_made, H_shared, H_arrived,
    H_crashes, H_edited>>
P_vars ==
  <<P_q, P_ask, P_closer, P_hold, P_holds, P_link, P_handled, P_th, P_stop,
    P_lease, P_late, P_dead>>

Off == "off"
H_off ==
  /\ H_disk = Off /\ H_open = Off /\ H_waiting = Off /\ H_leading = Off
  /\ H_rq = Off /\ H_made = Off /\ H_shared = Off /\ H_arrived = Off
  /\ H_crashes = Off /\ H_edited = Off
P_off ==
  /\ P_q = Off /\ P_ask = Off /\ P_closer = Off /\ P_hold = Off
  /\ P_holds = Off /\ P_link = Off /\ P_handled = Off /\ P_th = Off
  /\ P_stop = Off /\ P_lease = Off /\ P_late = Off /\ P_dead = Off
Table_off ==
  /\ proc = Off /\ lease = Off /\ heldBy = Off /\ th = Off /\ lock = Off
  /\ svc = Off /\ todo = Off /\ notes = Off /\ blocks = Off /\ failed = Off
  /\ child = Off /\ cur = Off /\ wdHeld = Off /\ told = Off /\ up = Off
  /\ boots = Off /\ faults = Off

FreezeInit ==
  \/ /\ part = "watchdog" /\ WatchInit
     /\ H_off /\ P_off
  \/ /\ part = "chain" /\ H!Init /\ Table_off
     /\ P_off
  \/ /\ part = "policy" /\ P!Init /\ Table_off
     /\ H_off

\* A step of the one in play.
FreezeNext ==
  \/ /\ part = "watchdog" /\ WatchNext
     /\ UNCHANGED <<part, H_vars, P_vars>>
  \/ /\ part = "chain" /\ H!Next
     /\ UNCHANGED <<part, allVars, P_vars>>
  \/ /\ part = "policy" /\ P!Next
     /\ UNCHANGED <<part, allVars, H_vars>>

FreezeVars == <<part, allVars, H_vars, P_vars>>
FreezeSpec == FreezeInit /\ [][FreezeNext]_FreezeVars

-------------------------------------------------------------------------------
\* Questions are interchangeable.
Symmetry == Permutations(P_Incident)

-------------------------------------------------------------------------------
(* The properties of each.                                                 *)

\* Every variable of the part in play has its type.
FreezeTypeOK ==
  /\ part = "watchdog" => WatchTypeOK
  /\ part = "chain" => H!TypeOK
  /\ part = "policy" => P!TypeOK

\* A frozen process is one the service or a child will resume, and while its
\* lease runs it stays frozen, unless a child is killed.
FreezeIsCovered ==
  part = "watchdog" =>
    /\ FrozenIsCoveredOnceRead
    /\ "watchdog" \notin faults => RunningLeaseIsFrozen
\* The client's table and the child that is there know what is held, and while
\* a service that has not crashed runs, what is frozen is held.
FreezeIsKnown == part = "watchdog" => HeldIsKnown /\ FrozenIsHeldWhileUp

\* A file only the service has written verifies, in the order of the calls.
ChainInOrder == part = "chain" => H!ChainUnbroken /\ H!ArrivalOrder
\* A call returns only its own durable block, and an edit of the file is named
\* by the first block that no longer fits.
ChainTellsTrue == part = "chain" => H!ReturnsItsBlock /\ H!EditNamed

\* No hold is lost sight of: each PID's is the one _holds names, a close leaves
\* it decided, a kill is not undone, and a stop releases all or says it failed.
NoHoldIsLost ==
  part = "policy" =>
    P!ActiveIsKnown /\ P!KillNotUndone /\ P!ClosedIsDecided /\ P!StoppedIsReleased
===============================================================================
