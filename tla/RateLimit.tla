------------------------------ MODULE RateLimit ------------------------------
(***************************************************************************)
(* services/gateway/rate_limit: one token bucket per subject and tier.     *)
(*                                                                         *)
(* Tokens are counted in parts, Cost of them to a request, so that a       *)
(* refill per unit of time is a whole number; the code keeps a float.  A   *)
(* bucket is made full the first time its key is seen: one that was full   *)
(* and never used from the start is the same.                              *)
(*                                                                         *)
(* `since` and `spent` are an observer's: it starts to count the admitted  *)
(* requests at a moment of its choosing.                                   *)
(***************************************************************************)
EXTENDS Integers

CONSTANTS
  Key,    \* subject and tier
  Rate,   \* parts refilled in a unit of time, per key
  Burst,  \* parts a bucket holds, per key
  Cost,   \* parts a request costs
  MaxTime \* bound on the clock

ASSUME RateAssumption ==
  /\ Rate \in [Key -> Nat] /\ Burst \in [Key -> Nat]
  /\ Cost \in Nat \ {0} /\ MaxTime \in Nat

VARIABLES
  now,     \* the monotonic clock
  tokens,  \* what each bucket held when it was last looked at
  updated, \* when that was
  since,   \* history: when the observer began to count
  spent    \* history: what it counted

bucket == <<tokens, updated, spent>>
rateVars == <<now, bucket, since>>

-------------------------------------------------------------------------------
RateInit ==
  /\ now = 0 /\ since = 0
  /\ tokens = Burst
  /\ updated = [k \in Key |-> 0] /\ spent = [k \in Key |-> 0]

Least(a, b) == IF a <= b THEN a ELSE b

\* What the bucket holds by now.
Refilled(k) == Least(Burst[k], tokens[k] + (now - updated[k]) * Rate[k])

\* Not the code: the refill is counted again next time.
Unmoved(k) == updated[k]
\* updated_at, after a look.
LookedAt(k) == now

Look(k, left) ==
  /\ tokens' = [tokens EXCEPT ![k] = left]
  /\ updated' = [updated EXCEPT ![k] = LookedAt(k)]

\* enforce_rate_limit lets the request through, or answers 429.
Pay(k) ==
  /\ Refilled(k) >= Cost
  /\ Look(k, Refilled(k) - Cost)
  /\ spent' = [spent EXCEPT ![k] = @ + 1]

Refuse(k) ==
  /\ Refilled(k) < Cost
  /\ Look(k, Refilled(k))
  /\ UNCHANGED spent

Tick == now < MaxTime /\ now' = now + 1 /\ UNCHANGED <<bucket, since>>

\* The observer starts over.
Observe ==
  /\ since' = now /\ spent' = [k \in Key |-> 0]
  /\ UNCHANGED <<now, tokens, updated>>

RateNext ==
  \/ \E k \in Key : (Pay(k) \/ Refuse(k)) /\ UNCHANGED <<now, since>>
  \/ Tick \/ Observe

RateSpec == RateInit /\ [][RateNext]_rateVars

-------------------------------------------------------------------------------
\* However long one looks, and from whatever moment, a key is never let
\* through for more than a full bucket and what was refilled meanwhile.
WithinBudget ==
  \A k \in Key : spent[k] * Cost <= Burst[k] + (now - since) * Rate[k]

RateTypeOK ==
  /\ now \in Nat /\ since \in Nat
  /\ tokens \in [Key -> Nat] /\ updated \in [Key -> Nat]
  /\ spent \in [Key -> Nat]

\* What a bucket holds and what was spent come out of one budget, up to the
\* last look; a bucket not looked at since the observer began spent nothing.
Budget(k) ==
  IF updated[k] < since THEN spent[k] = 0
  ELSE spent[k] * Cost + tokens[k] <= Burst[k] + (updated[k] - since) * Rate[k]

RateInv ==
  /\ RateTypeOK
  /\ since <= now
  /\ \A k \in Key :
       updated[k] <= now /\ tokens[k] <= Burst[k] /\ Budget(k)
=============================================================================
