------------------------------ MODULE Detection ------------------------------
(***************************************************************************)
(* services/monitor/detection.classify: what one reading of a file says,   *)
(* by the path, the entropy, the container's structure and the floor under *)
(* the path's earlier readings.  Entropies are levels.                     *)
(***************************************************************************)
EXTENDS Naturals

CONSTANTS
  Ransom,    \* paths with a known ransomware extension
  Threshold, \* ENTROPY_THRESHOLD
  Rise,      \* ENTROPY_RISE_THRESHOLD
  RiseFloor, \* ENTROPY_RISE_FLOOR
  Policy     \* CONTAINER_EXEMPTION_POLICY

Top == 4 \* the highest level of entropy

ReadingType ==
  [readable : BOOLEAN,
   entropy : 0 .. Top,
   small : BOOLEAN,                     \* below MIN_BASELINE_BYTES
   partial : BOOLEAN,                   \* looks_partially_encrypted
   container : BOOLEAN,                 \* a recognised header
   valid : {"yes", "no", "unknown"},    \* container_valid
   compressed : {"yes", "no", "unknown"},
   inner : BOOLEAN]                     \* what it carries explains it

Policies == {"legacy", "strict", "ratio", "inner", "off"}

DetectionAssumption ==
  /\ Policy \in Policies
  /\ {Threshold, Rise, RiseFloor} \subseteq Nat \ {0}

-------------------------------------------------------------------------------
\* container_explains_entropy
Explains(r) ==
  /\ r.container /\ r.valid # "no" /\ Policy # "off"
  /\ Policy # "legacy" =>
       /\ r.valid = "yes"
       /\ Policy \in {"ratio", "inner"} /\ r.compressed = "no"
          => Policy = "inner" /\ r.inner

\* What explains blocks of high entropy among others.
PartialExplained(r) ==
  /\ r.valid = "yes" /\ Policy # "off"
  /\ Policy \in {"ratio", "inner"} /\ r.compressed = "no"
     => Policy = "inner" /\ r.inner

\* Differential entropy, over the floor established before the reading.
Rose(r, base) == base # 0 /\ r.entropy > base
RoseFar(r, base) ==
  base # 0 /\ r.entropy >= base + Rise /\ r.entropy >= RiseFloor

\* Not the code: the container's exemption is heard first.
ExemptFirst(p, r, base) ==
  LET high == r.entropy >= Threshold
  IN CASE high /\ Explains(r) /\ p \notin Ransom -> "none"
       [] RoseFar(r, base) -> "entropy_rise"
       [] r.container /\ r.valid = "no" /\ (high \/ r.partial) ->
            "structural_mismatch"
       [] high -> "static_entropy"
       [] OTHER -> "none"
\* The first detection that fires names the signal; none if it is benign.
Signal(p, r, base) ==
  LET high == r.entropy >= Threshold
      named == IF p \in Ransom THEN "ransom_extension" ELSE "none"
      rest ==
        IF high THEN IF Explains(r) /\ p \notin Ransom THEN "none"
                     ELSE "static_entropy"
        ELSE named
  IN IF ~r.readable THEN named
     ELSE IF RoseFar(r, base) THEN "entropy_rise"
     ELSE IF r.container /\ r.valid = "no" /\ (high \/ r.partial)
          THEN "structural_mismatch"
     ELSE IF ~high /\ r.partial /\ ~PartialExplained(r) THEN "partial_entropy"
     ELSE rest

=============================================================================
