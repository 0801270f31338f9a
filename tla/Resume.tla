------------------------------- MODULE Resume -------------------------------
(***************************************************************************)
(* The resume seam of the klend indexer (src/src/resume.rs): what the      *)
(* first account slot of a session proves about history lost between the   *)
(* checkpoint that was asked for and the slot the provider opened at.      *)
(*                                                                         *)
(* Pure operators, no state.  `Option<u64>` is Nat plus NoSlot.            *)
(***************************************************************************)
EXTENDS Integers

CONSTANT Tolerance      \* RESUME_TOLERANCE_SLOTS, 600 in the code

ASSUME ToleranceAssumption == Tolerance \in Nat

NoSlot == -1
OptSlot == Nat \cup {NoSlot}

(* How far past the requested slot the session opened.  A provider that    *)
(* replays further back than asked has drifted by nothing.                 *)
Drift(resume_from, first) ==
  IF first <= resume_from THEN 0 ELSE first - resume_from

(* Mutant: the threshold is held against the slots missed, as the archive  *)
(* audit of coldquery does, and no longer against the drift.               *)
BeyondTolerance_CountsMissed(drift) == drift - 1 > Tolerance

BeyondTolerance(drift) == drift > Tolerance

NotApplicable == [kind |-> "not_applicable"]
Clean(drift)  == [kind |-> "clean", drift |-> drift]
Gap(s, e)     == [kind |-> "gap", start_slot |-> s, end_slot |-> e,
                  missed |-> e - s - 1]

(* No checkpoint is no seam; a drift within tolerance is klend being quiet *)
(* and goes unrecorded; anything past it is a gap.                         *)
ClassifyResume(resume_from, first) ==
  LET drift == Drift(resume_from, first) IN
  CASE resume_from = NoSlot -> NotApplicable
    [] resume_from # NoSlot /\ ~BeyondTolerance(drift) -> Clean(drift)
    [] resume_from # NoSlot /\ BeyondTolerance(drift) -> Gap(resume_from, first)

=============================================================================
