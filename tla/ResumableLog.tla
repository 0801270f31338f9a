---------------------------- MODULE ResumableLog ----------------------------
(***************************************************************************)
(* What the ingest pipeline promises whoever reads its checkpoint: a log   *)
(* that grows, a horizon that says how far it is complete, and a list of   *)
(* the stretches that were knowingly skipped.  The horizon may fall back   *)
(* (a replay, a late write), it may never stand where something below it   *)
(* is neither stored nor in a skipped stretch.                             *)
(*                                                                         *)
(* This is the contract of schema/002_checkpoint.sql ("prefer duplicates   *)
(* over holes") with the process, the stream and the batches left out.     *)
(***************************************************************************)
EXTENDS Integers

CONSTANTS Updates, SlotOf

VARIABLES stored, skipped, horizon

logVars == <<stored, skipped, horizon>>

Skips(stretch, u) == stretch.from <= SlotOf[u] /\ SlotOf[u] < stretch.to

CompleteBelow(c) ==
  \A u \in Updates :
    SlotOf[u] < c => \/ u \in stored
                     \/ \E stretch \in skipped : Skips(stretch, u)

Init == stored = {} /\ skipped = {} /\ horizon = -1

Store ==
  /\ stored \subseteq stored' /\ stored' \subseteq Updates
  /\ UNCHANGED <<skipped, horizon>>

Skip ==
  /\ skipped \subseteq skipped' /\ skipped' \subseteq [from : Int, to : Int]
  /\ UNCHANGED <<stored, horizon>>

Commit ==
  /\ horizon' \in Int
  /\ CompleteBelow(horizon')
  /\ UNCHANGED <<stored, skipped>>

Next == Store \/ Skip \/ Commit

Spec == Init /\ [][Next]_logVars
=============================================================================
