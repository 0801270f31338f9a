------------------------------ MODULE MCIntake ------------------------------
(***************************************************************************)
(* Two obligations and a reserve, 6-bit machine words and a scale of 4.    *)
(* An obligation may be healthy (its product with the scale does not fit   *)
(* a narrow word), at risk, repaid, without collateral, or left with a     *)
(* debt so small that the quotient does not fit; any account may close.    *)
(* A build may ask for no slice or for the one of the incident.            *)
(***************************************************************************)
EXTENDS Intake, TLC

CONSTANTS o1, o2, r1

MCAccounts == {o1, o2, r1}
MCKindOf == [a \in MCAccounts |-> IF a = r1 THEN "Reserve" ELSE "Obligation"]

Position(deposited, debt) ==
  [lamports |-> 1, deposited |-> deposited, debt |-> debt, has_debt |-> debt > 0]

Positions ==
  {Position(17, 3), Position(4, 3), Position(9, 0), Position(0, 3),
   Position(17, 1)}

MCBodiesOf ==
  (o1 :> Positions \cup {Closed}) @@ (o2 :> {Position(5, 3), Closed}) @@
  (r1 :> {Position(0, 0)})

MCSlices == {NoSlice, 4664}
=============================================================================
