----------------------------- MODULE MCDashboard -----------------------------
(***************************************************************************)
(* One panel before `system`.  A run may take longer than the interval,    *)
(* and the clock leaves room for more than one Lag.                        *)
(***************************************************************************)
EXTENDS Dashboard, TLC
=============================================================================
