----------------------------- MODULE MCMachine ------------------------------
(***************************************************************************)
(* One tick stands for about five minutes: a threshold of three ticks, a   *)
(* check every two, and a cooldown and a longest silence of one, in the    *)
(* order the constants of watchdog.sh have: MIN_SETTLE < INTERVAL <        *)
(* STALE_THRESHOLD.  The values are in the configurations.                 *)
(***************************************************************************)
EXTENDS Machine
=============================================================================
