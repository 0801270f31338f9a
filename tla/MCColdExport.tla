---------------------------- MODULE MCColdExport ----------------------------
(***************************************************************************)
(* A small instance of the export: partitions of two slots.  The stream    *)
(* writes slots 0, 1 and 4, so that a partition in between stays empty,    *)
(* and a decoded row at slot 1; a snapshot writes one more row at slot 1,  *)
(* wherever the stream is.  The first partition holds up to three rows,    *)
(* one row group and a half.                                               *)
(***************************************************************************)
EXTENDS ColdExport, TLC

CONSTANTS a0, a1, s1, a4, o1

MCRows == {a0, a1, s1, a4, o1}
MCSlotOf == (a0 :> 0) @@ (a1 :> 1) @@ (s1 :> 1) @@ (a4 :> 4) @@ (o1 :> 1)
MCTableOf ==
  [r \in MCRows |-> IF r = o1 THEN "obligation_snapshots" ELSE "account_updates"]
MCStreamRows == {a0, a1, a4, o1}
=============================================================================
