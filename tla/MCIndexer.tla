----------------------------- MODULE MCIndexer ------------------------------
(***************************************************************************)
(* Small instances of the stream indexer for TLC.  Four updates in three   *)
(* slots: slot 2 holds two, so that a batch of two can end in the middle   *)
(* of it, in a session that opened at slot 1 or at slot 2; slot 4 is a     *)
(* resume drift of 2 past slot 2 and of 3 past slot 1, beyond a tolerance  *)
(* of 1, and slot 2 a drift of 1 past slot 1, within it.                   *)
(***************************************************************************)
EXTENDS GapAudit

CONSTANTS u1, u2, u3, u4

MCUpdates == {u1, u2, u3, u4}

MCSlotOf == (u1 :> 1) @@ (u2 :> 2) @@ (u3 :> 2) @@ (u4 :> 4)

Raw == {"account_updates"}

MCTablesOf ==
  (u1 :> Raw \cup {"obligation_snapshots"}) @@
  (u2 :> Raw \cup {"reserve_snapshots"}) @@
  (u3 :> Raw \cup {"lending_market_snapshots"}) @@
  (u4 :> Raw \cup {"obligation_snapshots"})

Unattended == {NoSlot}

UnattendedOrSample == {NoSlot, 2}
=============================================================================
