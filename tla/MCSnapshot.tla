----------------------------- MODULE MCSnapshot -----------------------------
(***************************************************************************)
(* Two pages of obligations, one obligation on each; a market account that *)
(* the decoder refuses; an account of another kind.  One obligation and    *)
(* the market are idle from the start.  Batches of two.                    *)
(***************************************************************************)
EXTENDS Snapshot, TLC

CONSTANTS o1, o2, m

MCAccounts == {o1, o2, m}
MCKindOf == (o1 :> "Obligation") @@ (o2 :> "Obligation") @@ (m :> "LendingMarket")
MCPageOf == (o1 :> 1) @@ (o2 :> 2) @@ (m :> 1)
MCIdle == {o1, m}
MCDecodes == {o1, o2}
MCScopes == {"known", "all"}
=============================================================================
