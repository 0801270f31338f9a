------------------------------ MODULE Archive -------------------------------
(***************************************************************************)
(* What the cold copy promises whoever queries it (src/src/coldpath.rs:    *)
(* "hot path stays authoritative, this is a derived copy"): it only ever   *)
(* grows, and it never holds a row the hot store does not.  It says        *)
(* nothing of how far behind the copy may be.                              *)
(***************************************************************************)

CONSTANT Rows

VARIABLES store, archived

Init == store = {} /\ archived = {}

Ingest ==
  /\ store \subseteq store' /\ store' \subseteq Rows
  /\ UNCHANGED archived

Export ==
  /\ archived \subseteq archived' /\ archived' \subseteq store
  /\ UNCHANGED store

Next == Ingest \/ Export

Spec == Init /\ [][Next]_<<store, archived>>
=============================================================================
