------------------------------- MODULE MCProxy -------------------------------
(***************************************************************************)
(* Two clients and two queries.  An upstream request lives as long as a    *)
(* cache entry, and the clock leaves room for two entries, one after the   *)
(* other.                                                                  *)
(***************************************************************************)
EXTENDS Proxy, TLC
=============================================================================
