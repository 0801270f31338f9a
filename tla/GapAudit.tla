------------------------------ MODULE GapAudit ------------------------------
(***************************************************************************)
(* The audit of the cold archive (src/src/bin/coldquery.rs, `gaps`): holes *)
(* derived from the data itself, by walking the distinct slots of          *)
(* account_updates, to be held against slot_gaps, which has what the       *)
(* indexer noticed.  "The two agreeing is the check worth having."         *)
(*                                                                         *)
(* Simplifications                                                         *)
(*  - The audit is a query, so it needs no state of its own.  The archive  *)
(*    is taken to hold what the hot table holds: a full export             *)
(*    (ColdExport, FullRunArchivesAll).                                    *)
(*  - account_updates has a second writer, the snapshot job (Snapshot).    *)
(*    The slots of its rows are those its answers were made at, so they    *)
(*    may be any slots up to the tip, and the audit is judged for all of   *)
(*    them: the parameter S of what follows.                               *)
(***************************************************************************)
EXTENDS Indexer

(* The slots the snapshot job may have stored rows at.  A gap has two ends, *)
(* so what any number of such rows can do to it two of them can.           *)
SnapshotSlots == {{s, t} : s, t \in 0..tip} \cup {{}}

(* observed: SELECT DISTINCT slot FROM account_updates.                    *)
Observed(S) == {SlotOf[u] : u \in tables["account_updates"]} \cup S

(* stepped: an observed slot p[2] with lag(slot), the observed one before. *)
Stepped(p, slots) ==
  p[1] < p[2] /\ \A s \in slots : s <= p[1] \/ s >= p[2]

Missed(p) == p[2] - p[1] - 1

Listed(p) == Missed(p) > Tolerance

AuditedGaps(S) ==
  LET slots == Observed(S) IN
  {p \in slots \X slots : Listed(p) /\ Stepped(p, slots)}

(* What the archive lacks inside a listed gap.                             *)
Lacking(p) == {u \in Updates : p[1] < SlotOf[u] /\ SlotOf[u] < p[2]}

(* The audit lists a gap that u is missing in, for some rows of snapshots. *)
FoundByAudit(u) ==
  \E S \in SnapshotSlots : \E p \in AuditedGaps(S) : u \in Lacking(p)

-----------------------------------------------------------------------------
Missing == Updates \ tables["account_updates"]

(* The indexer has stored a later row.                                     *)
PassedBy(u) == \E v \in tables["account_updates"] : SlotOf[u] < SlotOf[v]

(* A stored row with an earlier update missing always has the same cause:  *)
(* a session that was not served that update.  Neither a crash nor a late  *)
(* insert nor a batch cut through a slot leaves such a hole, at the        *)
(* checkpoint or beyond it.                                                *)
NoHoleOutsideSeams == \A u \in Missing : PassedBy(u) => InSeam(u)

(* The archive and the gap table agree as far as the indexer has come,     *)
(* wherever the snapshot job has put rows: whatever the indexer has passed *)
(* by and the audit finds missing was lost before the first checkpoint, or *)
(* in a drift within tolerance, or under a resume point that has a row in  *)
(* slot_gaps, unless inserting that row returned an error.  Of a gap past  *)
(* the indexer's newest row, which ends at a snapshot, nothing is said:    *)
(* the stream may be late, down, or about to come to it.                   *)
AuditAgreesWithGapTable ==
  \A u \in Missing :
    PassedBy(u) /\ FoundByAudit(u) =>
      \E h \in seams :
        /\ h.from <= SlotOf[u] /\ SlotOf[u] < h.to
        /\ \/ h.from = NoSlot
           \/ h.to - h.from <= Tolerance
           \/ HasGapRow(h.from)
           \/ h.from \in unrecorded
=============================================================================
