--------------------------- MODULE GapAuditProofs ---------------------------
(***************************************************************************)
(* Proofs about the audit of the archive: where its threshold and the one  *)
(* of the indexer differ, that the data has no hole but the seams, and     *)
(* that what the audit lists the gap table answers for.                    *)
(***************************************************************************)
EXTENDS GapAudit, IndexerProofs

(* The audit holds the threshold against the slots missed, the indexer     *)
(* against the drift, one more.  So a step the audit lists is one that the *)
(* indexer, resuming from its first slot, would have recorded, and the     *)
(* other way round but for a hole of exactly Tolerance slots.              *)
THEOREM AuditAgainstDetector ==
  ASSUME NEW p \in Nat \X Nat, p[1] < p[2]
  PROVE  /\ Listed(p) => ClassifyResume(p[1], p[2]).kind = "gap"
         /\ ClassifyResume(p[1], p[2]).kind = "gap" =>
              Listed(p) \/ Missed(p) = Tolerance
<1>1. /\ p[1] \in Nat /\ p[2] \in Nat /\ p[1] # NoSlot
      /\ Drift(p[1], p[2]) = p[2] - p[1]
  BY DEF NoSlot, Drift
<1>2. BeyondTolerance(Drift(p[1], p[2])) <=> Missed(p) >= Tolerance
  BY <1>1, ToleranceAssumption DEF BeyondTolerance, Missed
<1>3. ClassifyResume(p[1], p[2]).kind = "gap" <=>
        BeyondTolerance(Drift(p[1], p[2]))
  <2>1. CASE BeyondTolerance(Drift(p[1], p[2]))
    BY <1>1, <2>1 DEF ClassifyResume, Gap
  <2>2. CASE ~BeyondTolerance(Drift(p[1], p[2]))
    BY <1>1, <2>2 DEF ClassifyResume, Clean
  <2> QED BY <2>1, <2>2
<1> QED BY <1>1, <1>2, <1>3, ToleranceAssumption DEF Listed, Missed

-----------------------------------------------------------------------------
(* What is in memory came from the open session, in slot order.            *)
MemoryInOrder == \A v \in Updates : InMemory(v) => SlotOf[v] <= last_slot

AuditInv == IInv /\ MemoryInOrder /\ NoHoleOutsideSeams

(* Whatever a batch puts into account_updates, everything the chain        *)
(* produced before it is there, arrives in the same insert, or was not     *)
(* served to some session.                                                 *)
LEMMA BatchHasNoHole ==
  ASSUME IInv, pc = "insert",
         NEW v \in ToSet(batch), NEW u \in Updates, SlotOf[u] < SlotOf[v],
         SlotOf[v] <= last_slot
  PROVE  \/ u \in tables["account_updates"] \/ InSeam(u)
         \/ u \in RowsIn(batch, "account_updates")
<1> USE DEF IInv
<1>1. /\ v \in Updates /\ SlotOf[u] \in Nat /\ SlotOf[v] \in Nat
      /\ "account_updates" \in TablesOf[u]
      /\ last_slot \in Nat /\ served_from \in Nat
  BY ToSetType, IndexerAssumption DEF TypeOK
<1>2. session_first_slot \in Nat /\ served_from <= session_first_slot
  BY DEF BatchOK, SessionOK, TypeOK, Slots, OptSlot
<1>3. Complete(u) => u \in tables["account_updates"]
  BY <1>1 DEF Complete
<1>4. CASE served_from <= SlotOf[u]
  <2>1. u \in delivered BY <1>1, <1>4 DEF SessionOK, BatchOK
  <2>2. Complete(u) \/ u \in ToSet(batch)
    BY <2>1, EmptyFacts DEF SessionOK, InMemory, ControlOK
  <2> QED BY <1>1, <1>3, <2>2 DEF RowsIn
<1>5. CASE SlotOf[u] < served_from
  <2>1. Covered(session_first_slot) BY <1>2 DEF CoverageOK, NoSlot
  <2>2. SlotOf[u] < session_first_slot BY <1>1, <1>2, <1>5
  <2> QED BY <1>3, <2>1, <2>2 DEF Covered
<1> QED BY <1>1, <1>4, <1>5

(* The rows a step may add to account_updates are those of the batch.      *)
LEMMA RowsFromBatch ==
  ASSUME IInv, [Next]_vars, tables' # tables
  PROVE  /\ pc = "insert" /\ UNCHANGED seams
         /\ \/ tables'["account_updates"] = tables["account_updates"]
            \/ tables'["account_updates"] =
                 tables["account_updates"] \cup RowsIn(batch, "account_updates")
<1>1. InsertRows \/ InsertFails
  BY DEF Next, Boot, ReadCheckpoint, StartFromTip, Subscribed, SubscribeOpens,
         SubscribeRejected, Delivers, Deliver, StopOnBudget, Judge, TimerFlush,
         LeaveStream, ReplayErrors, Stop, ResumeUnreachable, Reconnect,
         InsertCheckpoint, LateCheckpoint, RecordGapReturns, RecordGapErrs,
         Crash, ConnHalfOpens, WatchdogRestarts, TipAdvances, vars, store
<1>2. StoreRows(NextTable(unsent)) /\ pc = "insert" /\ UNCHANGED seams
  BY <1>1 DEF InsertRows, InsertFails, store, ghost
<1>3. "account_updates" \in Tables /\ tables \in [Tables -> SUBSET Updates]
  BY DEF Tables, IInv, TypeOK
<1> QED BY <1>2, <1>3 DEF StoreRows

LEMMA MemoryStaysInOrder ==
  ASSUME AuditInv, [Next]_vars PROVE MemoryInOrder'
<1> USE DEF AuditInv, IInv
<1> SUFFICES ASSUME NEW v \in Updates, InMemory(v)'
             PROVE  SlotOf[v] <= last_slot'
  BY DEF MemoryInOrder
<1>1. CASE UNCHANGED last_slot /\ InMemory(v)
  BY <1>1 DEF MemoryInOrder
<1>2. CASE Exit \/ Boot
  <2>1. buf' = <<>> /\ pc' # "insert" BY <1>2 DEF Exit, Boot, Forget
  <2> QED BY <2>1, EmptyFacts DEF InMemory
<1>3. ASSUME NEW u \in Updates, Deliver(u) PROVE SlotOf[v] <= last_slot'
  <2>1. /\ last_slot' = SlotOf[u] /\ u \notin delivered
        /\ served_from <= SlotOf[u] /\ SlotOf[u] \in Nat /\ SlotOf[v] \in Nat
        /\ last_slot \in Nat /\ pc = "stream"
    BY <1>3, IndexerAssumption DEF Deliver, Deliverable, TypeOK
  <2>2. v \in ToSet(Append(buf, u))
    BY <1>3, EmptyFacts DEF Deliver, StartFlush, InMemory
  <2>3. v = u \/ v \in ToSet(buf)
    BY <2>2, AppendFacts DEF TypeOK
  <2>4. CASE v \in ToSet(buf)
    <3>1. SlotOf[v] <= last_slot BY <2>4 DEF MemoryInOrder, InMemory
    <3>2. session_first_slot # NoSlot BY <2>4, EmptyFacts DEF BatchOK
    <3>3. last_slot <= SlotOf[u] BY <2>1, <3>2 DEF SessionOK
    <3> QED BY <2>1, <3>1, <3>3
  <2> QED BY <2>1, <2>3, <2>4
<1>4. ASSUME NEW then, StartFlush(buf, then), UNCHANGED last_slot
      PROVE  SlotOf[v] <= last_slot'
  <2>1. v \in ToSet(buf) BY <1>4, EmptyFacts DEF StartFlush, InMemory
  <2> QED BY <1>4, <2>1 DEF MemoryInOrder, InMemory
<1>5. ASSUME FinalFlush, UNCHANGED last_slot, pc # "insert"
      PROVE  SlotOf[v] <= last_slot'
  BY <1>1, <1>4, <1>5 DEF FinalFlush, writer, InMemory
<1>6. CASE StopOnBudget \/ ReplayErrors
           \/ \E signalled \in BOOLEAN : LeaveStream(signalled)
  BY <1>5, <1>6 DEF StopOnBudget, ReplayErrors, LeaveStream, loop
<1>7. CASE TimerFlush
  BY <1>4, <1>7 DEF TimerFlush, loop
<1>8. CASE InsertFails \/ Crash \/ WatchdogRestarts \/ Boot
  BY <1>2, <1>8 DEF InsertFails, Crash, WatchdogRestarts
<1>9. CASE InsertRows \/ InsertCheckpoint
  BY <1>1, <1>9, EmptyFacts
     DEF InsertRows, InsertCheckpoint, InMemory, ControlOK, TypeOK, loop
<1>10. CASE ReadCheckpoint \/ StartFromTip \/ Subscribed \/ SubscribeRejected
            \/ Judge
  BY <1>1, <1>10
     DEF ReadCheckpoint, StartFromTip, Subscribed, SubscribeOpens, loop,
         SubscribeRejected, RecordGap, Judge, writer, InMemory
<1>11. CASE Stop \/ ResumeUnreachable \/ Reconnect
            \/ RecordGapReturns \/ RecordGapErrs
  BY <1>1, <1>11
     DEF Stop, ResumeUnreachable, Reconnect, RecordGap, RecordGapReturns,
         RecordGapErrs, ControlOK, writer, loop, InMemory
<1>12. CASE (\E c \in limbo : LateCheckpoint(c)) \/ ConnHalfOpens \/ TipAdvances
            \/ UNCHANGED vars
  BY <1>1, <1>12
     DEF LateCheckpoint, ConnHalfOpens, TipAdvances, vars, writer, loop, InMemory
<1>13. CASE Delivers BY <1>3, <1>13 DEF Delivers
<1> QED
  BY <1>6, <1>7, <1>8, <1>9, <1>10, <1>11, <1>12, <1>13 DEF Next

LEMMA HolesStaySeams ==
  ASSUME AuditInv, [Next]_vars PROVE NoHoleOutsideSeams'
<1> DEFINE Raw == tables["account_updates"]
<1> USE DEF AuditInv
<1> SUFFICES ASSUME NEW v \in Raw', NEW u \in Updates, SlotOf[u] < SlotOf[v]
             PROVE  u \in Raw' \/ InSeam(u)'
  BY DEF NoHoleOutsideSeams, Missing, PassedBy
<1>1. InSeam(u) => InSeam(u)' BY SeamsOnlyGrow DEF InSeam
<1>2. CASE v \in Raw /\ Raw \subseteq Raw'
  BY <1>1, <1>2 DEF NoHoleOutsideSeams, Missing, PassedBy
<1>3. CASE /\ pc = "insert" /\ v \in RowsIn(batch, "account_updates")
           /\ Raw' = Raw \cup RowsIn(batch, "account_updates")
  <2>1. v \in ToSet(batch) /\ v \in Updates
    BY <1>3, ToSetType DEF RowsIn, IInv, TypeOK
  <2>2. SlotOf[v] <= last_slot BY <1>3, <2>1 DEF MemoryInOrder, InMemory
  <2> QED BY <1>1, <1>3, <2>1, <2>2, BatchHasNoHole
<1>4. CASE tables' = tables BY <1>2, <1>4
<1>5. CASE tables' # tables BY <1>2, <1>3, <1>5, RowsFromBatch
<1> QED BY <1>4, <1>5

(* Nothing the chain produced before a stored row is missing from          *)
(* account_updates unless some session was not served it: the holes the    *)
(* audit of the archive finds are the provider's, never the indexer's,     *)
(* whatever crashes, times out or is inserted late.                        *)
THEOREM OnlySeamsAreHoles == Spec => []NoHoleOutsideSeams
<1>1. Init => MemoryInOrder /\ NoHoleOutsideSeams
  <2> SUFFICES ASSUME Init PROVE MemoryInOrder /\ NoHoleOutsideSeams OBVIOUS
  <2>1. MemoryInOrder BY EmptyFacts DEF Init, MemoryInOrder, InMemory
  <2>2. tables["account_updates"] = {} BY DEF Init, Tables
  <2> QED BY <2>1, <2>2 DEF NoHoleOutsideSeams, PassedBy
<1>2. AuditInv /\ IInv' /\ [Next]_vars => AuditInv'
  BY MemoryStaysInOrder, HolesStaySeams DEF AuditInv
<1>3. AuditInv => NoHoleOutsideSeams BY DEF AuditInv
<1>4. Init /\ IInv => AuditInv BY <1>1 DEF AuditInv
<1> QED BY <1>2, <1>3, <1>4, Invariance, PTL DEF Spec

-----------------------------------------------------------------------------
(* The audit and the gap table.                                            *)

(* As BatchHasNoHole, and the hole has its gap row: a batch is inserted    *)
(* only after the seam of its session was judged.                          *)
LEMMA BatchHolesAreRecorded ==
  ASSUME SeamInv, pc = "insert",
         NEW v \in ToSet(batch), NEW u \in Updates, SlotOf[u] < SlotOf[v],
         SlotOf[v] <= last_slot
  PROVE  \/ u \in tables["account_updates"] \/ Recorded(u)
         \/ u \in RowsIn(batch, "account_updates")
<1> USE DEF SeamInv, IInv
<1>1. /\ v \in Updates /\ SlotOf[u] \in Nat /\ SlotOf[v] \in Nat
      /\ "account_updates" \in TablesOf[u]
      /\ last_slot \in Nat /\ served_from \in Nat
  BY ToSetType, IndexerAssumption DEF TypeOK
<1>2. /\ session_first_slot \in Nat /\ session_first_slot # NoSlot
      /\ served_from <= session_first_slot
  BY DEF BatchOK, SessionOK, TypeOK, Slots, OptSlot
<1>3. Complete(u) => u \in tables["account_updates"]
  BY <1>1 DEF Complete
<1>4. CASE served_from <= SlotOf[u]
  <2>1. u \in delivered BY <1>1, <1>2, <1>4 DEF SessionOK
  <2>2. Complete(u) \/ u \in ToSet(batch)
    BY <2>1, EmptyFacts DEF SessionOK, InMemory, ControlOK
  <2> QED BY <1>1, <1>3, <2>2 DEF RowsIn
<1>5. CASE SlotOf[u] < served_from
  <2>1. Safe(session_first_slot)
    BY <1>2, JudgedIsSafe DEF JudgeOK, InSession
  <2>2. SlotOf[u] < session_first_slot BY <1>1, <1>2, <1>5
  <2> QED BY <1>3, <2>1, <2>2 DEF Safe
<1> QED BY <1>1, <1>4, <1>5

HolesRecorded == \A u \in Missing : PassedBy(u) => Recorded(u)

LEMMA HolesStayRecorded ==
  ASSUME SeamInv, MemoryInOrder, HolesRecorded, [Next]_vars
  PROVE  HolesRecorded'
<1> DEFINE Raw == tables["account_updates"]
<1> SUFFICES ASSUME NEW v \in Raw', NEW u \in Updates, SlotOf[u] < SlotOf[v]
             PROVE  u \in Raw' \/ Recorded(u)'
  BY DEF HolesRecorded, Missing, PassedBy
<1>1. Recorded(u) => Recorded(u)' BY RecordedStays
<1>2. CASE v \in Raw /\ Raw \subseteq Raw'
  BY <1>1, <1>2 DEF HolesRecorded, Missing, PassedBy
<1>3. CASE /\ pc = "insert" /\ v \in RowsIn(batch, "account_updates")
           /\ Raw' = Raw \cup RowsIn(batch, "account_updates")
  <2>1. v \in ToSet(batch) /\ v \in Updates
    BY <1>3, ToSetType DEF RowsIn, SeamInv, IInv, TypeOK
  <2>2. SlotOf[v] <= last_slot BY <1>3, <2>1 DEF MemoryInOrder, InMemory
  <2> QED BY <1>1, <1>3, <2>1, <2>2, BatchHolesAreRecorded
<1>4. CASE tables' = tables BY <1>2, <1>4
<1>5. CASE tables' # tables BY <1>2, <1>3, <1>5, RowsFromBatch DEF SeamInv
<1> QED BY <1>4, <1>5

(* The audit of the archive finds no hole behind the indexer's newest row  *)
(* that the gap table has no row for, whatever rows the snapshot job has   *)
(* put between the indexer's: what it finds there was lost before the      *)
(* first checkpoint, or in a drift within tolerance, or under a resume     *)
(* point that has a row in slot_gaps, unless inserting that row returned   *)
(* an error.                                                               *)
THEOREM AuditIsAnswered ==
  ASSUME 0 \notin Budgets PROVE Spec => []AuditAgreesWithGapTable
<1>1. Init => MemoryInOrder /\ NoHoleOutsideSeams /\ HolesRecorded
  <2> SUFFICES ASSUME Init
               PROVE  MemoryInOrder /\ NoHoleOutsideSeams /\ HolesRecorded
    OBVIOUS
  <2>1. MemoryInOrder BY EmptyFacts DEF Init, MemoryInOrder, InMemory
  <2>2. tables["account_updates"] = {} BY DEF Init, Tables
  <2> QED BY <2>1, <2>2 DEF NoHoleOutsideSeams, HolesRecorded, PassedBy
<1>2. SeamInv /\ SeamInv' /\ AuditInv /\ HolesRecorded /\ [Next]_vars =>
        (AuditInv /\ HolesRecorded)'
  BY MemoryStaysInOrder, HolesStaySeams, HolesStayRecorded DEF AuditInv, SeamInv
<1>3. SeamInv /\ HolesRecorded => AuditAgreesWithGapTable
  BY RecordedIsNamed DEF HolesRecorded, AuditAgreesWithGapTable, Missing
<1>4. Init /\ SeamInv => AuditInv /\ HolesRecorded
  BY <1>1 DEF AuditInv, SeamInv
<1> QED BY <1>2, <1>3, <1>4, SeamInvariance, PTL DEF Spec
=============================================================================
