--------------------------- MODULE IndexerProofs ----------------------------
(***************************************************************************)
(* Proofs about the stream indexer, for every set of updates, batch size,  *)
(* tolerance, replay window and number of faults: its checkpoint and the   *)
(* refinement of the log, stops and samples, and the rows of its holes.    *)
(***************************************************************************)
EXTENDS Indexer, TLAPS

-----------------------------------------------------------------------------
(* Sequences of rows.                                                      *)

LEMMA AppendFacts ==
  ASSUME NEW s \in Rows, NEW u \in Updates
  PROVE  /\ Append(s, u) \in Rows /\ Append(s, u) # <<>>
         /\ Len(Append(s, u)) = Len(s) + 1
         /\ Last(Append(s, u)) = u
         /\ ToSet(Append(s, u)) = ToSet(s) \cup {u}
BY DEF Rows, Last, ToSet

LEMMA LastFacts ==
  ASSUME NEW s \in Rows, s # <<>>
  PROVE  Last(s) \in Updates /\ Last(s) \in ToSet(s) /\ HighWater(s) \in Nat
BY IndexerAssumption DEF Rows, Last, ToSet, HighWater

LEMMA ToSetType ==
  ASSUME NEW s \in Rows PROVE ToSet(s) \subseteq Updates
BY DEF Rows, ToSet

LEMMA EmptyFacts == <<>> \in Rows /\ Len(<<>>) = 0 /\ ToSet(<<>>) = {}
BY DEF Rows, ToSet

(* The next table of a flush is one of those still to go.                  *)
LEMMA NextTableFacts ==
  ASSUME NEW todo \in SUBSET Tables, todo # {}
  PROVE  NextTable(todo) \in todo
BY DEF NextTable, Tables

-----------------------------------------------------------------------------
(* Type correctness, with the control invariant it needs: a flush in       *)
(* progress has a last row to take the checkpoint from.                    *)

LEMMA InitTypeControl == Init => TypeOK /\ ControlOK
<1> SUFFICES ASSUME Init PROVE TypeOK /\ ControlOK OBVIOUS
<1> USE DEF Init
<1>1. /\ tables \in [Tables -> SUBSET Updates]
      /\ checkpoint \in Slots /\ limbo \subseteq Slots
      /\ gaps \subseteq GapRows /\ gap_row \in GapRows
  BY DEF Slots, OptSlot, NoRow, GapRows
<1>2. /\ tip \in Nat /\ served_from \in Nat /\ delivered \subseteq Updates
      /\ resume_from \in Slots /\ first_slot \in Slots /\ last_slot \in Nat
      /\ session_first_slot \in Slots
  BY DEF Slots, OptSlot
<1>3. force_tip \in BOOLEAN /\ shutdown \in BOOLEAN /\ resume_judged \in BOOLEAN
  OBVIOUS
<1>4. /\ buf \in Rows /\ Len(buf) < BatchMax
      /\ batch \in Rows /\ Len(batch) <= BatchMax /\ unsent \subseteq Tables
  BY EmptyFacts, IndexerAssumption
<1>5. /\ base \in Slots /\ seams \subseteq [from : Slots, to : Nat]
      /\ unrecorded \subseteq Slots /\ opened \in Nat /\ faults \in Nat
  BY DEF Slots, OptSlot
<1>6. ControlOK BY DEF ControlOK
<1> QED BY <1>1, <1>2, <1>3, <1>4, <1>5, <1>6 DEF TypeOK

LEMMA ForgetType ==
  ASSUME Forget
  PROVE  /\ resume_from' \in Slots /\ force_tip' \in BOOLEAN
         /\ shutdown' \in BOOLEAN /\ first_slot' \in Slots
         /\ last_slot' \in Nat /\ session_first_slot' \in Slots
         /\ resume_judged' \in BOOLEAN
         /\ buf' \in Rows /\ buf' = <<>> /\ Len(buf') < BatchMax
         /\ batch' \in Rows /\ Len(batch') <= BatchMax
         /\ unsent' \subseteq Tables
         /\ gap_row' \in GapRows /\ served_from' \in Nat
         /\ delivered' \subseteq Updates /\ base' \in Slots /\ opened' \in Nat
<1> USE DEF Forget
<1>1. /\ resume_from' \in Slots /\ first_slot' \in Slots /\ last_slot' \in Nat
      /\ session_first_slot' \in Slots /\ base' \in Slots
      /\ gap_row' \in GapRows
  BY DEF Slots, OptSlot, NoRow, GapRows
<1>2. /\ force_tip' \in BOOLEAN /\ shutdown' \in BOOLEAN
      /\ resume_judged' \in BOOLEAN
  OBVIOUS
<1>3. /\ buf' \in Rows /\ buf' = <<>> /\ Len(buf') < BatchMax
      /\ batch' \in Rows /\ Len(batch') <= BatchMax
  BY EmptyFacts, IndexerAssumption
<1>4. /\ unsent' \subseteq Tables /\ served_from' \in Nat
      /\ delivered' \subseteq Updates /\ opened' \in Nat
  OBVIOUS
<1> QED BY <1>1, <1>2, <1>3, <1>4

LEMMA StoreRowsType ==
  ASSUME TypeOK, NEW t \in Tables, StoreRows(t)
  PROVE  /\ tables' \in [Tables -> SUBSET Updates]
         /\ tables'[t] = tables[t] \cup RowsIn(batch, t)
         /\ \A r \in Tables : tables[r] \subseteq tables'[r]
<1>1. RowsIn(batch, t) \subseteq Updates
  BY ToSetType DEF RowsIn, TypeOK
<1> QED BY <1>1 DEF StoreRows, TypeOK

LEMMA FinalFlushType ==
  ASSUME TypeOK, ControlOK, FinalFlush
  PROVE  /\ pc' \in {"ended", "insert"}
         /\ ret' \in {"resume", "stream", "handled", "ended"}
         /\ buf' \in Rows /\ Len(buf') < BatchMax /\ buf' = <<>>
         /\ batch' \in Rows /\ Len(batch') <= BatchMax
         /\ unsent' \subseteq Tables
         /\ pc' = "insert" => batch' # <<>> /\ ret' = "ended"
<1>1. CASE buf = <<>>
  BY <1>1, EmptyFacts DEF FinalFlush, TypeOK, writer
<1>2. CASE buf # <<>>
  BY <1>2, EmptyFacts, IndexerAssumption
     DEF FinalFlush, StartFlush, TypeOK, Rows
<1> QED BY <1>1, <1>2

LEMMA NextTypeControl ==
  ASSUME TypeOK, ControlOK, [Next]_vars
  PROVE  TypeOK' /\ ControlOK'
<1> USE DEF TypeOK, ControlOK
<1>1. CASE Boot
  BY <1>1, ForgetType DEF Boot, store
<1>2. CASE ReadCheckpoint
  BY <1>2 DEF ReadCheckpoint, ResumePoint, store, provider, seam, writer
<1>3. CASE StartFromTip
  BY <1>3 DEF StartFromTip, store, provider, seam, writer, ghost, Slots, OptSlot
<1>4. CASE Subscribed
  <2>1. PICK f \in Openings : SubscribeOpens(f) BY <1>4 DEF Subscribed
  <2>2. f \in Nat BY IndexerAssumption DEF Openings, Nowhere
  <2>3. served_from' \in Nat /\ delivered' \subseteq Updates
        /\ session_first_slot' \in Slots /\ opened' \in Nat
    BY <2>1, <2>2 DEF SubscribeOpens, Slots, OptSlot
  <2>4. pc' = "stream" /\ ret' = ret /\ resume_judged' \in BOOLEAN
    BY <2>1 DEF SubscribeOpens
  <2>5. UNCHANGED <<store, tip, slot_budget, conn, loop, writer, gap_row, base,
                    seams, unrecorded, faults>>
    BY <2>1 DEF SubscribeOpens
  <2> QED BY <2>3, <2>4, <2>5 DEF store, loop, writer
<1>5. CASE SubscribeRejected
  BY <1>5 DEF SubscribeRejected, RecordGap, GapRow, GapRows, Faulty, Slots,
              OptSlot, store, provider, seam, writer, ghost
<1>6. CASE Delivers
  <2>1. PICK u \in Updates : Deliver(u) BY <1>6 DEF Delivers
  <2>2. SlotOf[u] \in Nat BY IndexerAssumption
  <2>3. SeamBefore(SlotOf[u]) \subseteq [from : Slots, to : Nat]
    BY <2>2 DEF SeamBefore, Asked
  <2>4. PICK r \in Rows : /\ r = Append(buf, u) /\ r # <<>>
                          /\ Len(r) = Len(buf) + 1 /\ Len(r) <= BatchMax
    <3>1. /\ Append(buf, u) \in Rows /\ Append(buf, u) # <<>>
          /\ Len(Append(buf, u)) = Len(buf) + 1
      BY AppendFacts
    <3>2. Len(buf) \in Nat BY DEF Rows
    <3>3. Len(Append(buf, u)) <= BatchMax BY <3>1, <3>2, IndexerAssumption
    <3> QED BY <3>1, <3>3
  <2>5. /\ buf' \in Rows /\ Len(buf') < BatchMax
        /\ batch' \in Rows /\ Len(batch') <= BatchMax /\ unsent' \subseteq Tables
        /\ pc' \in {"handled", "insert"}
        /\ ret' \in {"resume", "stream", "handled", "ended"}
        /\ pc' = "insert" => batch' # <<>> /\ buf' = <<>> /\ ret' = "handled"
    <3>1. CASE BatchFull(r)
      <4>1. /\ pc' = "insert" /\ ret' = "handled" /\ unsent' \subseteq Tables
            /\ batch' = r /\ buf' = <<>>
        BY <2>1, <2>4, <3>1 DEF Deliver, StartFlush
      <4> QED BY <2>4, <4>1, EmptyFacts, IndexerAssumption
    <3>2. CASE ~BatchFull(r)
      <4>1. pc' = "handled" /\ buf' = r /\ UNCHANGED <<batch, unsent, ret>>
        BY <2>1, <2>4, <3>2 DEF Deliver
      <4>2. Len(buf') < BatchMax
        BY <2>4, <3>2, <4>1, IndexerAssumption DEF BatchFull, Rows
      <4> QED BY <2>4, <4>1, <4>2
    <3> QED BY <3>1, <3>2
  <2> QED BY <2>1, <2>2, <2>3, <2>5 DEF Deliver, store, Slots, OptSlot
<1>7. CASE StopOnBudget
  BY <1>7, FinalFlushType
     DEF StopOnBudget, store, provider, loop, seam, ghost
<1>8. CASE Judge
  BY <1>8 DEF Judge, ClassifyResume, NotApplicable, Clean, Gap, RecordGap,
              GapRow, GapRows, SeamEvidence, store, provider, loop, writer, ghost
<1>9. CASE TimerFlush
  <2>1. batch' \in Rows /\ Len(batch') <= BatchMax /\ batch' # <<>>
    BY <1>9, IndexerAssumption DEF TimerFlush, StartFlush, Rows
  <2> QED BY <1>9, <2>1, EmptyFacts, IndexerAssumption
      DEF TimerFlush, StartFlush, store, provider, loop, seam, ghost
<1>10. CASE \E signalled \in BOOLEAN : LeaveStream(signalled)
  BY <1>10, FinalFlushType DEF LeaveStream, Faulty, store, provider, seam, ghost
<1>11. CASE ReplayErrors
  BY <1>11, FinalFlushType DEF ReplayErrors, store, provider, loop, seam, ghost
<1>12. CASE Stop
  BY <1>12 DEF Stop, store, provider, loop, seam, writer, ghost
<1>13. CASE ResumeUnreachable
  BY <1>13 DEF ResumeUnreachable, RecordGap, GapRow, GapRows, Slots, OptSlot,
               store, provider, seam, writer, ghost
<1>14. CASE Reconnect
  BY <1>14 DEF Reconnect, store, provider, loop, seam, writer, ghost
<1>15. CASE InsertRows
  <2>1. NextTable(unsent) \in Tables
    BY <1>15, NextTableFacts DEF InsertRows, DataCommitted
  <2> QED BY <1>15, <2>1, StoreRowsType
      DEF InsertRows, provider, loop, seam, ghost
<1>16. CASE InsertCheckpoint
  BY <1>16, LastFacts, EmptyFacts, IndexerAssumption
     DEF InsertCheckpoint, provider, loop, seam, ghost, Slots, OptSlot
<1>17. CASE InsertFails
  <2>1. tables' \in [Tables -> SUBSET Updates]
    <3>1. CASE UNCHANGED tables BY <3>1
    <3>2. CASE ~DataCommitted /\ StoreRows(NextTable(unsent))
      BY <3>2, NextTableFacts, StoreRowsType DEF DataCommitted
    <3> QED BY <1>17, <3>1, <3>2 DEF InsertFails, store
  <2>2. checkpoint' \in Slots /\ limbo' \subseteq Slots /\ gaps' = gaps
    BY <1>17, LastFacts DEF InsertFails, store, Slots, OptSlot
  <2>3. faults' \in Nat BY <1>17 DEF InsertFails, Faulty
  <2> QED BY <1>17, <2>1, <2>2, <2>3, ForgetType DEF InsertFails, Exit
<1>18. CASE \E c \in limbo : LateCheckpoint(c)
  BY <1>18 DEF LateCheckpoint, provider, loop, seam, writer, ghost
<1>19. CASE RecordGapReturns
  BY <1>19, EmptyFacts
     DEF RecordGapReturns, UpsertGap, NoRow, GapRows, Slots, OptSlot, provider,
         loop, seam, writer, ghost
<1>20. CASE RecordGapErrs
  <2>1. gaps' \subseteq GapRows /\ gap_row' \in GapRows /\ unrecorded' \subseteq Slots
    BY <1>20 DEF RecordGapErrs, UpsertGap, NoRow, GapRows, Slots, OptSlot
  <2> QED BY <1>20, <2>1
      DEF RecordGapErrs, Faulty, provider, loop, seam, writer
<1>21. CASE Crash
  BY <1>21, ForgetType DEF Crash, Exit, Faulty, store
<1>22. CASE ConnHalfOpens
  BY <1>22 DEF ConnHalfOpens, Faulty, store, provider, loop, seam, writer, ghost
<1>23. CASE WatchdogRestarts
  BY <1>23, ForgetType DEF WatchdogRestarts, Exit, store
<1>24. CASE TipAdvances
  BY <1>24 DEF TipAdvances, store, provider, loop, seam, writer, ghost
<1>25. CASE UNCHANGED vars
  BY <1>25 DEF vars, store, provider, loop, seam, writer, ghost
<1> QED
  BY <1>1, <1>2, <1>3, <1>4, <1>5, <1>6, <1>7, <1>8, <1>9, <1>10, <1>11, <1>12,
     <1>13, <1>14, <1>15, <1>16, <1>17, <1>18, <1>19, <1>20, <1>21, <1>22,
     <1>23, <1>24, <1>25 DEF Next

(* Every variable keeps its type in every reachable state, and the buffers *)
(* stay below the size trigger (BATCH_MAX_ROWS).                           *)
THEOREM TypeCorrect == Spec => []TypeOK
<1>1. TypeOK /\ ControlOK /\ [Next]_vars => (TypeOK /\ ControlOK)'
  BY NextTypeControl
<1> QED BY <1>1, InitTypeControl, PTL DEF Spec

-----------------------------------------------------------------------------
(* Coverage.  What a slot covers can only grow: no step deletes a row or   *)
(* forgets a hole.                                                         *)

Grows == /\ \A t \in Tables : tables[t] \subseteq tables'[t]
         /\ seams \subseteq seams'

LEMMA CoveredGrows ==
  ASSUME Grows, NEW c, Covered(c) PROVE Covered(c)'
BY IndexerAssumption DEF Grows, Covered, Complete, InSeam

LEMMA CompleteGrows ==
  ASSUME Grows, NEW u \in Updates, Complete(u) PROVE Complete(u)'
BY IndexerAssumption DEF Grows, Complete

(* Before slot 0 there is nothing to cover.                                *)
LEMMA NothingBelowNoSlot == Covered(NoSlot)
BY IndexerAssumption DEF Covered, NoSlot

LEMMA NothingBelowNoSlotNext == Covered(NoSlot)'
BY IndexerAssumption DEF Covered, NoSlot

DataOK == BatchOK /\ SessionOK /\ CoverageOK

(* A step that touches no row, no slot and no hole.                        *)
LEMMA QuietStep ==
  ASSUME DataOK,
         UNCHANGED <<tables, checkpoint, limbo, provider, buf, batch, unsent,
                     last_slot, session_first_slot, base, seams>>,
         resume_from' \in {resume_from, NoSlot},
         pc = "insert" <=> pc' = "insert"
  PROVE  DataOK'
<1> USE DEF DataOK, provider
<1>1. BatchOK'
  BY DEF BatchOK, RowsIn, HighWater
<1>2. SessionOK'
  BY DEF SessionOK, InMemory, Complete
<1>3. CoverageOK'
  BY DEF CoverageOK, Covered, Complete, InSeam
<1> QED BY <1>1, <1>2, <1>3

(* A process that ends takes nothing with it that was counted as covered.  *)
LEMMA ExitStep ==
  ASSUME Exit, Covered(checkpoint)', \A c \in limbo' : Covered(c)'
  PROVE  DataOK'
<1>1. BatchOK' BY DEF Exit, Forget, BatchOK
<1>2. SessionOK' BY DEF Exit, Forget, SessionOK
<1>3. Covered(base)' BY NothingBelowNoSlotNext DEF Exit, Forget, Covered
<1>4. CoverageOK' BY <1>3 DEF Exit, Forget, CoverageOK
<1> QED BY <1>1, <1>2, <1>4 DEF DataOK

(* Taking the buffer for a flush moves its rows, all of its tables to go.  *)
LEMMA TakeBuffer ==
  ASSUME TypeOK, DataOK, pc # "insert", buf # <<>>,
         NEW then, StartFlush(buf, then),
         UNCHANGED <<tables, checkpoint, limbo, provider, last_slot,
                     session_first_slot, resume_from, base, seams>>
  PROVE  DataOK'
<1> USE DEF DataOK, provider
<1>1. /\ pc' = "insert" /\ batch' = buf /\ buf' = <<>>
      /\ unsent' = {t \in Tables : RowsIn(buf, t) # {}}
  BY DEF StartFlush
<1>2. BatchOK'
  BY <1>1 DEF BatchOK, RowsIn, HighWater
<1>3. SessionOK'
  BY <1>1 DEF SessionOK, InMemory, Complete
<1>4. CoverageOK'
  BY DEF CoverageOK, Covered, Complete, InSeam
<1> QED BY <1>2, <1>3, <1>4

LEMMA FinalFlushStep ==
  ASSUME TypeOK, DataOK, pc \in {"stream", "handled"}, FinalFlush,
         UNCHANGED <<tables, checkpoint, limbo, provider, last_slot,
                     session_first_slot, resume_from, base, seams>>
  PROVE  DataOK'
<1>1. CASE buf = <<>>
  BY <1>1, QuietStep DEF FinalFlush, writer
<1>2. CASE buf # <<>>
  BY <1>2, TakeBuffer DEF FinalFlush
<1> QED BY <1>1, <1>2

(* The rows of a batch that went through every table are complete, and     *)
(* with them everything below the last slot processed.                     *)
LEMMA FlushedIsCovered ==
  ASSUME IInv, pc = "insert", unsent = {}
  PROVE  /\ \A u \in delivered : Complete(u)
         /\ Covered(last_slot) /\ HighWater(batch) = last_slot
<1> USE DEF IInv
<1>1. HighWater(batch) = last_slot /\ session_first_slot # NoSlot
  BY DEF BatchOK
<1>2. \A u \in ToSet(batch) : Complete(u)
  <2> SUFFICES ASSUME NEW u \in ToSet(batch), NEW t \in TablesOf[u]
               PROVE  u \in tables[t]
    BY DEF Complete
  <2>1. u \in Updates BY ToSetType DEF TypeOK
  <2>2. t \in Tables BY <2>1, IndexerAssumption
  <2> QED BY <2>2 DEF BatchOK, RowsIn
<1>3. \A u \in delivered : Complete(u)
  BY <1>2, EmptyFacts DEF SessionOK, InMemory, ControlOK
<1>4. Covered(last_slot)
  <2> SUFFICES ASSUME NEW u \in Updates, SlotOf[u] < last_slot
               PROVE  Complete(u) \/ InSeam(u)
    BY DEF Covered
  <2>1. CASE served_from <= SlotOf[u]
    BY <1>1, <1>3, <2>1 DEF SessionOK
  <2>2. CASE SlotOf[u] < served_from
    <3>1. /\ SlotOf[u] \in Nat /\ served_from \in Nat
          /\ session_first_slot \in Nat /\ served_from <= session_first_slot
      BY <1>1, IndexerAssumption DEF SessionOK, TypeOK, Slots, OptSlot
    <3>2. SlotOf[u] < session_first_slot BY <2>2, <3>1
    <3> QED BY <1>1, <3>2 DEF CoverageOK, Covered
  <2>3. SlotOf[u] \in Nat /\ served_from \in Nat
    BY IndexerAssumption DEF TypeOK
  <2> QED BY <2>1, <2>2, <2>3
<1> QED BY <1>1, <1>3, <1>4

-----------------------------------------------------------------------------
(* One message.                                                            *)

(* The first message of a session at slot s: below s there is what the     *)
(* resume point covered, and the hole that is noted now.  Nothing between  *)
(* the opening of the session and s was produced and not delivered.        *)
LEMMA FirstMessageCovers ==
  ASSUME IInv, NEW u \in Updates, Deliver(u), session_first_slot = NoSlot
  PROVE  Covered(SlotOf[u])' /\ served_from <= SlotOf[u]
<1> USE DEF IInv
<1>1. Grows /\ Asked = base /\ delivered = {} /\ base' = base
  BY DEF Grows, Deliver, store, Asked, CoverageOK, SessionOK
<1>2. \A v \in Updates : SlotOf[v] < base => (Complete(v) \/ InSeam(v))'
  BY <1>1, CoveredGrows DEF CoverageOK, Covered
<1>3. /\ served_from <= SlotOf[u]
      /\ \A v \in Updates :
           ~(SlotOf[v] >= served_from /\ SlotOf[v] < SlotOf[u])
  BY <1>1 DEF Deliver, Deliverable
<1>4. SUFFICES ASSUME NEW v \in Updates, SlotOf[v] < SlotOf[u]
               PROVE  (Complete(v) \/ InSeam(v))'
  BY <1>3 DEF Covered
<1>5. /\ SlotOf[v] \in Nat /\ SlotOf[u] \in Nat /\ served_from \in Nat
      /\ base \in Int
  BY IndexerAssumption DEF TypeOK, Slots, OptSlot, NoSlot
<1>6. SlotOf[v] < served_from BY <1>3, <1>4, <1>5
<1>7. CASE SlotOf[v] < base
  BY <1>2, <1>7
<1>8. CASE base <= SlotOf[v]
  <2>1. served_from > base BY <1>5, <1>6, <1>8
  <2>2. [from |-> base, to |-> SlotOf[u]] \in seams'
    BY <1>1, <2>1 DEF Deliver, SeamBefore
  <2>3. InSeam(v)' BY <1>4, <1>8, <2>2 DEF InSeam
  <2> QED BY <2>3
<1> QED BY <1>5, <1>7, <1>8

LEMMA DeliverStep ==
  ASSUME IInv, NEW u \in Updates, Deliver(u) PROVE DataOK'
<1> USE DEF IInv
<1>1. Grows BY DEF Grows, Deliver, store
<1>2. SlotOf[u] \in Nat BY IndexerAssumption
<1>3. /\ UNCHANGED <<tables, checkpoint, limbo, served_from, resume_from, base>>
      /\ delivered' = delivered \cup {u} /\ last_slot' = SlotOf[u]
      /\ session_first_slot' =
           IF session_first_slot = NoSlot THEN SlotOf[u] ELSE session_first_slot
      /\ pc = "stream"
  BY DEF Deliver, store
<1>4. session_first_slot' # NoSlot BY <1>2, <1>3 DEF NoSlot
<1>5. PICK r \in Rows : /\ r = Append(buf, u) /\ r # <<>> /\ HighWater(r) = SlotOf[u]
                        /\ ToSet(r) = ToSet(buf) \cup {u}
  BY AppendFacts DEF TypeOK, HighWater
<1>6. \/ /\ pc' = "insert" /\ batch' = r /\ buf' = <<>>
         /\ unsent' = {t \in Tables : RowsIn(r, t) # {}}
      \/ pc' = "handled" /\ buf' = r /\ UNCHANGED <<batch, unsent>>
  BY <1>5 DEF Deliver, StartFlush
<1>7. BatchOK'
  <2>1. HighWater(r) = last_slot' BY <1>3, <1>5
  <2>2. CASE pc' = "insert"
    <3>1. /\ batch' = r /\ buf' = <<>>
          /\ unsent' = {t \in Tables : RowsIn(r, t) # {}}
      BY <1>6, <2>2
    <3> QED BY <1>4, <2>1, <3>1 DEF BatchOK, RowsIn, HighWater
  <2>3. CASE pc' = "handled"
    <3>1. buf' = r BY <1>6, <2>3
    <3> QED BY <1>4, <2>1, <2>3, <3>1 DEF BatchOK, HighWater
  <2> QED BY <1>6, <2>2, <2>3
<1>8. SessionOK'
  <2>1. \A v \in delivered' : (Complete(v) \/ InMemory(v))'
    <3> SUFFICES ASSUME NEW v \in delivered'
                 PROVE  (Complete(v) \/ InMemory(v))'
      OBVIOUS
    <3>1. v \in ToSet(r) => InMemory(v)' BY <1>6 DEF InMemory
    <3>2. CASE v = u BY <1>5, <3>1, <3>2
    <3>3. CASE v \in delivered
      <4>1. v \in Updates BY <3>3 DEF TypeOK
      <4>2. Complete(v) \/ v \in ToSet(buf)
        BY <1>3, <3>3 DEF SessionOK, InMemory
      <4> QED BY <1>1, <1>5, <3>1, <4>1, <4>2, CompleteGrows
    <3> QED BY <1>3, <3>2, <3>3
  <2>2. served_from' <= session_first_slot'
    BY <1>3, FirstMessageCovers DEF SessionOK
  <2>3. \A v \in Updates : served_from' <= SlotOf[v] /\ SlotOf[v] < last_slot'
                             => v \in delivered'
    BY <1>3, IndexerAssumption DEF Deliver, Deliverable, TypeOK
  <2> QED BY <1>4, <2>1, <2>2, <2>3 DEF SessionOK
<1>9. CoverageOK'
  <2>1. /\ Covered(checkpoint)' /\ Covered(base)'
        /\ \A c \in limbo' : Covered(c)'
    BY <1>1, <1>3, CoveredGrows DEF CoverageOK, Covered
  <2>2. Covered(session_first_slot)'
    <3>1. CASE session_first_slot = NoSlot
      BY <1>3, <3>1, FirstMessageCovers DEF Covered
    <3>2. CASE session_first_slot # NoSlot
      BY <1>1, <1>3, <3>2, CoveredGrows DEF CoverageOK, Covered
    <3> QED BY <3>1, <3>2
  <2> QED BY <1>3, <2>1, <2>2 DEF CoverageOK
<1> QED BY <1>7, <1>8, <1>9 DEF DataOK

-----------------------------------------------------------------------------
(* The inductive invariant.                                                *)

LEMMA InitIInv == Init => IInv
<1> SUFFICES ASSUME Init PROVE IInv OBVIOUS
<1>1. TypeOK /\ ControlOK BY InitTypeControl
<1>2. BatchOK BY DEF Init, BatchOK
<1>3. SessionOK BY DEF Init, SessionOK
<1>4. CoverageOK BY NothingBelowNoSlot DEF Init, CoverageOK
<1> QED BY <1>1, <1>2, <1>3, <1>4 DEF IInv

LEMMA NextIInv ==
  ASSUME IInv, [Next]_vars PROVE IInv'
<1> USE DEF IInv, DataOK
<1>0. TypeOK' /\ ControlOK' BY NextTypeControl
<1> SUFFICES DataOK' BY <1>0
<1>1. CASE Boot
  <2>1. \A c \in limbo \cup {checkpoint} : Covered(c)' 
    BY <1>1 DEF Boot, store, CoverageOK, Covered, Complete, InSeam
  <2>2. Covered(checkpoint)' /\ \A c \in limbo' : Covered(c)'
    BY <1>1, <2>1 DEF Boot, store, Covered
  <2>3. BatchOK' /\ SessionOK' BY <1>1 DEF Boot, Forget, BatchOK, SessionOK
  <2>4. Covered(base)'
    BY <1>1, NothingBelowNoSlotNext DEF Boot, Forget, Covered
  <2>5. CoverageOK' BY <1>1, <2>2, <2>4 DEF Boot, Forget, CoverageOK
  <2> QED BY <2>3, <2>5
<1>2. CASE ReadCheckpoint
  <2>1. /\ base' = checkpoint /\ resume_from' = checkpoint
        /\ UNCHANGED <<tables, checkpoint, limbo, provider, buf, batch, unsent,
                       last_slot, session_first_slot, seams>>
        /\ pc # "insert" /\ pc' # "insert"
    BY <1>2 DEF ReadCheckpoint, ResumePoint, store, provider, seam, writer
  <2>2. BatchOK' BY <2>1 DEF BatchOK, HighWater
  <2>3. SessionOK' BY <2>1 DEF SessionOK, InMemory, Complete, provider
  <2>4. CoverageOK' BY <2>1 DEF CoverageOK, Covered, Complete, InSeam
  <2> QED BY <2>2, <2>3, <2>4
<1>3. CASE StartFromTip
  BY <1>3, QuietStep DEF StartFromTip, store, seam, writer, ghost
<1>4. CASE Subscribed
  <2>1. PICK f \in Openings : SubscribeOpens(f) BY <1>4 DEF Subscribed
  <2>2. /\ buf = <<>> /\ delivered' = {} /\ session_first_slot' = NoSlot
        /\ UNCHANGED <<store, resume_from, buf, base, seams>>
        /\ pc' # "insert"
    BY <2>1 DEF SubscribeOpens, ControlOK, writer, loop
  <2>3. BatchOK' /\ SessionOK' BY <2>2 DEF BatchOK, SessionOK
  <2>4. CoverageOK' BY <2>2 DEF CoverageOK, Covered, Complete, InSeam, store
  <2> QED BY <2>3, <2>4
<1>5. CASE SubscribeRejected
  BY <1>5, QuietStep
     DEF SubscribeRejected, RecordGap, store, seam, writer, ghost
<1>6. CASE Delivers
  BY <1>6, DeliverStep DEF Delivers
<1>7. CASE StopOnBudget
  BY <1>7, FinalFlushStep DEF StopOnBudget, store, loop, seam, ghost
<1>8. CASE Judge
  <2>1. pc # "insert" /\ pc' # "insert" BY <1>8 DEF Judge, RecordGap
  <2> QED BY <1>8, <2>1, QuietStep DEF Judge, store, loop, writer, ghost
<1>9. CASE TimerFlush
  BY <1>9, TakeBuffer DEF TimerFlush, store, loop, seam, ghost
<1>10. CASE \E signalled \in BOOLEAN : LeaveStream(signalled)
  BY <1>10, FinalFlushStep DEF LeaveStream, store, seam, ghost
<1>11. CASE ReplayErrors
  BY <1>11, FinalFlushStep DEF ReplayErrors, store, loop, seam, ghost
<1>12. CASE Stop
  BY <1>12, QuietStep DEF Stop, store, loop, seam, writer, ghost
<1>13. CASE ResumeUnreachable
  BY <1>13, QuietStep
     DEF ResumeUnreachable, RecordGap, store, seam, writer, ghost
<1>14. CASE Reconnect
  BY <1>14, QuietStep DEF Reconnect, store, loop, seam, writer, ghost
<1>15. CASE InsertRows
  <2>1. NextTable(unsent) \in unsent /\ NextTable(unsent) \in Tables
    BY <1>15, NextTableFacts DEF InsertRows, DataCommitted, TypeOK
  <2>2. /\ Grows /\ seams' = seams
        /\ tables'[NextTable(unsent)] =
             tables[NextTable(unsent)] \cup RowsIn(batch, NextTable(unsent))
    BY <1>15, <2>1, StoreRowsType DEF InsertRows, Grows, ghost
  <2>3. /\ UNCHANGED <<checkpoint, limbo, provider, pc, buf, batch, last_slot,
                       session_first_slot, resume_from, base>>
        /\ unsent' = unsent \ {NextTable(unsent)}
    BY <1>15 DEF InsertRows, loop, seam, ghost
  <2>4. BatchOK'
    BY <2>1, <2>2, <2>3 DEF BatchOK, RowsIn, HighWater, Grows
  <2>5. SessionOK'
    <3>1. \A u \in delivered : Complete(u) => Complete(u)'
      BY <2>2, CompleteGrows DEF TypeOK
    <3> QED BY <2>3, <3>1 DEF SessionOK, InMemory, provider
  <2>6. CoverageOK'
    BY <2>2, <2>3, CoveredGrows DEF CoverageOK, Covered
  <2> QED BY <2>4, <2>5, <2>6
<1>16. CASE InsertCheckpoint
  <2>1. /\ checkpoint' = last_slot
        /\ \A u \in delivered : Complete(u)
        /\ Covered(last_slot)
    BY <1>16, FlushedIsCovered DEF InsertCheckpoint, DataCommitted
  <2>2. /\ UNCHANGED <<tables, limbo, provider, buf, last_slot,
                       session_first_slot, resume_from, base, seams>>
        /\ pc' # "insert" /\ buf = <<>>
    BY <1>16 DEF InsertCheckpoint, loop, seam, ghost, ControlOK, TypeOK
  <2>3. BatchOK' BY <2>2 DEF BatchOK
  <2>4. SessionOK' BY <2>1, <2>2 DEF SessionOK, Complete, provider
  <2>5. CoverageOK'
    BY <2>1, <2>2 DEF CoverageOK, Covered, Complete, InSeam
  <2> QED BY <2>3, <2>4, <2>5
<1>17. CASE InsertFails
  <2>1. Grows
    <3>1. CASE UNCHANGED tables
      BY <1>17, <3>1 DEF InsertFails, Grows
    <3>2. CASE ~DataCommitted /\ StoreRows(NextTable(unsent))
      BY <1>17, <3>2, NextTableFacts, StoreRowsType
         DEF InsertFails, Grows, DataCommitted, TypeOK
    <3> QED BY <1>17, <3>1, <3>2 DEF InsertFails, store
  <2>2. \A c \in limbo' \cup {checkpoint'} : Covered(c)
    <3>1. CASE DataCommitted
      BY <1>17, <3>1, FlushedIsCovered
         DEF InsertFails, DataCommitted, CoverageOK, store
    <3>2. CASE ~DataCommitted
      BY <1>17, <3>2 DEF InsertFails, CoverageOK, store
    <3> QED BY <3>1, <3>2
  <2>3. Covered(checkpoint)' /\ \A c \in limbo' : Covered(c)'
    BY <2>1, <2>2, CoveredGrows DEF Covered
  <2> QED BY <1>17, <2>3, ExitStep DEF InsertFails
<1>18. CASE \E c \in limbo : LateCheckpoint(c)
  <2>1. PICK c \in limbo : LateCheckpoint(c) BY <1>18
  <2>2. /\ checkpoint' = c /\ limbo' = limbo \ {c}
        /\ UNCHANGED <<tables, provider, pc, buf, batch, unsent, last_slot,
                       session_first_slot, resume_from, base, seams>>
    BY <2>1 DEF LateCheckpoint, loop, seam, writer, ghost
  <2>3. BatchOK' BY <2>2 DEF BatchOK, RowsIn, HighWater
  <2>4. SessionOK' BY <2>2 DEF SessionOK, InMemory, Complete, provider
  <2>5. CoverageOK' BY <2>2 DEF CoverageOK, Covered, Complete, InSeam
  <2> QED BY <2>3, <2>4, <2>5
<1>19. CASE RecordGapReturns
  <2>1. pc' # "insert" BY <1>19 DEF RecordGapReturns, ControlOK
  <2> QED BY <1>19, <2>1, QuietStep
      DEF RecordGapReturns, loop, seam, writer, ghost
<1>20. CASE RecordGapErrs
  <2>1. pc' # "insert" BY <1>20 DEF RecordGapErrs, ControlOK
  <2> QED BY <1>20, <2>1, QuietStep DEF RecordGapErrs, loop, seam, writer
<1>21. CASE Crash \/ WatchdogRestarts
  <2>1. Exit /\ UNCHANGED <<store, seams>>
    BY <1>21 DEF Crash, WatchdogRestarts
  <2>2. Covered(checkpoint)' /\ \A c \in limbo' : Covered(c)'
    BY <2>1 DEF CoverageOK, Covered, Complete, InSeam, store
  <2> QED BY <2>1, <2>2, ExitStep
<1>22. CASE ConnHalfOpens
  BY <1>22, QuietStep DEF ConnHalfOpens, store, loop, seam, writer, ghost
<1>23. CASE TipAdvances
  BY <1>23, QuietStep DEF TipAdvances, store, loop, seam, writer, ghost
<1>24. CASE UNCHANGED vars
  BY <1>24, QuietStep DEF vars, store, loop, seam, writer, ghost
<1> QED
  BY <1>1, <1>2, <1>3, <1>4, <1>5, <1>6, <1>7, <1>8, <1>9, <1>10, <1>11, <1>12,
     <1>13, <1>14, <1>15, <1>16, <1>17, <1>18, <1>19, <1>20, <1>21, <1>22,
     <1>23, <1>24 DEF Next

LEMMA Invariance == Spec => []IInv
<1>1. IInv /\ [Next]_vars => IInv' BY NextIInv
<1> QED BY <1>1, InitIInv, PTL DEF Spec

(* A checkpoint is never ahead of its data, whatever crashes, times out,   *)
(* lands late or is not replayed (Writer::flush, read_resume_slot).        *)
THEOREM CheckpointNeverAhead == Spec => []CheckpointCovered
<1>1. IInv => CheckpointCovered BY DEF IInv, CoverageOK, CheckpointCovered
<1> QED BY <1>1, Invariance, PTL

-----------------------------------------------------------------------------
(* Refinement.                                                             *)

LEMMA InitLog == Init => Log!Init
<1> SUFFICES ASSUME Init PROVE Log!Init OBVIOUS
<1>1. \A u \in Updates : ~Complete(u)
  BY IndexerAssumption DEF Init, Complete, Tables
<1> QED BY <1>1 DEF Init, Log!Init, NoSlot

(* A checkpoint that moves while rows and holes stand still is a Commit.   *)
LEMMA CommitStep ==
  ASSUME UNCHANGED <<tables, seams>>, checkpoint' \in Int, Covered(checkpoint)'
  PROVE  Log!Next
<1>1. UNCHANGED {u \in Updates : Complete(u)} BY DEF Complete
<1>2. Log!CompleteBelow(checkpoint)'
  BY DEF Log!CompleteBelow, Log!Skips, Covered, InSeam
<1> QED BY <1>1, <1>2 DEF Log!Next, Log!Commit, Log!CompleteBelow

LEMMA NextLog ==
  ASSUME IInv, IInv', [Next]_vars PROVE [Log!Next]_(Log!logVars)
<1> USE DEF IInv
<1>1. CASE UNCHANGED <<tables, checkpoint, seams>>
  <2>1. UNCHANGED {u \in Updates : Complete(u)} BY <1>1 DEF Complete
  <2> QED BY <1>1, <2>1 DEF Log!logVars
<1>2. CASE UNCHANGED <<tables, seams>>
  <2>1. checkpoint' \in Int /\ Covered(checkpoint)'
    BY DEF TypeOK, Slots, OptSlot, NoSlot, CoverageOK
  <2> QED BY <1>2, <2>1, CommitStep
<1>3. CASE UNCHANGED <<tables, checkpoint>> /\ seams \subseteq seams'
  <2>1. UNCHANGED {u \in Updates : Complete(u)} BY <1>3 DEF Complete
  <2>2. seams' \subseteq [from : Int, to : Int]
    BY DEF TypeOK, Slots, OptSlot, NoSlot
  <2> QED BY <1>3, <2>1, <2>2 DEF Log!Next, Log!Skip
<1>4. CASE UNCHANGED <<checkpoint, seams>> /\ Grows
  <2>1. {u \in Updates : Complete(u)} \subseteq {u \in Updates : Complete(u)}'
    BY <1>4, CompleteGrows
  <2> QED BY <1>4, <2>1 DEF Log!Next, Log!Store
<1>5. CASE InsertRows \/ (InsertFails /\ ~UNCHANGED tables)
  <2>1. StoreRows(NextTable(unsent)) /\ NextTable(unsent) \in Tables
    BY <1>5, NextTableFacts
       DEF InsertRows, InsertFails, DataCommitted, TypeOK, store
  <2>2. UNCHANGED <<checkpoint, seams>>
    BY <1>5 DEF InsertRows, InsertFails, ghost, store
  <2> QED BY <1>4, <2>1, <2>2, StoreRowsType DEF Grows
<1>6. CASE Delivers
  BY <1>3, <1>6 DEF Delivers, Deliver, store
<1>7. CASE InsertCheckpoint \/ (InsertFails /\ UNCHANGED tables)
           \/ \E c \in limbo : LateCheckpoint(c)
  BY <1>2, <1>7 DEF InsertCheckpoint, InsertFails, LateCheckpoint, ghost
<1> QED
  BY <1>1, <1>5, <1>6, <1>7
     DEF Next, Boot, ReadCheckpoint, StartFromTip, Subscribed, SubscribeOpens,
         SubscribeRejected, StopOnBudget, Judge, TimerFlush, LeaveStream,
         ReplayErrors, Stop, ResumeUnreachable, Reconnect, RecordGapReturns,
         RecordGapErrs, Crash, ConnHalfOpens, WatchdogRestarts, TipAdvances,
         vars, store, ghost

(* The indexer implements a resumable log: it stores, skips and commits,   *)
(* and every commit is of a complete prefix.                               *)
THEOREM IndexerImplementsLog == Spec => ImplementsLog
<1>1. IInv /\ IInv' /\ [Next]_vars => [Log!Next]_(Log!logVars) BY NextLog
<1> QED BY <1>1, InitLog, Invariance, PTL DEF Spec, ImplementsLog, Log!Spec

-----------------------------------------------------------------------------
(* Control at the end of a session.                                        *)

(* What a final flush does to control: the session is over, or its rows    *)
(* are on their way.                                                       *)
LEMMA FinalFlushControl ==
  ASSUME FinalFlush
  PROVE  pc' = "ended" \/ (pc' = "insert" /\ ret' = "ended" /\ buf # <<>>)
BY DEF FinalFlush, StartFlush

-----------------------------------------------------------------------------
(* Samples.                                                                *)

(* Whether a process is a sample is given with its environment.            *)
LEMMA BudgetIsFixed == ASSUME [Next]_vars PROVE slot_budget' = slot_budget
<1>1. CASE Boot \/ ReadCheckpoint \/ StartFromTip \/ Subscribed \/ SubscribeRejected
           \/ Delivers \/ StopOnBudget \/ Judge \/ TimerFlush \/ ReplayErrors
           \/ \E signalled \in BOOLEAN : LeaveStream(signalled)
  BY <1>1 DEF Boot, ReadCheckpoint, StartFromTip, Subscribed, SubscribeOpens,
              SubscribeRejected, Delivers, Deliver, StopOnBudget, Judge,
              TimerFlush, LeaveStream, ReplayErrors
<1>2. CASE Stop \/ ResumeUnreachable \/ Reconnect \/ InsertRows
           \/ InsertCheckpoint \/ InsertFails \/ RecordGapReturns
           \/ RecordGapErrs \/ \E c \in limbo : LateCheckpoint(c)
  BY <1>2 DEF Stop, ResumeUnreachable, Reconnect, InsertRows, InsertCheckpoint,
              InsertFails, LateCheckpoint, RecordGapReturns, RecordGapErrs
<1>3. CASE Crash \/ ConnHalfOpens \/ WatchdogRestarts \/ TipAdvances
           \/ UNCHANGED vars
  BY <1>3 DEF Crash, ConnHalfOpens, WatchdogRestarts, TipAdvances, vars
<1> QED BY <1>1, <1>2, <1>3 DEF Next

(* A sampling process never comes back to the reconnect loop once it has   *)
(* opened its stream; so its first slot is the session's.                  *)
SampleOK == Sampling =>
  /\ first_slot = session_first_slot
  /\ pc \in {"down", "resume", "subscribe"} => first_slot = NoSlot /\ opened = 0
  /\ pc = "gap" => ret = "stream"
  /\ opened <= 1

LEMMA SampleStep ==
  ASSUME TypeOK, ControlOK, SampleOK, [Next]_vars PROVE SampleOK'
<1> SUFFICES ASSUME Sampling PROVE SampleOK'
  BY BudgetIsFixed DEF SampleOK, Sampling
<1> USE DEF SampleOK
<1>1. CASE Boot \/ InsertFails \/ Crash \/ WatchdogRestarts
  BY <1>1 DEF Boot, InsertFails, Crash, WatchdogRestarts, Exit, Forget
<1>2. CASE ReadCheckpoint \/ StartFromTip
  BY <1>2 DEF ReadCheckpoint, StartFromTip, seam, ghost
<1>3. CASE Subscribed
  <2>1. PICK f \in Openings : SubscribeOpens(f) BY <1>3 DEF Subscribed
  <2> QED BY <2>1 DEF SubscribeOpens, loop
<1>4. CASE Delivers
  <2>1. PICK u \in Updates : Deliver(u) BY <1>4 DEF Delivers
  <2> QED BY <2>1 DEF Deliver, StartFlush
<1>5. CASE Judge \/ TimerFlush
  BY <1>5 DEF Judge, RecordGap, TimerFlush, StartFlush, loop, seam, ghost
<1>6. CASE StopOnBudget \/ ReplayErrors
           \/ \E signalled \in BOOLEAN : LeaveStream(signalled)
  BY <1>6, FinalFlushControl
     DEF StopOnBudget, ReplayErrors, LeaveStream, loop, seam, ghost
<1>7. CASE Stop BY <1>7 DEF Stop, loop, seam, ghost
<1>8. CASE SubscribeRejected \/ ResumeUnreachable \/ Reconnect
  BY <1>8 DEF SubscribeRejected, ResumeUnreachable, Reconnect, IntendedStop
<1>9. CASE InsertRows \/ InsertCheckpoint
  BY <1>9 DEF InsertRows, InsertCheckpoint, ControlOK, TypeOK, loop, seam, ghost
<1>10. CASE RecordGapReturns \/ RecordGapErrs
  BY <1>10 DEF RecordGapReturns, RecordGapErrs, loop, seam, ghost
<1>11. CASE (\E c \in limbo : LateCheckpoint(c)) \/ ConnHalfOpens \/ TipAdvances
            \/ UNCHANGED vars
  BY <1>11 DEF LateCheckpoint, ConnHalfOpens, TipAdvances, vars, loop, seam, ghost
<1> QED
  BY <1>1, <1>2, <1>3, <1>4, <1>5, <1>6, <1>7, <1>8, <1>9, <1>10, <1>11 DEF Next

LEMMA SampleInit == Init => SampleOK
BY DEF Init, SampleOK

(* A bounded sample never opens the billed stream a second time, whatever  *)
(* ends its session (main.rs, the returns after the final flush).          *)
THEOREM SamplesOpenOnce == Spec => []OneStreamPerSample
<1>1. IInv /\ SampleOK /\ [Next]_vars => SampleOK'
  BY SampleStep DEF IInv
<1>2. SampleOK => OneStreamPerSample BY DEF SampleOK, OneStreamPerSample
<1> QED BY <1>1, <1>2, SampleInit, Invariance, PTL DEF Spec

(* A stop by signal or budget leaves nothing in memory: the flush after    *)
(* the select loop has stored all the session delivered.                   *)
THEOREM StopsAreFlushed == Spec => []StopLosesNothing
<1>1. IInv => StopLosesNothing
  BY EmptyFacts DEF IInv, SessionOK, ControlOK, InMemory, StopLosesNothing
<1> QED BY <1>1, Invariance, PTL

-----------------------------------------------------------------------------
(* The judgement of a seam.                                                *)

JudgeOK ==
  /\ resume_judged => session_first_slot # NoSlot
  /\ pc = "handled" => session_first_slot # NoSlot
  /\ session_first_slot # NoSlot /\ pc # "handled" => resume_judged
  /\ pc = "handled" /\ ~resume_judged => last_slot = session_first_slot

LEMMA JudgeStep ==
  ASSUME 0 \notin Budgets, IInv, SampleOK, JudgeOK, [Next]_vars PROVE JudgeOK'
<1> USE DEF JudgeOK
<1>1. CASE Boot \/ InsertFails \/ Crash \/ WatchdogRestarts
  BY <1>1 DEF Boot, InsertFails, Crash, WatchdogRestarts, Exit, Forget
<1>2. CASE ReadCheckpoint \/ StartFromTip
  BY <1>2 DEF ReadCheckpoint, StartFromTip, seam
<1>3. CASE Subscribed
  <2>1. PICK f \in Openings : SubscribeOpens(f) BY <1>3 DEF Subscribed
  <2> QED BY <2>1 DEF SubscribeOpens
<1>4. CASE Delivers
  <2>1. PICK u \in Updates : Deliver(u) BY <1>4 DEF Delivers
  <2>2. SlotOf[u] # NoSlot BY IndexerAssumption DEF NoSlot
  <2>3. CASE session_first_slot # NoSlot
    BY <2>1, <2>3 DEF Deliver
  <2>4. CASE session_first_slot = NoSlot
    <3>1. buf = <<>> BY <2>4 DEF IInv, BatchOK
    <3>2. ~BatchFull(Append(buf, u))
      BY <3>1, IndexerAssumption DEF BatchFull
    <3> QED BY <2>1, <2>2, <2>4, <3>2 DEF Deliver
  <2> QED BY <2>3, <2>4
<1>5. CASE Judge
  BY <1>5 DEF Judge, RecordGap
<1>6. CASE TimerFlush
  BY <1>6 DEF TimerFlush, StartFlush, seam
<1>7. CASE StopOnBudget
  <2>1. resume_judged
    <3> SUFFICES ASSUME ~resume_judged PROVE FALSE OBVIOUS
    <3>1. Sampling /\ last_slot - first_slot >= slot_budget /\ pc = "handled"
      BY <1>7 DEF StopOnBudget, BudgetSpent
    <3>2. last_slot = first_slot BY <3>1 DEF SampleOK
    <3>3. slot_budget \in Nat /\ slot_budget # 0 /\ last_slot \in Nat
      BY <3>1, IndexerAssumption DEF Sampling, OptSlot, IInv, TypeOK
    <3> QED BY <3>1, <3>2, <3>3
  <2> QED BY <1>7, <2>1, FinalFlushControl DEF StopOnBudget, seam
<1>8. CASE ReplayErrors \/ \E signalled \in BOOLEAN : LeaveStream(signalled)
  BY <1>8, FinalFlushControl DEF ReplayErrors, LeaveStream, seam
<1>9. CASE Stop \/ SubscribeRejected \/ ResumeUnreachable \/ Reconnect
  BY <1>9 DEF Stop, SubscribeRejected, ResumeUnreachable, Reconnect, RecordGap,
              seam
<1>10. CASE InsertRows
  BY <1>10 DEF InsertRows, loop, seam
<1>11. CASE InsertCheckpoint
  BY <1>11 DEF InsertCheckpoint, loop, seam, IInv, BatchOK
<1>12. CASE RecordGapReturns \/ RecordGapErrs
  BY <1>12 DEF RecordGapReturns, RecordGapErrs, loop, seam, IInv, ControlOK
<1>13. CASE (\E c \in limbo : LateCheckpoint(c)) \/ ConnHalfOpens \/ TipAdvances
            \/ UNCHANGED vars
  BY <1>13 DEF LateCheckpoint, ConnHalfOpens, TipAdvances, vars, loop, seam
<1> QED
  BY <1>1, <1>2, <1>3, <1>4, <1>5, <1>6, <1>7, <1>8, <1>9, <1>10, <1>11, <1>12,
     <1>13 DEF Next

LEMMA JudgeInit == Init => JudgeOK
BY DEF Init, JudgeOK

(* Whatever a session does after its first message, a flush, a second      *)
(* message, an end by signal, drop or budget, its seam has been judged.    *)
(* The budget must be at least one slot: one of zero is spent by the first *)
(* account message, before the judgement.                                  *)
THEOREM SeamsAreJudged ==
  ASSUME 0 \notin Budgets PROVE Spec => []SeamIsJudged
<1>1. IInv /\ SampleOK /\ JudgeOK /\ [Next]_vars => (SampleOK /\ JudgeOK)'
  BY SampleStep, JudgeStep DEF IInv
<1>2. JudgeOK => SeamIsJudged BY DEF JudgeOK, SeamIsJudged
<1> QED BY <1>1, <1>2, SampleInit, JudgeInit, Invariance, PTL DEF Spec

-----------------------------------------------------------------------------
(* Gap rows.                                                               *)

(* No step takes a gap row or a failed insert back, and the rows of a      *)
(* later gap only replace those of the same start slot.                    *)
RowFor(s) == s = NoSlot \/ HasGapRow(s) \/ s \in unrecorded

LEMMA GapStep ==
  ASSUME [Next]_vars
  PROVE  \/ UNCHANGED <<gaps, unrecorded>>
         \/ RecordGapReturns
         \/ RecordGapErrs
BY DEF Next, Boot, ReadCheckpoint, StartFromTip, Subscribed, SubscribeOpens,
       SubscribeRejected, Delivers, Deliver, StopOnBudget, Judge, TimerFlush,
       LeaveStream, ReplayErrors, Stop, ResumeUnreachable, Reconnect,
       InsertRows, InsertFails, InsertCheckpoint, LateCheckpoint,
       Crash, ConnHalfOpens, WatchdogRestarts, TipAdvances, vars, store, ghost

LEMMA UpsertFacts ==
  ASSUME NEW row, UpsertGap(row)
  PROVE  /\ HasGapRow(row.start_slot)'
         /\ \A s : HasGapRow(s) => HasGapRow(s)'
<1>1. row \in gaps' BY DEF UpsertGap
<1>2. HasGapRow(row.start_slot)' BY <1>1 DEF HasGapRow
<1>3. ASSUME NEW s, HasGapRow(s) PROVE HasGapRow(s)'
  <2>1. PICK g \in gaps : g.start_slot = s BY <1>3 DEF HasGapRow
  <2>2. CASE s = row.start_slot BY <1>2, <2>2
  <2>3. CASE s # row.start_slot
    <3>1. g \in gaps' BY <2>1, <2>3 DEF UpsertGap
    <3> QED BY <2>1, <3>1 DEF HasGapRow
  <2> QED BY <2>2, <2>3
<1> QED BY <1>2, <1>3

LEMMA RowForStays ==
  ASSUME [Next]_vars, NEW s, RowFor(s) PROVE RowFor(s)'
<1>1. CASE UNCHANGED <<gaps, unrecorded>>
  BY <1>1 DEF RowFor, HasGapRow
<1>2. CASE RecordGapReturns
  BY <1>2, UpsertFacts DEF RecordGapReturns, RowFor, ghost
<1>3. CASE RecordGapErrs
  <2>1. HasGapRow(s) => HasGapRow(s)'
    BY <1>3, UpsertFacts DEF RecordGapErrs, HasGapRow
  <2> QED BY <1>3, <2>1 DEF RecordGapErrs, RowFor
<1> QED BY <1>1, <1>2, <1>3, GapStep

(* What record_gap returns from has its row, or an error to show for it.   *)
LEMMA RecordedOrErred ==
  ASSUME NEW s, s = gap_row.start_slot, RecordGapReturns \/ RecordGapErrs
  PROVE  RowFor(s)'
<1>1. CASE RecordGapReturns
  <2>1. gap_row \in gaps' BY <1>1 DEF RecordGapReturns, UpsertGap
  <2> QED BY <2>1 DEF RowFor, HasGapRow
<1>2. CASE RecordGapErrs
  BY <1>2 DEF RecordGapErrs, RowFor
<1> QED BY <1>1, <1>2

(* The row under way starts at the resume point last read; a session that  *)
(* starts from the tip leaves a row for the resume point it gave up.       *)
RowOK ==
  /\ pc = "gap" => gap_row.start_slot = base
  /\ resume_from = NoSlot => RowFor(base)
  /\ force_tip /\ pc # "gap" => RowFor(base)

LEMMA NoSlotHasRow == RowFor(NoSlot) /\ RowFor(NoSlot)'
BY DEF RowFor

LEMMA RowStep ==
  ASSUME IInv, RowOK, [Next]_vars PROVE RowOK'
<1> USE DEF RowOK
<1>0. RowFor(base) => RowFor(base)' \/ base' # base
  BY RowForStays DEF RowFor
<1>1. CASE Boot \/ InsertFails \/ Crash \/ WatchdogRestarts
  <2>1. base' = NoSlot /\ pc' # "gap"
    BY <1>1 DEF Boot, InsertFails, Crash, WatchdogRestarts, Exit, Forget
  <2>2. RowFor(base)' BY <2>1, NoSlotHasRow DEF RowFor
  <2> QED BY <2>1, <2>2
<1>2. CASE ReadCheckpoint
  <2>1. /\ resume_from' = base' /\ pc' = "subscribe" /\ force_tip' = FALSE
    BY <1>2 DEF ReadCheckpoint, ResumePoint, IInv, TypeOK
  <2>2. base' = NoSlot => RowFor(base)' BY DEF RowFor
  <2> QED BY <2>1, <2>2
<1>3. CASE StartFromTip
  BY <1>0, <1>3 DEF StartFromTip, ghost
<1>4. CASE Subscribed \/ Delivers
  <2>1. UNCHANGED <<base, resume_from, force_tip>> /\ pc' # "gap" /\ pc # "gap"
    BY <1>4 DEF Subscribed, SubscribeOpens, Delivers, Deliver, StartFlush, loop
  <2> QED BY <1>0, <2>1
<1>5. CASE SubscribeRejected \/ ResumeUnreachable
  <2>1. /\ gap_row' = GapRow(resume_from, last_slot, gap_row'.reason)
        /\ resume_from # NoSlot /\ pc' = "gap"
        /\ UNCHANGED <<base, resume_from>>
    BY <1>5 DEF SubscribeRejected, ResumeUnreachable, Unreachable, RecordGap,
                GapRow, ghost
  <2>2. resume_from = base BY <2>1 DEF IInv, CoverageOK
  <2> QED BY <2>1, <2>2 DEF GapRow
<1>6. CASE Judge
  <2>1. UNCHANGED <<base, resume_from, force_tip>> /\ pc = "handled"
    BY <1>6 DEF Judge, ghost, loop
  <2>2. CASE pc' = "gap"
    <3>1. ClassifyResume(resume_from, SeamEvidence).kind = "gap"
      BY <1>6, <2>2 DEF Judge
    <3>2. resume_from # NoSlot
      BY <3>1 DEF ClassifyResume, NotApplicable
    <3>3. ClassifyResume(resume_from, SeamEvidence) =
            Gap(resume_from, SeamEvidence)
      <4>1. CASE BeyondTolerance(Drift(resume_from, SeamEvidence))
        BY <3>2, <4>1 DEF ClassifyResume
      <4>2. CASE ~BeyondTolerance(Drift(resume_from, SeamEvidence))
        BY <3>1, <3>2, <4>2 DEF ClassifyResume, Clean
      <4> QED BY <4>1, <4>2
    <3>4. gap_row'.start_slot = resume_from
      BY <1>6, <2>2, <3>3 DEF Judge, RecordGap, GapRow, Gap
    <3> QED BY <2>1, <2>2, <3>2, <3>4 DEF IInv, CoverageOK
  <2>3. CASE pc' # "gap" BY <1>0, <2>1, <2>3
  <2> QED BY <2>2, <2>3
<1>7. CASE StopOnBudget \/ ReplayErrors \/ TimerFlush \/ Stop \/ Reconnect
           \/ \E signalled \in BOOLEAN : LeaveStream(signalled)
  <2>1. UNCHANGED <<base, resume_from, force_tip>> /\ pc' # "gap" /\ pc # "gap"
    BY <1>7, FinalFlushControl
       DEF StopOnBudget, ReplayErrors, TimerFlush, StartFlush, Stop, Reconnect,
           LeaveStream, ghost, loop
  <2> QED BY <1>0, <2>1
<1>8. CASE InsertRows \/ InsertCheckpoint
  <2>1. UNCHANGED <<base, resume_from, force_tip>> /\ pc' # "gap" /\ pc # "gap"
    BY <1>8 DEF InsertRows, InsertCheckpoint, ghost, loop, IInv, ControlOK, TypeOK
  <2> QED BY <1>0, <2>1
<1>9. CASE RecordGapReturns \/ RecordGapErrs
  <2>1. base' = base /\ pc = "gap" /\ pc' # "gap"
    BY <1>9 DEF RecordGapReturns, RecordGapErrs, ghost, IInv, ControlOK
  <2>2. ASSUME NEW s, s = base PROVE RowFor(s)'
    BY <1>9, <2>1, <2>2, RecordedOrErred
  <2>3. RowFor(base)' BY <2>1, <2>2 DEF RowFor, HasGapRow
  <2> QED BY <2>1, <2>3
<1>10. CASE (\E c \in limbo : LateCheckpoint(c)) \/ ConnHalfOpens \/ TipAdvances
            \/ UNCHANGED vars
  <2>1. UNCHANGED <<pc, base, resume_from, force_tip, gap_row>>
    BY <1>10 DEF LateCheckpoint, ConnHalfOpens, TipAdvances, vars, ghost, loop
  <2> QED BY <1>0, <2>1
<1> QED
  BY <1>1, <1>2, <1>3, <1>4, <1>5, <1>6, <1>7, <1>8, <1>9, <1>10 DEF Next

LEMMA RowInit == Init => RowOK
BY DEF Init, RowOK, RowFor

-----------------------------------------------------------------------------
(* The order of slots.                                                     *)

(* A checkpoint, and so a resume point, is the slot of some update; the    *)
(* session's updates lie between its first slot and the last.              *)
UpdateSlots == {NoSlot} \cup {SlotOf[u] : u \in Updates}

OrderOK ==
  /\ checkpoint \in UpdateSlots /\ base \in UpdateSlots
  /\ limbo \subseteq UpdateSlots
  /\ session_first_slot # NoSlot =>
       /\ session_first_slot <= last_slot
       /\ \A u \in delivered : session_first_slot <= SlotOf[u]

LEMMA HighWaterIsASlot ==
  ASSUME NEW s \in Rows, s # <<>> PROVE HighWater(s) \in UpdateSlots
BY LastFacts DEF HighWater, UpdateSlots

LEMMA OrderStep ==
  ASSUME IInv, OrderOK, [Next]_vars PROVE OrderOK'
<1> USE DEF OrderOK
<1>0. UpdateSlots' = UpdateSlots /\ NoSlot \in UpdateSlots BY DEF UpdateSlots
<1>1. CASE InsertFails
  <2>1. HighWater(batch) \in UpdateSlots
    BY <1>1, HighWaterIsASlot DEF InsertFails, IInv, TypeOK, ControlOK
  <2>2. checkpoint' \in UpdateSlots /\ limbo' \subseteq UpdateSlots
    BY <1>1, <2>1 DEF InsertFails, store
  <2> QED BY <1>0, <1>1, <2>2 DEF InsertFails, Exit, Forget
<1>2. CASE Boot \/ Crash \/ WatchdogRestarts
  BY <1>0, <1>2 DEF Boot, Crash, WatchdogRestarts, Exit, Forget, store
<1>3. CASE ReadCheckpoint \/ StartFromTip
  BY <1>0, <1>3 DEF ReadCheckpoint, StartFromTip, store, seam, provider, ghost
<1>4. CASE Subscribed
  <2>1. PICK f \in Openings : SubscribeOpens(f) BY <1>4 DEF Subscribed
  <2> QED BY <1>0, <2>1 DEF SubscribeOpens, store
<1>5. CASE Delivers
  <2>1. PICK u \in Updates : Deliver(u) BY <1>5 DEF Delivers
  <2>2. /\ SlotOf[u] \in Nat /\ last_slot' = SlotOf[u]
        /\ delivered' = delivered \cup {u} /\ u \notin delivered
        /\ UNCHANGED <<checkpoint, limbo, base>>
        /\ SlotOf[u] >= served_from
    BY <2>1, IndexerAssumption DEF Deliver, Deliverable, store
  <2>3. CASE session_first_slot = NoSlot
    <3>1. session_first_slot' = SlotOf[u] /\ delivered = {}
      BY <2>1, <2>3 DEF Deliver, IInv, SessionOK
    <3> QED BY <1>0, <2>2, <3>1
  <2>4. CASE session_first_slot # NoSlot
    <3>1. session_first_slot' = session_first_slot BY <2>1, <2>4 DEF Deliver
    <3>2. last_slot <= SlotOf[u]
      BY <2>2, <2>4 DEF IInv, SessionOK, TypeOK
    <3>3. session_first_slot <= SlotOf[u]
      BY <2>2, <2>4, <3>2 DEF IInv, TypeOK, Slots, OptSlot, NoSlot
    <3> QED BY <1>0, <2>2, <3>1, <3>3
  <2> QED BY <2>3, <2>4
<1>6. CASE InsertCheckpoint
  <2>1. HighWater(batch) \in UpdateSlots
    BY <1>6, HighWaterIsASlot DEF InsertCheckpoint, IInv, TypeOK, ControlOK
  <2> QED BY <1>0, <1>6, <2>1
      DEF InsertCheckpoint, provider, loop, seam, ghost
<1>7. CASE \E c \in limbo : LateCheckpoint(c)
  BY <1>0, <1>7 DEF LateCheckpoint, provider, loop, seam, ghost
<1>8. CASE UNCHANGED <<checkpoint, limbo, base, session_first_slot, last_slot,
                       delivered>>
  BY <1>0, <1>8
<1>9. CASE SubscribeRejected \/ StopOnBudget \/ Judge \/ TimerFlush
           \/ ReplayErrors \/ Stop \/ ResumeUnreachable \/ Reconnect
           \/ \E signalled \in BOOLEAN : LeaveStream(signalled)
  BY <1>8, <1>9
     DEF SubscribeRejected, StopOnBudget, Judge, TimerFlush, ReplayErrors, Stop,
         ResumeUnreachable, Reconnect, LeaveStream, store, provider, loop, seam,
         ghost
<1>10. CASE InsertRows \/ RecordGapReturns \/ RecordGapErrs \/ ConnHalfOpens
            \/ TipAdvances \/ UNCHANGED vars
  BY <1>8, <1>10
     DEF InsertRows, RecordGapReturns, RecordGapErrs, ConnHalfOpens,
         TipAdvances, vars, store, provider, loop, seam, ghost
<1> QED BY <1>1, <1>2, <1>3, <1>4, <1>5, <1>6, <1>7, <1>9, <1>10 DEF Next

LEMMA OrderInit == Init => OrderOK
BY DEF Init, OrderOK, UpdateSlots

(* A startup row is never fiction: the update that set the resume point    *)
(* would have been served again by a session that opened at or before it.  *)
THEOREM StartupRowsHaveACause == Spec => StartupRowsAreReal
<1>1. IInv /\ OrderOK /\ [Next]_vars =>
        [pc = "handled" /\ pc' = "gap" => served_from > resume_from]_vars
  <2> SUFFICES ASSUME IInv, OrderOK, Next, pc = "handled", pc' = "gap"
               PROVE  served_from > resume_from
    OBVIOUS
  <2> USE DEF IInv
  <2>1. Judge
    BY FinalFlushControl
       DEF Next, Boot, ReadCheckpoint, StartFromTip, Subscribed, SubscribeOpens,
           SubscribeRejected, Delivers, Deliver, StopOnBudget, TimerFlush,
           LeaveStream, ReplayErrors, Stop, ResumeUnreachable, Reconnect,
           InsertRows, InsertFails, InsertCheckpoint, LateCheckpoint,
           RecordGapReturns, RecordGapErrs, Crash, ConnHalfOpens, Exit,
           WatchdogRestarts, TipAdvances
  <2>2. ClassifyResume(resume_from, session_first_slot).kind = "gap"
    BY <2>1 DEF Judge, SeamEvidence
  <2>3. /\ resume_from # NoSlot /\ Drift(resume_from, session_first_slot) > Tolerance
    <3>1. resume_from # NoSlot BY <2>2 DEF ClassifyResume, NotApplicable
    <3>2. BeyondTolerance(Drift(resume_from, session_first_slot))
      BY <2>2, <3>1 DEF ClassifyResume, Clean
    <3> QED BY <3>1, <3>2 DEF BeyondTolerance
  <2>4. session_first_slot > resume_from
    BY <2>3, ToleranceAssumption DEF Drift, TypeOK, Slots, OptSlot, NoSlot
  <2>5. /\ resume_from \in Nat /\ session_first_slot \in Nat
        /\ session_first_slot # NoSlot
    BY <2>3, <2>4 DEF TypeOK, Slots, OptSlot, NoSlot
  <2>6. PICK u \in Updates : SlotOf[u] = resume_from
    BY <2>3 DEF CoverageOK, OrderOK, UpdateSlots
  <2>7. SUFFICES ASSUME served_from <= resume_from PROVE FALSE
    BY <2>5 DEF TypeOK
  <2>8. SlotOf[u] < last_slot
    BY <2>4, <2>5, <2>6 DEF OrderOK, TypeOK
  <2>9. u \in delivered BY <2>5, <2>6, <2>7, <2>8 DEF SessionOK
  <2> QED BY <2>4, <2>5, <2>6, <2>9 DEF OrderOK
<1>2. IInv /\ OrderOK /\ [Next]_vars => OrderOK' BY OrderStep
<1> QED BY <1>1, <1>2, OrderInit, Invariance, PTL DEF Spec, StartupRowsAreReal

-----------------------------------------------------------------------------
(* No silent hole.                                                         *)

Inside(u, h) == h.from <= SlotOf[u] /\ SlotOf[u] < h.to

Accounted(h) == RowFor(h.from) \/ h.to - h.from <= Tolerance

Recorded(u) == \E h \in seams : Inside(u, h) /\ Accounted(h)

Safe(c) == \A u \in Updates : SlotOf[u] < c => Complete(u) \/ Recorded(u)

LEMMA SeamsOnlyGrow ==
  ASSUME [Next]_vars PROVE seams \subseteq seams'
BY DEF Next, Boot, ReadCheckpoint, StartFromTip, Subscribed, SubscribeOpens,
       SubscribeRejected, Delivers, Deliver, StopOnBudget, Judge, TimerFlush,
       LeaveStream, ReplayErrors, Stop, ResumeUnreachable, Reconnect,
       InsertRows, InsertFails, InsertCheckpoint, LateCheckpoint,
       RecordGapReturns, RecordGapErrs, Crash, ConnHalfOpens, WatchdogRestarts,
       TipAdvances, vars, store, ghost

LEMMA NextGrows ==
  ASSUME TypeOK, [Next]_vars PROVE Grows
<1>1. CASE tables' = tables
  BY <1>1, SeamsOnlyGrow DEF Grows
<1>2. CASE InsertRows \/ InsertFails
  <2>1. tables' = tables \/ (~DataCommitted /\ StoreRows(NextTable(unsent)))
    BY <1>2 DEF InsertRows, InsertFails, store
  <2>2. \A t \in Tables : tables[t] \subseteq tables'[t]
    BY <2>1, NextTableFacts, StoreRowsType DEF DataCommitted, TypeOK
  <2> QED BY <2>2, SeamsOnlyGrow DEF Grows
<1>3. tables' = tables \/ InsertRows \/ InsertFails
  BY DEF Next, Boot, ReadCheckpoint, StartFromTip, Subscribed, SubscribeOpens,
         SubscribeRejected, Delivers, Deliver, StopOnBudget, Judge, TimerFlush,
         LeaveStream, ReplayErrors, Stop, ResumeUnreachable, Reconnect,
         InsertCheckpoint, LateCheckpoint, RecordGapReturns, RecordGapErrs,
         Crash, ConnHalfOpens, WatchdogRestarts, TipAdvances, vars, store
<1> QED BY <1>1, <1>2, <1>3

LEMMA RecordedStays ==
  ASSUME [Next]_vars, NEW u, Recorded(u) PROVE Recorded(u)'
<1>1. PICK h \in seams : Inside(u, h) /\ Accounted(h) BY DEF Recorded
<1>2. h \in seams' BY SeamsOnlyGrow
<1>3. RowFor(h.from) => RowFor(h.from)' BY RowForStays
<1> QED BY <1>1, <1>2, <1>3 DEF Recorded, Inside, Accounted

LEMMA SafeStays ==
  ASSUME TypeOK, [Next]_vars, NEW c, Safe(c) PROVE Safe(c)'
<1> SUFFICES ASSUME NEW u \in Updates, SlotOf[u] < c
             PROVE  Complete(u)' \/ Recorded(u)'
  BY DEF Safe
<1>1. Complete(u) \/ Recorded(u) BY DEF Safe
<1> QED BY <1>1, RecordedStays, NextGrows, CompleteGrows

(* The hole of the open session, noted at its first message.               *)
OwnSeam == [from |-> base, to |-> session_first_slot]

InSession == \/ pc \in {"stream", "handled", "insert", "ended"}
             \/ pc = "gap" /\ ret = "stream"

(* Below the session's first slot all is stored, or accounted for, or in   *)
(* the session's own hole; and that hole is accounted for once its seam is *)
(* judged and the row, if one is due, is in.                               *)
SessionSafe ==
  /\ \A u \in Updates : SlotOf[u] < session_first_slot =>
       Complete(u) \/ Recorded(u) \/ (Inside(u, OwnSeam) /\ OwnSeam \in seams)
  /\ resume_judged /\ pc # "gap" => Accounted(OwnSeam)

SafeOK ==
  /\ Safe(checkpoint) /\ Safe(base) /\ \A c \in limbo : Safe(c)
  /\ InSession /\ session_first_slot # NoSlot => SessionSafe

SeamInv == IInv /\ SampleOK /\ JudgeOK /\ RowOK /\ SafeOK

LEMMA NothingBelowIsSafe == Safe(NoSlot) /\ Safe(NoSlot)'
BY IndexerAssumption DEF Safe, NoSlot

LEMMA JudgedIsSafe ==
  ASSUME SafeOK, InSession, session_first_slot # NoSlot, resume_judged, pc # "gap"
  PROVE  Safe(session_first_slot)
BY DEF SafeOK, SessionSafe, Safe, Recorded

LEMMA FlushedIsSafe ==
  ASSUME SeamInv, pc = "insert", unsent = {}
  PROVE  Safe(last_slot) /\ HighWater(batch) = last_slot
<1> USE DEF SeamInv
<1>1. /\ session_first_slot # NoSlot /\ resume_judged
      /\ HighWater(batch) = last_slot /\ \A u \in delivered : Complete(u)
  BY FlushedIsCovered DEF JudgeOK, IInv, BatchOK
<1>2. Safe(session_first_slot) BY <1>1, JudgedIsSafe DEF InSession
<1> SUFFICES ASSUME NEW u \in Updates, SlotOf[u] < last_slot
             PROVE  Complete(u) \/ Recorded(u)
  BY <1>1 DEF Safe
<1>3. /\ SlotOf[u] \in Nat /\ served_from \in Nat
      /\ session_first_slot \in Nat /\ served_from <= session_first_slot
  BY <1>1, IndexerAssumption DEF IInv, SessionOK, TypeOK, Slots, OptSlot
<1>4. CASE served_from <= SlotOf[u]
  BY <1>1, <1>4 DEF IInv, SessionOK
<1>5. CASE SlotOf[u] < served_from
  BY <1>2, <1>3, <1>5 DEF Safe
<1> QED BY <1>3, <1>4, <1>5

(* The first message of a session notes its hole.                          *)
LEMMA FirstMessageSafe ==
  ASSUME SeamInv, [Next]_vars, NEW u \in Updates, Deliver(u),
         session_first_slot = NoSlot
  PROVE  SessionSafe'
<1> USE DEF SeamInv, IInv
<1>1. /\ Asked = base /\ base' = base /\ delivered = {}
      /\ SlotOf[u] \in Nat /\ served_from \in Nat /\ base \in Int
      /\ session_first_slot' = SlotOf[u] /\ UNCHANGED resume_judged
  BY IndexerAssumption
     DEF Deliver, Asked, CoverageOK, SessionOK, TypeOK, Slots, OptSlot, NoSlot
<1>2. ~resume_judged' BY <1>1 DEF JudgeOK
<1>3. Safe(base)' BY <1>1, SafeStays DEF SafeOK, Safe
<1>4. ASSUME NEW v \in Updates, SlotOf[v] < SlotOf[u]
      PROVE  Complete(v)' \/ Recorded(v)' \/ (Inside(v, OwnSeam) /\ OwnSeam \in seams)'
  <2>1. SlotOf[v] \in Nat /\ ~(SlotOf[v] >= served_from)
    BY <1>1, <1>4, IndexerAssumption DEF Deliver, Deliverable
  <2>2. CASE SlotOf[v] < base BY <1>1, <1>3, <2>2 DEF Safe
  <2>3. CASE base <= SlotOf[v]
    <3>1. served_from > base BY <1>1, <2>1, <2>3
    <3>2. [from |-> base, to |-> SlotOf[u]] \in seams'
      BY <1>1, <3>1 DEF Deliver, SeamBefore
    <3> QED BY <1>1, <1>4, <2>3, <3>2 DEF OwnSeam, Inside
  <2> QED BY <1>1, <2>1, <2>2, <2>3
<1> QED BY <1>1, <1>2, <1>4 DEF SessionSafe

(* A seam that is judged and leaves no row is no hole of the indexer's: it *)
(* has its row already, or the drift is within tolerance.                  *)
LEMMA JudgedWithoutRow ==
  ASSUME SeamInv, Judge, pc' # "gap", ~resume_judged PROVE Accounted(OwnSeam)
<1> USE DEF SeamInv, IInv
<1>1. session_first_slot \in Nat
  BY DEF Judge, JudgeOK, TypeOK, Slots, OptSlot
<1>2. CASE resume_from = NoSlot
  BY <1>2 DEF RowOK, Accounted, OwnSeam
<1>3. CASE resume_from # NoSlot
  <2>1. resume_from = base /\ base \in Nat
    BY <1>3 DEF CoverageOK, TypeOK, Slots, OptSlot
  <2>2. ClassifyResume(resume_from, session_first_slot).kind # "gap"
    BY DEF Judge, RecordGap, SeamEvidence
  <2>3. ~BeyondTolerance(Drift(resume_from, session_first_slot))
    BY <1>3, <2>2 DEF ClassifyResume, Gap
  <2>4. session_first_slot - base <= Tolerance
    BY <1>1, <2>1, <2>3, ToleranceAssumption DEF BeyondTolerance, Drift
  <2> QED BY <2>4 DEF Accounted, OwnSeam
<1> QED BY <1>2, <1>3

(* A session that goes on as it was.                                       *)
LEMMA SessionGoesOn ==
  ASSUME SeamInv, [Next]_vars, InSession, session_first_slot # NoSlot,
         UNCHANGED <<base, session_first_slot>>,
         resume_judged' /\ pc' # "gap" => resume_judged /\ pc # "gap"
  PROVE  SessionSafe'
<1> USE DEF SeamInv
<1>1. OwnSeam' = OwnSeam /\ SessionSafe BY DEF OwnSeam, SafeOK
<1>2. RowFor(base) => RowFor(base)' BY RowForStays DEF RowFor, HasGapRow
<1>3. Accounted(OwnSeam) => Accounted(OwnSeam)'
  BY <1>1, <1>2 DEF Accounted, OwnSeam
<1>4. seams \subseteq seams' BY SeamsOnlyGrow
<1>5. ASSUME NEW u \in Updates, SlotOf[u] < session_first_slot
      PROVE  Complete(u)' \/ Recorded(u)' \/ (Inside(u, OwnSeam) /\ OwnSeam \in seams)'
  BY <1>1, <1>4, <1>5, RecordedStays, NextGrows, CompleteGrows
     DEF SessionSafe, Inside, IInv
<1> QED BY <1>1, <1>3, <1>5 DEF SessionSafe

(* A row, or the error of its insert, accounts for the session's hole.     *)
LEMMA RowAccounts ==
  ASSUME SeamInv, [Next]_vars, RecordGapReturns \/ RecordGapErrs,
         ret = "stream", session_first_slot # NoSlot
  PROVE  SessionSafe'
<1> USE DEF SeamInv
<1>1. /\ UNCHANGED <<base, session_first_slot>> /\ pc = "gap"
      /\ gap_row.start_slot = base
  BY DEF RecordGapReturns, RecordGapErrs, seam, ghost, RowOK
<1>2. OwnSeam' = OwnSeam /\ SessionSafe
  BY <1>1 DEF OwnSeam, SafeOK, InSession
<1>3. ASSUME NEW s, s = base PROVE RowFor(s)'
  BY <1>1, <1>3, RecordedOrErred
<1>4. Accounted(OwnSeam)'
  BY <1>1, <1>2, <1>3 DEF Accounted, OwnSeam, RowFor, HasGapRow
<1>5. seams \subseteq seams' BY SeamsOnlyGrow
<1>6. ASSUME NEW u \in Updates, SlotOf[u] < session_first_slot
      PROVE  Complete(u)' \/ Recorded(u)' \/ (Inside(u, OwnSeam) /\ OwnSeam \in seams)'
  BY <1>2, <1>5, <1>6, RecordedStays, NextGrows, CompleteGrows
     DEF SessionSafe, Inside, IInv
<1> QED BY <1>1, <1>4, <1>6 DEF SessionSafe

LEMMA SessionStep ==
  ASSUME SeamInv, [Next]_vars, InSession', session_first_slot' # NoSlot
  PROVE  SessionSafe'
<1> USE DEF SeamInv
<1>1. CASE Boot \/ InsertFails \/ Crash \/ WatchdogRestarts
           \/ ReadCheckpoint \/ StartFromTip \/ Subscribed \/ SubscribeRejected
           \/ Stop \/ ResumeUnreachable \/ Reconnect
  BY <1>1 DEF Boot, InsertFails, Crash, WatchdogRestarts, Exit, Forget,
              ReadCheckpoint, StartFromTip, Subscribed, SubscribeOpens,
              SubscribeRejected, Stop, ResumeUnreachable, Reconnect, RecordGap,
              InSession
<1>2. CASE Delivers
  <2>1. PICK u \in Updates : Deliver(u) BY <1>2 DEF Delivers
  <2>2. CASE session_first_slot = NoSlot BY <2>1, <2>2, FirstMessageSafe
  <2>3. CASE session_first_slot # NoSlot
    <3>1. /\ InSession /\ pc # "gap"
          /\ UNCHANGED <<base, session_first_slot, resume_judged>>
      BY <2>1, <2>3 DEF Deliver, InSession
    <3> QED BY <2>3, <3>1, SessionGoesOn
  <2> QED BY <2>2, <2>3
<1>3. CASE Judge
  <2>1. /\ InSession /\ pc # "gap" /\ session_first_slot # NoSlot
        /\ UNCHANGED <<base, session_first_slot>>
    BY <1>3 DEF Judge, InSession, ghost, JudgeOK
  <2>2. CASE resume_judged \/ pc' = "gap"
    BY <2>1, <2>2, SessionGoesOn
  <2>3. CASE ~resume_judged /\ pc' # "gap"
    <3>1. UNCHANGED <<tables, gaps, unrecorded, seams>> /\ OwnSeam' = OwnSeam
      BY <1>3, <2>1 DEF Judge, store, ghost, OwnSeam
    <3>2. SessionSafe /\ Accounted(OwnSeam)
      BY <1>3, <2>1, <2>3, JudgedWithoutRow DEF SafeOK
    <3> QED BY <2>1, <3>1, <3>2
        DEF SessionSafe, Complete, Recorded, Accounted, RowFor, HasGapRow, Inside
  <2> QED BY <2>2, <2>3
<1>4. CASE StopOnBudget \/ ReplayErrors \/ TimerFlush
           \/ \E signalled \in BOOLEAN : LeaveStream(signalled)
  <2>1. /\ InSession /\ pc # "gap"
        /\ UNCHANGED <<base, session_first_slot, resume_judged>>
    BY <1>4 DEF StopOnBudget, ReplayErrors, TimerFlush, LeaveStream, InSession,
                ghost, seam
  <2> QED BY <2>1, SessionGoesOn
<1>5. CASE InsertRows \/ InsertCheckpoint
  <2>1. /\ InSession /\ pc # "gap"
        /\ UNCHANGED <<base, session_first_slot, resume_judged>>
    BY <1>5 DEF InsertRows, InsertCheckpoint, InSession, ghost, seam
  <2> QED BY <2>1, SessionGoesOn
<1>6. CASE RecordGapReturns \/ RecordGapErrs
  <2>1. ret = "stream" /\ session_first_slot # NoSlot
    BY <1>6 DEF RecordGapReturns, RecordGapErrs, InSession, seam, IInv, ControlOK
  <2> QED BY <1>6, <2>1, RowAccounts
<1>7. CASE (\E c \in limbo : LateCheckpoint(c)) \/ ConnHalfOpens \/ TipAdvances
            \/ UNCHANGED vars
  <2>1. /\ InSession /\ UNCHANGED <<pc, base, session_first_slot, resume_judged>>
    BY <1>7 DEF LateCheckpoint, ConnHalfOpens, TipAdvances, vars, InSession,
                ghost, seam
  <2> QED BY <2>1, SessionGoesOn
<1> QED BY <1>1, <1>2, <1>3, <1>4, <1>5, <1>6, <1>7 DEF Next

LEMMA SafeStep ==
  ASSUME SeamInv, [Next]_vars PROVE SafeOK'
<1> USE DEF SeamInv
<1>0. Safe(NoSlot)' BY NothingBelowIsSafe
<1>1. ASSUME NEW c, c = checkpoint' \/ c = base' \/ c \in limbo' PROVE Safe(c)'
  <2>1. CASE Safe(c) \/ c = NoSlot
    BY <1>0, <2>1, SafeStays DEF IInv, Safe
  <2>2. CASE c \in {checkpoint, base, NoSlot} \cup limbo
    BY <2>1, <2>2 DEF SafeOK
  <2>3. CASE pc = "insert" /\ unsent = {} /\ c = HighWater(batch)
    BY <2>1, <2>3, FlushedIsSafe
  <2>4. CASE InsertCheckpoint \/ InsertFails
    <3>1. \/ c \in {checkpoint, base, NoSlot} \cup limbo
          \/ pc = "insert" /\ unsent = {} /\ c = HighWater(batch)
      BY <1>1, <2>4
         DEF InsertCheckpoint, InsertFails, DataCommitted, Exit, Forget, store, ghost
    <3> QED BY <2>2, <2>3, <3>1
  <2>5. CASE Boot \/ Crash \/ WatchdogRestarts \/ ReadCheckpoint \/ StartFromTip
             \/ Subscribed \/ SubscribeRejected \/ Delivers
             \/ (\E d \in limbo : LateCheckpoint(d))
    <3>1. c \in {checkpoint, base, NoSlot} \cup limbo
      BY <1>1, <2>5
         DEF Boot, Crash, WatchdogRestarts, Exit, Forget, ReadCheckpoint,
             StartFromTip, Subscribed, SubscribeOpens, SubscribeRejected,
             Delivers, Deliver, LateCheckpoint, store, ghost
    <3> QED BY <2>2, <3>1
  <2>6. CASE StopOnBudget \/ Judge \/ TimerFlush \/ ReplayErrors \/ Stop
             \/ ResumeUnreachable \/ Reconnect \/ InsertRows
             \/ RecordGapReturns \/ RecordGapErrs \/ ConnHalfOpens \/ TipAdvances
             \/ UNCHANGED vars \/ \E signalled \in BOOLEAN : LeaveStream(signalled)
    <3>1. UNCHANGED <<checkpoint, base, limbo>>
      BY <2>6
         DEF StopOnBudget, Judge, TimerFlush, ReplayErrors, Stop,
             ResumeUnreachable, Reconnect, InsertRows, RecordGapReturns,
             RecordGapErrs, ConnHalfOpens, TipAdvances, LeaveStream, vars, store,
             ghost
    <3> QED BY <1>1, <2>2, <3>1
  <2> QED BY <2>4, <2>5, <2>6 DEF Next
<1>2. Safe(checkpoint)' /\ Safe(base)' /\ \A c \in limbo' : Safe(c)'
  BY <1>1 DEF Safe
<1> QED BY <1>2, SessionStep DEF SafeOK

LEMMA SafeInit == Init => SafeOK
BY NothingBelowIsSafe DEF Init, SafeOK, InSession

LEMMA SeamInvariance ==
  ASSUME 0 \notin Budgets PROVE Spec => []SeamInv
<1>1. Init /\ IInv => SeamInv
  BY SampleInit, JudgeInit, RowInit, SafeInit DEF SeamInv
<1>2. SeamInv /\ IInv' /\ [Next]_vars => SeamInv'
  BY SampleStep, JudgeStep, RowStep, SafeStep DEF SeamInv, IInv
<1> QED BY <1>1, <1>2, Invariance, PTL DEF Spec

LEMMA RecordedIsNamed ==
  ASSUME NEW u, Recorded(u)
  PROVE  \E h \in seams :
           /\ h.from <= SlotOf[u] /\ SlotOf[u] < h.to
           /\ \/ h.from = NoSlot
              \/ h.to - h.from <= Tolerance
              \/ HasGapRow(h.from)
              \/ h.from \in unrecorded
BY DEF Recorded, Inside, Accounted, RowFor

(* No silent hole: whatever the checkpoint has passed by without storing   *)
(* it was lost before the first checkpoint, or in a drift within           *)
(* tolerance, or has a row of record_gap under the resume point it was     *)
(* lost after, or the insert of that row returned an error.  A budget of   *)
(* zero is excluded as in SeamsAreJudged, and for the same reason.         *)
THEOREM HolesLeaveRows ==
  ASSUME 0 \notin Budgets PROVE Spec => []EveryHoleLeavesARow
<1>1. SeamInv => EveryHoleLeavesARow
  BY RecordedIsNamed DEF SeamInv, SafeOK, Safe, Lost, EveryHoleLeavesARow
<1> QED BY <1>1, SeamInvariance, PTL
=============================================================================
