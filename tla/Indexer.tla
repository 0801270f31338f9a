------------------------------ MODULE Indexer -------------------------------
(***************************************************************************)
(* The stream indexer (src/src/main.rs): one process that subscribes to a  *)
(* Geyser stream of account updates, buffers rows, inserts them batch by   *)
(* batch into ClickHouse, advances a durable checkpoint behind them, and   *)
(* resumes from that checkpoint after a dropped stream or a restart.       *)
(*                                                                         *)
(* The promise under study is "prefer duplicates over holes": whatever     *)
(* crashes, hangs or is not replayed, a checkpoint never stands past data  *)
(* that is silently missing.                                               *)
(*                                                                         *)
(* Simplifications                                                         *)
(*  - An update is a model value; its slot and the tables its row goes to  *)
(*    are constants.  The provider delivers updates in slot order, in any  *)
(*    order within a slot, and only slots up to the confirmed tip.         *)
(*  - ClickHouse collapses duplicate rows (ReplacingMergeTree read with    *)
(*    FINAL), so a table is the set of the updates it holds.               *)
(*  - `pc` names the await points.  The code between two awaits runs       *)
(*    without interleaving (one tokio task) and is one action.             *)
(*  - A ClickHouse sink is configured; stdout, the lag line, the tally and *)
(*    the length of the back-off carry no state that is read back.         *)
(***************************************************************************)
EXTENDS Resume, SequencesExt

CONSTANTS
  Updates,          \* account updates the chain ever produces
  SlotOf,           \* [Updates -> Nat]
  TablesOf,         \* [Updates -> SUBSET Tables]: raw row plus decoded row
  BatchMax,         \* BATCH_MAX_ROWS
  Budgets,          \* values of KLEND_SAMPLE_SLOTS, NoSlot when unset
  Window,           \* how many slots behind the tip the provider can replay
  MaxOverReplay,    \* bound: slots the provider may replay before the request
  MaxTip,           \* bound: last slot of the chain
  MaxFaults         \* bound: crashes, drops, rejects, signals, hangs

Tables == {"account_updates", "obligation_snapshots",
           "lending_market_snapshots", "reserve_snapshots"}

ASSUME IndexerAssumption ==
  /\ SlotOf \in [Updates -> Nat]
  /\ TablesOf \in [Updates -> SUBSET Tables]
  /\ \A u \in Updates : "account_updates" \in TablesOf[u]
  /\ BatchMax \in Nat /\ BatchMax > 1
  /\ Budgets \subseteq OptSlot
  /\ Window \in Nat /\ MaxOverReplay \in Nat
  /\ MaxTip \in Nat /\ MaxFaults \in Nat

VARIABLES
  \* ClickHouse, durable
  tables,              \* table -> updates whose row is stored
  checkpoint,          \* ingest_checkpoint.last_slot, NoSlot before the first
  gaps,                \* slot_gaps, at most one row per start slot
  limbo,               \* checkpoint inserts given up on that may still land
  \* the chain, the provider's session, the native connection
  tip,                 \* newest confirmed slot
  served_from,         \* slot the open session serves from
  delivered,           \* updates the open session has delivered
  conn,                \* "up" or "half_open": writes neither fail nor ack
  \* the process: its environment, control, reconnect loop, session
  slot_budget,         \* a bounded sample of so many slots, or unattended
  pc, ret,             \* where it awaits, and where a flush or gap row returns
  resume_from, force_tip, shutdown, first_slot, last_slot,
  session_first_slot, resume_judged,
  \* the process: Writer
  buf, batch, unsent,  \* rows buffered, rows being flushed, tables still to go
  gap_row,             \* row record_gap is inserting
  \* observation only: never read by a guard of the code
  base,                \* last resume point this process read
  seams,               \* [from, to): what some session did not serve
  unrecorded,          \* starts of gaps whose record_gap returned an error
  opened,              \* streams this sampling process has opened
  faults

store    == <<tables, checkpoint, gaps, limbo>>
provider == <<served_from, delivered>>
loop     == <<resume_from, force_tip, shutdown, first_slot, last_slot>>
seam     == <<session_first_slot, resume_judged>>
writer   == <<buf, batch, unsent>>
ghost    == <<base, seams, unrecorded, opened>>
vars     == <<store, tip, slot_budget, provider, conn, pc, ret, loop, seam,
              writer, gap_row, ghost, faults>>

Sampling == slot_budget # NoSlot
Running  == pc \notin {"down", "stopped"}
Faulty   == faults < MaxFaults /\ faults' = faults + 1

NoRow == [start_slot |-> NoSlot, end_slot |-> NoSlot, reason |-> "none"]
GapRow(s, e, reason) == [start_slot |-> s, end_slot |-> e, reason |-> reason]

RowsIn(rows, t) == {u \in ToSet(rows) : t \in TablesOf[u]}

-----------------------------------------------------------------------------
(* Writer::flush: the buffers are taken whole, the decoded tables with no  *)
(* row are skipped, and every insert is awaited before the next.           *)

StartFlush(rows, then) ==
  /\ pc' = "insert" /\ ret' = then
  /\ batch' = rows /\ buf' = <<>>
  /\ unsent' = {t \in Tables : RowsIn(rows, t) # {}}

(* Mutant: the size trigger fires one row late.                            *)
BatchFull_Late(rows) == Len(rows) > BatchMax

BatchFull(rows) == Len(rows) >= BatchMax

(* Mutant: the final flush is skipped, the last partial batch is dropped.  *)
FinalFlush_Dropped == pc' = "ended" /\ UNCHANGED <<writer, ret>>

FinalFlush ==
  IF buf = <<>> THEN pc' = "ended" /\ UNCHANGED <<writer, ret>>
                ELSE StartFlush(buf, "ended")

NextTable(todo) ==
  IF "account_updates" \in todo THEN "account_updates"
  ELSE IF "obligation_snapshots" \in todo THEN "obligation_snapshots"
  ELSE IF "lending_market_snapshots" \in todo THEN "lending_market_snapshots"
  ELSE "reserve_snapshots"

(* Mutant: the checkpoint is advanced once the raw rows are in, before the *)
(* decoded ones.                                                           *)
DataCommitted_RawOnly == "account_updates" \notin unsent

DataCommitted == unsent = {}

(* Mutant: the checkpoint is taken from the slot notifications, which run  *)
(* ahead of the rows.                                                      *)
HighWater_Tip(rows) == tip

HighWater(rows) == SlotOf[Last(rows)]

(* The process is gone and so is everything it held in memory.             *)
Forget ==
  /\ resume_from' = NoSlot /\ force_tip' = FALSE /\ shutdown' = FALSE
  /\ first_slot' = NoSlot /\ last_slot' = 0
  /\ session_first_slot' = NoSlot /\ resume_judged' = FALSE
  /\ buf' = <<>> /\ batch' = <<>> /\ unsent' = {} /\ gap_row' = NoRow
  /\ served_from' = 0 /\ delivered' = {}
  /\ base' = NoSlot /\ opened' = 0

Exit == pc' = "down" /\ ret' = "resume" /\ Forget

Init ==
  /\ tables = [t \in Tables |-> {}] /\ checkpoint = NoSlot
  /\ gaps = {} /\ limbo = {}
  /\ tip = 0 /\ conn = "up" /\ served_from = 0 /\ delivered = {}
  /\ slot_budget \in Budgets
  /\ pc = "down" /\ ret = "resume"
  /\ resume_from = NoSlot /\ force_tip = FALSE /\ shutdown = FALSE
  /\ first_slot = NoSlot /\ last_slot = 0
  /\ session_first_slot = NoSlot /\ resume_judged = FALSE
  /\ buf = <<>> /\ batch = <<>> /\ unsent = {} /\ gap_row = NoRow
  /\ base = NoSlot /\ seams = {} /\ unrecorded = {} /\ opened = 0
  /\ faults = 0

-----------------------------------------------------------------------------
(* The reconnect loop.                                                     *)

(* Docker's restart policy, or an operator, starts the process: it opens a *)
(* fresh ClickHouse connection before anything else.                       *)
Boot ==
  /\ ~Running
  /\ pc' = "resume" /\ ret' = "resume" /\ conn' = "up"
  /\ Forget
  /\ UNCHANGED <<store, tip, slot_budget, seams, unrecorded, faults>>

(* Mutant: resume from the slot after the checkpoint.                      *)
ResumePoint_Exclusive(c) == IF c = NoSlot THEN NoSlot ELSE c + 1

(* Resume is from the checkpointed slot INCLUSIVE.                         *)
ResumePoint(c) == c

(* read_resume_slot, which has no timeout: on a half-open connection the   *)
(* process stays here.                                                     *)
ReadCheckpoint ==
  /\ pc = "resume" /\ ~force_tip /\ conn = "up"
  /\ resume_from' = ResumePoint(checkpoint)
  /\ base' = checkpoint
  /\ pc' = "subscribe"
  /\ UNCHANGED <<store, tip, slot_budget, provider, conn, ret, force_tip,
                 shutdown, first_slot, last_slot, seam, writer, gap_row, seams,
                 unrecorded, opened, faults>>

(* force_tip: the checkpoint is not read, the next session starts at the   *)
(* tip, and the flag is spent.                                             *)
StartFromTip ==
  /\ pc = "resume" /\ force_tip
  /\ resume_from' = NoSlot /\ force_tip' = FALSE
  /\ pc' = "subscribe"
  /\ UNCHANGED <<store, tip, slot_budget, provider, conn, ret, shutdown,
                 first_slot, last_slot, seam, writer, gap_row, ghost, faults>>

(* The request reaches further back than the provider can replay.          *)
BeyondWindow == resume_from # NoSlot /\ resume_from < tip - Window

(* Where a session opens whose first message will be the replay error.     *)
Nowhere == MaxTip + 2

(* The slots a provider may open a session at.  A request with no slot is  *)
(* served from the tip on.  A replay may start before the requested slot,  *)
(* at it, or past it: nothing in the contract excludes a session that      *)
(* silently starts at the live tip.  A request beyond the window may also  *)
(* be accepted and fail on the first message.                              *)
Openings ==
  IF resume_from = NoSlot THEN {tip + 1}
  ELSE {f \in 0..(tip + 1) : /\ f >= resume_from - MaxOverReplay
                             /\ f >= tip - Window}
       \cup (IF BeyondWindow THEN {Nowhere} ELSE {})

SubscribeOpens(f) ==
  /\ pc = "subscribe"
  /\ pc' = "stream"
  /\ served_from' = f /\ delivered' = {}
  /\ session_first_slot' = NoSlot /\ resume_judged' = FALSE
  /\ opened' = IF Sampling THEN opened + 1 ELSE opened
  /\ UNCHANGED <<store, tip, slot_budget, conn, ret, loop, writer, gap_row,
                 base, seams, unrecorded, faults>>

(* record_gap: an insert that is awaited without a timeout.                *)
RecordGap(row, then) ==
  /\ pc' = "gap" /\ gap_row' = row /\ ret' = then

(* A rejected subscribe with a resume point, unattended: the gap is        *)
(* recorded up to the last slot this process saw, and the next pass starts *)
(* at the tip without waiting.  Without a resume point, or in a sample,    *)
(* the error ends the process (Crash).                                     *)
SubscribeRejected ==
  /\ pc = "subscribe" /\ resume_from # NoSlot /\ ~Sampling
  /\ IF BeyondWindow THEN UNCHANGED faults ELSE Faulty
  /\ RecordGap(GapRow(resume_from, last_slot, "rejected"), "resume")
  /\ force_tip' = TRUE
  /\ UNCHANGED <<store, tip, slot_budget, provider, conn, resume_from,
                 shutdown, first_slot, last_slot, seam, writer, ghost>>

-----------------------------------------------------------------------------
(* One session: the select loop.                                           *)

(* Produced, inside the session, not delivered yet, and every update of an *)
(* earlier served slot delivered.                                          *)
Deliverable(u) ==
  /\ u \notin delivered
  /\ SlotOf[u] <= tip /\ SlotOf[u] >= served_from
  /\ \A v \in Updates :
       SlotOf[v] >= served_from /\ SlotOf[v] < SlotOf[u] => v \in delivered

(* What the session that now yields its first update was asked for.        *)
Asked == IF resume_from # NoSlot THEN resume_from ELSE base

(* The hole the provider, or the choice of the tip, left before slot s.    *)
SeamBefore(s) ==
  IF session_first_slot = NoSlot /\ served_from > Asked
    THEN {[from |-> Asked, to |-> s]} ELSE {}

(* An account message, up to the size-triggered flush: raw and decoded row *)
(* are buffered together.                                                  *)
Deliver(u) ==
  /\ pc = "stream" /\ Deliverable(u)
  /\ delivered' = delivered \cup {u}
  /\ session_first_slot' =
       IF session_first_slot = NoSlot THEN SlotOf[u] ELSE session_first_slot
  /\ first_slot' = IF first_slot = NoSlot THEN SlotOf[u] ELSE first_slot
  /\ last_slot' = SlotOf[u]
  /\ IF BatchFull(Append(buf, u))
       THEN StartFlush(Append(buf, u), "handled")
       ELSE /\ buf' = Append(buf, u) /\ pc' = "handled"
            /\ UNCHANGED <<batch, unsent, ret>>
  /\ seams' = seams \cup SeamBefore(SlotOf[u])
  /\ UNCHANGED <<store, tip, slot_budget, served_from, conn, resume_from,
                 force_tip, shutdown, resume_judged, gap_row, base, unrecorded,
                 opened, faults>>

(* Mutant: the slot itself, not the span since the first, is held against  *)
(* the budget.                                                             *)
BudgetSpent_BySlot == Sampling /\ last_slot >= slot_budget

BudgetSpent == Sampling /\ last_slot - first_slot >= slot_budget

(* The rest of the message: the budget stop comes before the seam is       *)
(* judged.                                                                 *)
StopOnBudget ==
  /\ pc = "handled" /\ BudgetSpent
  /\ FinalFlush
  /\ UNCHANGED <<store, tip, slot_budget, provider, conn, loop, seam, gap_row,
                 ghost, faults>>

(* Mutant: the seam is judged on the first slot of the process, not of the *)
(* session.                                                                *)
SeamEvidence_FirstSlot == first_slot

(* Mutant: the seam is judged on the slot notifications, not on accounts.  *)
SeamEvidence_SlotNotifications == tip

SeamEvidence == session_first_slot

(* Startup gap detection, once per session.                                *)
Judge ==
  /\ pc = "handled" /\ ~BudgetSpent
  /\ resume_judged' = TRUE
  /\ LET verdict == ClassifyResume(resume_from, SeamEvidence) IN
     IF ~resume_judged /\ verdict.kind = "gap"
       THEN RecordGap(GapRow(verdict.start_slot, verdict.end_slot, "startup"),
                      "stream")
       ELSE pc' = "stream" /\ UNCHANGED <<gap_row, ret>>
  /\ UNCHANGED <<store, tip, slot_budget, provider, conn, loop,
                 session_first_slot, writer, ghost, faults>>

(* flush_tick, every FLUSH_INTERVAL_SECS; a no-op on empty buffers.        *)
TimerFlush ==
  /\ pc = "stream" /\ buf # <<>>
  /\ StartFlush(buf, "stream")
  /\ UNCHANGED <<store, tip, slot_budget, provider, conn, loop, seam, gap_row,
                 ghost, faults>>

(* The stream ends or errors (signalled = FALSE), or SIGINT/SIGTERM.       *)
LeaveStream(signalled) ==
  /\ pc = "stream"
  /\ Faulty
  /\ shutdown' = signalled
  /\ FinalFlush
  /\ UNCHANGED <<store, tip, slot_budget, provider, conn, resume_from,
                 force_tip, first_slot, last_slot, seam, gap_row, ghost>>

(* "failed to get replay position": the error of a session opened Nowhere. *)
ReplayErrors ==
  /\ pc = "stream" /\ served_from = Nowhere
  /\ FinalFlush
  /\ UNCHANGED <<store, tip, slot_budget, provider, conn, loop, seam, gap_row,
                 ghost, faults>>

-----------------------------------------------------------------------------
(* After the session and its final flush.                                  *)

(* Mutant: a sample whose stream ends early reconnects like any other run. *)
IntendedStop_BudgetOnly == shutdown \/ BudgetSpent

(* A signal, a spent budget, or a sample whose stream ended.               *)
IntendedStop == shutdown \/ Sampling

Stop ==
  /\ pc = "ended" /\ IntendedStop
  /\ pc' = "stopped"
  /\ UNCHANGED <<store, tip, slot_budget, provider, conn, ret, loop, seam,
                 writer, gap_row, ghost, faults>>

(* Mutant: no fallback for a session that gets no data; it is retried.     *)
Unreachable_Never == FALSE

(* A resumed session that got no data is taken to have asked for a slot    *)
(* beyond the replay window.                                               *)
Unreachable == session_first_slot = NoSlot /\ resume_from # NoSlot

ResumeUnreachable ==
  /\ pc = "ended" /\ ~IntendedStop /\ Unreachable
  /\ RecordGap(GapRow(resume_from, last_slot, "unreachable"), "resume")
  /\ force_tip' = TRUE
  /\ UNCHANGED <<store, tip, slot_budget, provider, conn, resume_from,
                 shutdown, first_slot, last_slot, seam, writer, ghost, faults>>

Reconnect ==
  /\ pc = "ended" /\ ~IntendedStop /\ ~Unreachable
  /\ pc' = "resume"
  /\ UNCHANGED <<store, tip, slot_budget, provider, conn, ret, loop, seam,
                 writer, gap_row, ghost, faults>>

-----------------------------------------------------------------------------
(* The inserts.                                                            *)

StoreRows(t) ==
  tables' = [tables EXCEPT ![t] = @ \cup RowsIn(batch, t)]

InsertRows ==
  /\ pc = "insert" /\ conn = "up" /\ ~DataCommitted
  /\ StoreRows(NextTable(unsent))
  /\ unsent' = unsent \ {NextTable(unsent)}
  /\ UNCHANGED <<checkpoint, gaps, limbo, tip, slot_budget, provider, conn, pc,
                 ret, loop, seam, buf, batch, gap_row, ghost, faults>>

InsertCheckpoint ==
  /\ pc = "insert" /\ conn = "up" /\ DataCommitted
  /\ checkpoint' = HighWater(batch)
  /\ pc' = ret /\ batch' = <<>> /\ unsent' = {}
  /\ UNCHANGED <<tables, gaps, limbo, tip, slot_budget, provider, conn, ret,
                 loop, seam, buf, gap_row, ghost, faults>>

(* An insert errors or runs into INSERT_TIMEOUT; `?` ends the process.     *)
(* The server may have applied it all the same, and may yet apply a        *)
(* checkpoint it has only received.                                        *)
InsertFails ==
  /\ pc = "insert"
  /\ IF conn = "up" THEN Faulty ELSE UNCHANGED faults
  /\ \/ UNCHANGED store
     \/ /\ ~DataCommitted
        /\ StoreRows(NextTable(unsent))
        /\ UNCHANGED <<checkpoint, gaps, limbo>>
     \/ /\ DataCommitted
        /\ \/ checkpoint' = HighWater(batch) /\ UNCHANGED limbo
           \/ limbo' = limbo \cup {HighWater(batch)} /\ UNCHANGED checkpoint
        /\ UNCHANGED <<tables, gaps>>
  /\ Exit
  /\ UNCHANGED <<tip, slot_budget, conn, seams, unrecorded>>

(* `updated_at` defaults to the server's clock at insertion, so a late     *)
(* checkpoint is the newest one.                                           *)
LateCheckpoint(c) ==
  /\ checkpoint' = c /\ limbo' = limbo \ {c}
  /\ UNCHANGED <<tables, gaps, tip, slot_budget, provider, conn, pc, ret, loop,
                 seam, writer, gap_row, ghost, faults>>

(* slot_gaps is a ReplacingMergeTree ordered by start_slot.                *)
UpsertGap(row) ==
  gaps' = {g \in gaps : g.start_slot # row.start_slot} \cup {row}

RecordGapReturns ==
  /\ pc = "gap" /\ conn = "up"
  /\ UpsertGap(gap_row)
  /\ pc' = ret /\ gap_row' = NoRow
  /\ UNCHANGED <<tables, checkpoint, limbo, tip, slot_budget, provider, conn,
                 ret, loop, seam, writer, ghost, faults>>

(* Fire and forget: the error is logged and the stream goes on.            *)
RecordGapErrs ==
  /\ pc = "gap" /\ conn = "up" /\ Faulty
  /\ UpsertGap(gap_row) \/ UNCHANGED gaps
  /\ unrecorded' = unrecorded \cup {gap_row.start_slot}
  /\ pc' = ret /\ gap_row' = NoRow
  /\ UNCHANGED <<tables, checkpoint, limbo, tip, slot_budget, provider, conn,
                 ret, loop, seam, writer, base, seams, opened>>

-----------------------------------------------------------------------------
(* The world around the process.                                           *)

(* A `?` on a read, connect or subscribe; a panic; SIGKILL; a lost host.   *)
Crash ==
  /\ Running /\ Faulty
  /\ Exit
  /\ UNCHANGED <<store, tip, slot_budget, conn, seams, unrecorded>>

ConnHalfOpens ==
  /\ Running /\ conn = "up" /\ Faulty
  /\ conn' = "half_open"
  /\ UNCHANGED <<store, tip, slot_budget, provider, pc, ret, loop, seam,
                 writer, gap_row, ghost>>

(* deploy/watchdog.sh restarts a container whose newest row is stale.  It  *)
(* matters where no timeout of the process's own would end the wait.       *)
Parked == conn = "half_open" /\ (pc = "gap" \/ (pc = "resume" /\ ~force_tip))

WatchdogRestarts ==
  /\ Parked
  /\ Exit
  /\ UNCHANGED <<store, tip, slot_budget, conn, seams, unrecorded, faults>>

TipAdvances ==
  /\ tip < MaxTip
  /\ tip' = tip + 1
  /\ UNCHANGED <<store, slot_budget, provider, conn, pc, ret, loop, seam,
                 writer, gap_row, ghost, faults>>

Subscribed == \E f \in Openings : SubscribeOpens(f)
Delivers   == \E u \in Updates : Deliver(u)

Next ==
  \/ Boot \/ ReadCheckpoint \/ StartFromTip
  \/ Subscribed \/ SubscribeRejected
  \/ Delivers \/ StopOnBudget \/ Judge \/ TimerFlush
  \/ \E signalled \in BOOLEAN : LeaveStream(signalled)
  \/ ReplayErrors \/ Stop \/ ResumeUnreachable \/ Reconnect
  \/ InsertRows \/ InsertCheckpoint \/ InsertFails
  \/ \E c \in limbo : LateCheckpoint(c)
  \/ RecordGapReturns \/ RecordGapErrs
  \/ Crash \/ ConnHalfOpens \/ WatchdogRestarts \/ TipAdvances

Spec == Init /\ [][Next]_vars

(* The supervisor restarts the process, the one task runs whenever it can, *)
(* the select loop starves no ready branch, an insert on a half-open       *)
(* connection times out, and the provider delivers what it serves.         *)
ProcessFairness ==
  /\ WF_vars(Boot) /\ WF_vars(ReadCheckpoint) /\ WF_vars(StartFromTip)
  /\ WF_vars(Subscribed) /\ WF_vars(Delivers)
  /\ WF_vars(ReplayErrors) /\ WF_vars(StopOnBudget) /\ WF_vars(Judge)
  /\ WF_vars(TimerFlush)
  /\ WF_vars(Stop) /\ WF_vars(ResumeUnreachable) /\ WF_vars(Reconnect)
  /\ WF_vars(InsertRows) /\ WF_vars(InsertCheckpoint)
  /\ WF_vars(InsertFails /\ conn = "half_open")
  /\ WF_vars(RecordGapReturns)

ProcessSpec == Spec /\ ProcessFairness

(* With the watchdog timer installed on the host.                          *)
SupervisedSpec == ProcessSpec /\ WF_vars(WatchdogRestarts)

-----------------------------------------------------------------------------
(* Types.                                                                  *)

Rows  == Seq(Updates)
Slots == OptSlot

GapRows == [start_slot : Slots, end_slot : Slots,
            reason : {"none", "rejected", "unreachable", "startup"}]

TypeOK ==
  /\ tables \in [Tables -> SUBSET Updates]
  /\ checkpoint \in Slots /\ limbo \subseteq Slots
  /\ gaps \subseteq GapRows /\ gap_row \in GapRows
  /\ tip \in Nat /\ served_from \in Nat /\ delivered \subseteq Updates
  /\ conn \in {"up", "half_open"} /\ slot_budget \in Budgets
  /\ pc \in {"down", "resume", "subscribe", "stream", "handled", "insert",
             "gap", "ended", "stopped"}
  /\ ret \in {"resume", "stream", "handled", "ended"}
  /\ resume_from \in Slots /\ first_slot \in Slots /\ last_slot \in Nat
  /\ session_first_slot \in Slots
  /\ force_tip \in BOOLEAN /\ shutdown \in BOOLEAN /\ resume_judged \in BOOLEAN
  /\ buf \in Rows /\ Len(buf) < BatchMax
  /\ batch \in Rows /\ Len(batch) <= BatchMax /\ unsent \subseteq Tables
  /\ base \in Slots /\ seams \subseteq [from : Slots, to : Nat]
  /\ unrecorded \subseteq Slots
  /\ opened \in Nat /\ faults \in Nat

-----------------------------------------------------------------------------
(* Properties.                                                             *)

Complete(u) == \A t \in TablesOf[u] : u \in tables[t]
InSeam(u)   == \E h \in seams : h.from <= SlotOf[u] /\ SlotOf[u] < h.to

Covered(c) == \A u \in Updates : SlotOf[u] < c => Complete(u) \/ InSeam(u)

(* A checkpoint is never ahead of its data: every update below it has its  *)
(* raw row and its decoded row stored, or lies in a stretch some session   *)
(* was never served.  (schema/002: data first, checkpoint second, resume   *)
(* inclusive because a slot can be split across two batches.)              *)
CheckpointCovered == Covered(checkpoint)

(* What the checkpoint has passed by and no session stored.                *)
Lost(u) == SlotOf[u] < checkpoint /\ ~Complete(u)

HasGapRow(s) == \E g \in gaps : g.start_slot = s

(* No silent hole: whatever the checkpoint has passed by was lost before   *)
(* the very first checkpoint, or in a drift within tolerance, or left a    *)
(* row in slot_gaps under the resume point it was lost after, unless       *)
(* inserting that very row returned an error.                              *)
EveryHoleLeavesARow ==
  \A u \in Updates : Lost(u) =>
    \E h \in seams :
      /\ h.from <= SlotOf[u] /\ SlotOf[u] < h.to
      /\ \/ h.from = NoSlot
         \/ h.to - h.from <= Tolerance
         \/ HasGapRow(h.from)
         \/ h.from \in unrecorded

(* A startup row is never fiction: when the detector writes one, the       *)
(* session did open past the resume point it asked for.                    *)
StartupRowsAreReal ==
  [][pc = "handled" /\ pc' = "gap" => served_from > resume_from]_vars

(* A stop by signal or budget leaves nothing in memory: all the session    *)
(* delivered is stored ("must flush the last partial batch, not drop it"). *)
StopLosesNothing ==
  pc = "stopped" => \A u \in delivered : Complete(u)

(* A bounded sample never opens the billed stream a second time.           *)
OneStreamPerSample == Sampling => opened <= 1

(* From the first message of a session on, its seam is judged before       *)
(* anything else is awaited: no flush, no second message, no end of the    *)
(* session or of the process finds it unjudged.                            *)
SeamIsJudged ==
  session_first_slot # NoSlot /\ pc # "handled" => resume_judged

(* Every produced update ends up stored in full, in an acknowledged hole,  *)
(* or behind the start of a session that is still waiting for its first    *)
(* message.                                                                *)
Settled(u) ==
  \/ Complete(u) \/ InSeam(u)
  \/ /\ pc = "stream" /\ session_first_slot = NoSlot
     /\ SlotOf[u] < served_from /\ served_from # Nowhere

EveryUpdateSettles ==
  \A u \in Updates : SlotOf[u] <= tip ~> Settled(u)

(* The indexer implements a resumable log.                                 *)
Log == INSTANCE ResumableLog WITH
         stored  <- {u \in Updates : Complete(u)},
         skipped <- seams,
         horizon <- checkpoint

ImplementsLog == Log!Spec

-----------------------------------------------------------------------------
(* The inductive strengthening of CheckpointCovered.                       *)

(* Where rows may be in memory: nothing is buffered outside a session, and *)
(* a flush in progress has taken all of it.                                *)
ControlOK ==
  /\ pc = "insert" => batch # <<>> /\ buf = <<>> /\ ret # "resume"
  /\ pc = "gap" => ret \in {"stream", "resume"} /\ (ret = "resume" => buf = <<>>)
  /\ pc \in {"down", "resume", "subscribe", "ended", "stopped"} => buf = <<>>

(* The high-water mark of what is in memory is the last slot processed;    *)
(* the tables the flush has been through hold their part of the batch.     *)
BatchOK ==
  /\ buf # <<>> => session_first_slot # NoSlot /\ HighWater(buf) = last_slot
  /\ pc = "insert" =>
       /\ session_first_slot # NoSlot /\ HighWater(batch) = last_slot
       /\ \A t \in Tables \ unsent : RowsIn(batch, t) \subseteq tables[t]

InMemory(u) == u \in ToSet(buf) \/ (pc = "insert" /\ u \in ToSet(batch))

(* The session has delivered, in slot order, everything it serves below    *)
(* the last slot, and all of it is stored or in memory.                    *)
SessionOK ==
  /\ \A u \in delivered : Complete(u) \/ InMemory(u)
  /\ session_first_slot = NoSlot => delivered = {}
  /\ session_first_slot # NoSlot =>
       /\ served_from <= session_first_slot
       /\ \A u \in Updates :
            served_from <= SlotOf[u] /\ SlotOf[u] < last_slot => u \in delivered

(* Not the checkpoint alone: every slot that was or may yet become one.    *)
CoverageOK ==
  /\ Covered(checkpoint) /\ Covered(base)
  /\ \A c \in limbo : Covered(c)
  /\ session_first_slot # NoSlot => Covered(session_first_slot)
  /\ resume_from # NoSlot => resume_from = base

IInv == TypeOK /\ ControlOK /\ BatchOK /\ SessionOK /\ CoverageOK

-----------------------------------------------------------------------------
(* What the comments of the code say and its behaviour does not bear out.  *)

(* schema/004: a row's bounds are the missed range, end_slot the first     *)
(* slot received after the gap.  So what was lost after a recorded resume  *)
(* point lies within some row.                                             *)
GapRowSpansHole ==
  \A u \in Updates : Lost(u) =>
    \E h \in seams :
      /\ h.from <= SlotOf[u] /\ SlotOf[u] < h.to
      /\ \/ h.from = NoSlot
         \/ h.to - h.from <= Tolerance
         \/ h.from \in unrecorded
         \/ \E g \in gaps : g.start_slot <= SlotOf[u] /\ SlotOf[u] < g.end_slot

=============================================================================
