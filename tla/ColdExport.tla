----------------------------- MODULE ColdExport -----------------------------
(***************************************************************************)
(* The Parquet export (src/src/bin/parquet_export.rs): for each of two     *)
(* tables, read the slot bounds, walk the slot partitions between them,    *)
(* skip those already exported unless a full run is asked for, stream each *)
(* of the others in slot order into a temporary file, rename it, and       *)
(* compare the row counts.  The indexer and the snapshot job go on writing *)
(* the hot store meanwhile.                                                *)
(*                                                                         *)
(* Simplifications                                                         *)
(*  - A row is a model value with a slot and a table; its columns, the     *)
(*    Arrow conversion and the compression are left out.                   *)
(*  - A file is created on the first row, so a published file has rows and *)
(*    {} stands for no file.  A temporary file that a failed run leaves    *)
(*    behind is truncated by the next and read by nobody.                  *)
(*  - A ClickHouse SELECT reads what was stored when it began.             *)
(*  - One export runs at a time, as the scripts of deploy/ start it.       *)
(***************************************************************************)
EXTENDS Integers, Sequences, FiniteSets

CONSTANTS
  Rows,          \* rows the writers of the hot store ever produce
  SlotOf,        \* [Rows -> Nat]
  TableOf,       \* [Rows -> the tables exported]
  StreamRows,    \* written by the indexer, in slot order; the others by snapshots
  PartSize,      \* SLOTS_PER_PARTITION
  BatchRows,     \* BATCH_ROWS, rows per row group
  MaxCopies,     \* bound: uncollapsed copies of one row
  MaxRuns        \* bound: runs of the export

Tables == <<"account_updates", "obligation_snapshots">>
TableNames == {"account_updates", "obligation_snapshots"}

ASSUME ExportAssumption ==
  /\ SlotOf \in [Rows -> Nat] /\ TableOf \in [Rows -> TableNames]
  /\ StreamRows \subseteq Rows /\ IsFiniteSet(Rows)
  /\ PartSize \in Nat \ {0} /\ BatchRows \in Nat \ {0}
  /\ MaxCopies \in Nat \ {0} /\ MaxRuns \in Nat

VARIABLES
  copies,        \* hot store: row -> copies not yet collapsed, 0 when absent
  cold,          \* archive: table -> partition -> rows of the file, {} for none
  \* the run
  pc,            \* "bounds", "part", "stream"; "done" and "failed" are exits
  full,          \* KLEND_PARQUET_FULL
  table,         \* position in Tables
  bounds,        \* [first, last, rows] as read at the start of the table
  part,          \* partition at hand
  result,        \* what the query of the partition returns
  groups,        \* rows in the row groups written to the temporary file
  pending,       \* rows in the batch builder
  total,         \* rows exported of this table
  defect,        \* whether the run has printed DEFECT
  \* observation only
  before,        \* what the store held when the run began
  disturbed,     \* whether the store changed since the bounds were read
  runs

run  == <<full, table, bounds, part, result, groups, pending, total, defect, before, runs>>
vars == <<copies, cold, pc, run, disturbed>>

-----------------------------------------------------------------------------
Stored == {r \in Rows : copies[r] > 0}
Hot(t) == {r \in Stored : TableOf[r] = t}
T      == Tables[table]

PartOf(r) == SlotOf[r] \div PartSize
Parts     == {PartOf(r) : r \in Rows}

(* count() without FINAL: every copy counts.                               *)
Copies(t) == {c \in Hot(t) \X (1..MaxCopies) : c[2] <= copies[c[1]]}

CountRows(t) == Cardinality(Copies(t))

(* Mutant: the upper end of the range is included.                         *)
InPartition_Closed(r, p) ==
  p * PartSize <= SlotOf[r] /\ SlotOf[r] <= (p + 1) * PartSize

InPartition(r, p) ==
  p * PartSize <= SlotOf[r] /\ SlotOf[r] < (p + 1) * PartSize

Init ==
  /\ copies = [r \in Rows |-> 0]
  /\ cold = [t \in TableNames |-> [p \in Parts |-> {}]]
  /\ pc = "done" /\ full = FALSE /\ table = 1
  /\ bounds = [first |-> 0, last |-> 0, rows |-> 0] /\ part = 0
  /\ result = {} /\ groups = {} /\ pending = {} /\ total = 0
  /\ defect = FALSE /\ before = {} /\ disturbed = FALSE /\ runs = 0

-----------------------------------------------------------------------------
(* The writers of the hot store.                                           *)

(* The stream only moves forward; a snapshot row carries the slot its RPC  *)
(* answered for, wherever the stream is.                                   *)
Ingest(r) ==
  /\ copies[r] = 0
  /\ r \in StreamRows => \A s \in StreamRows :
       SlotOf[s] < SlotOf[r] /\ TableOf[s] = TableOf[r] => copies[s] > 0
  /\ copies' = [copies EXCEPT ![r] = 1]
  /\ disturbed' = TRUE
  /\ UNCHANGED <<cold, pc, run>>

(* A resumed stream delivers the row again.                                *)
Replay(r) ==
  /\ r \in StreamRows /\ copies[r] > 0 /\ copies[r] < MaxCopies
  /\ copies' = [copies EXCEPT ![r] = @ + 1]
  /\ disturbed' = TRUE
  /\ UNCHANGED <<cold, pc, run>>

(* A background merge collapses the copies.                                *)
Merge(r) ==
  /\ copies[r] > 1
  /\ copies' = [copies EXCEPT ![r] = 1]
  /\ UNCHANGED <<cold, pc, run, disturbed>>

-----------------------------------------------------------------------------
(* The export.                                                             *)

StartRun(everything) ==
  /\ pc \in {"done", "failed"} /\ runs < MaxRuns
  /\ pc' = "bounds" /\ full' = everything /\ table' = 1
  /\ defect' = FALSE /\ before' = Stored /\ runs' = runs + 1
  /\ UNCHANGED <<copies, cold, bounds, part, result, groups, pending, total,
                 disturbed>>

NextTable ==
  IF table < Len(Tables) THEN table' = table + 1 /\ pc' = "bounds"
                         ELSE pc' = "done" /\ UNCHANGED table

EmptyTable ==
  /\ pc = "bounds" /\ Hot(T) = {}
  /\ NextTable
  /\ UNCHANGED <<copies, cold, full, bounds, part, result, groups, pending,
                 total, defect, before, runs, disturbed>>

ReadBounds ==
  /\ pc = "bounds"
  /\ \E first, last \in {PartOf(r) : r \in Hot(T)} :
       /\ \A r \in Hot(T) : PartOf(r) \in first..last
       /\ bounds' = [first |-> first, last |-> last, rows |-> CountRows(T)]
       /\ part' = first
  /\ total' = 0 /\ disturbed' = FALSE
  /\ pc' = "part"
  /\ UNCHANGED <<copies, cold, full, table, result, groups, pending, defect,
                 before, runs>>

(* Mutant: the walk stops before the partition that holds the last slot.   *)
MoreParts_Exclusive == part < bounds.last

MoreParts == part <= bounds.last

(* A partition with no rows has no file and is never found to exist.       *)
FileExists == part \in Parts /\ cold[T][part] # {}

(* Only the partition that holds the last slot is taken to be growing.     *)
Skippable == ~full /\ part # bounds.last /\ FileExists

SkipPartition ==
  /\ pc = "part" /\ MoreParts /\ Skippable
  /\ part' = part + 1
  /\ UNCHANGED <<copies, cold, pc, full, table, bounds, result, groups, pending,
                 total, defect, before, runs, disturbed>>

OpenPartition ==
  /\ pc = "part" /\ MoreParts /\ ~Skippable
  /\ result' = {r \in Hot(T) : InPartition(r, part)}
  /\ groups' = {} /\ pending' = {}
  /\ pc' = "stream"
  /\ UNCHANGED <<copies, cold, full, table, bounds, part, total, defect, before,
                 runs, disturbed>>

(* Mutant: the builder is emptied one row late.                            *)
GroupFull_Late(rows) == Cardinality(rows) > BatchRows

GroupFull(rows) == Cardinality(rows) >= BatchRows

(* The next row in slot order joins the builder; a full builder becomes a  *)
(* row group.                                                              *)
ReadRow(r) ==
  /\ pc = "stream" /\ r \in result \ (groups \cup pending)
  /\ \A s \in result \ (groups \cup pending) : SlotOf[r] <= SlotOf[s]
  /\ IF GroupFull(pending \cup {r})
       THEN groups' = groups \cup pending \cup {r} /\ pending' = {}
       ELSE pending' = pending \cup {r} /\ UNCHANGED groups
  /\ UNCHANGED <<copies, cold, pc, full, table, bounds, part, result, total,
                 defect, before, runs, disturbed>>

(* Mutant: the rows still in the builder never reach the file.             *)
WholeFile_GroupsOnly == groups

WholeFile == groups \cup pending

Publish(rows) ==
  cold' = IF rows = {} THEN cold ELSE [cold EXCEPT ![T][part] = rows]

(* The footer is written and the file renamed over the earlier one.        *)
EndPartition ==
  /\ pc = "stream" /\ result \subseteq groups \cup pending
  /\ Publish(WholeFile)
  /\ total' = total + Cardinality(WholeFile)
  /\ part' = part + 1 /\ pc' = "part"
  /\ result' = {} /\ groups' = {} /\ pending' = {}
  /\ UNCHANGED <<copies, full, table, bounds, defect, before, runs, disturbed>>

(* The row check: more rows out than in.                                   *)
EndTable ==
  /\ pc = "part" /\ ~MoreParts
  /\ defect' = (defect \/ total > bounds.rows)
  /\ NextTable
  /\ UNCHANGED <<copies, cold, full, bounds, part, result, groups, pending,
                 total, before, runs, disturbed>>

(* Mutant: rows are written to the final path, so a failed run leaves what *)
(* it had.                                                                 *)
LeftByFailure_InPlace ==
  IF pc = "stream" THEN Publish(groups) ELSE UNCHANGED cold

LeftByFailure == UNCHANGED cold

(* Any `?`: a read, a row that does not convert, the disk; or a kill.      *)
RunFails ==
  /\ pc \in {"bounds", "part", "stream"}
  /\ LeftByFailure
  /\ pc' = "failed" /\ result' = {} /\ groups' = {} /\ pending' = {}
  /\ UNCHANGED <<copies, full, table, bounds, part, total, defect, before, runs,
                 disturbed>>

Exporter ==
  \/ EmptyTable \/ ReadBounds \/ SkipPartition \/ OpenPartition
  \/ (\E r \in Rows : ReadRow(r)) \/ EndPartition \/ EndTable

Next ==
  \/ \E r \in Rows : Ingest(r) \/ Replay(r) \/ Merge(r)
  \/ \E everything \in BOOLEAN : StartRun(everything)
  \/ Exporter \/ RunFails

Spec == Init /\ [][Next]_vars

-----------------------------------------------------------------------------
Archived == UNION {cold[t][p] : t \in TableNames, p \in Parts}

TypeOK ==
  /\ copies \in [Rows -> 0..MaxCopies]
  /\ cold \in [TableNames -> [Parts -> SUBSET Rows]]
  /\ pc \in {"bounds", "part", "stream", "done", "failed"}
  /\ full \in BOOLEAN /\ table \in 1..Len(Tables)
  /\ bounds.first \in Nat /\ bounds.last \in Nat /\ part \in Nat
  /\ result \subseteq Rows /\ groups \subseteq result /\ pending \subseteq result
  /\ Cardinality(pending) < BatchRows
  /\ total \in Nat /\ defect \in BOOLEAN /\ before \subseteq Rows
  /\ disturbed \in BOOLEAN /\ runs \in Nat

(* The archive is a derived copy: it only grows, also through failed runs  *)
(* and re-exports, and holds nothing the store does not.                   *)
Copy == INSTANCE Archive WITH store <- Stored, archived <- Archived

ImplementsArchive == Copy!Spec

(* No reader ever sees a partial file: a file that appears or is replaced  *)
(* has every row its partition held when the run began.                    *)
PublishedIsWhole ==
  [][\A t \in TableNames : \A p \in Parts : cold'[t][p] # cold[t][p] =>
       {r \in before : TableOf[r] = t /\ PartOf(r) = p} \subseteq cold'[t][p]]_vars

(* A full run that succeeds archives all the store held when it began,     *)
(* whatever was written meanwhile.  freeze.sh relies on it before it stops *)
(* the database.                                                           *)
FullRunArchivesAll == pc = "done" /\ full => before \subseteq Archived

(* With the writers stopped, as in a freeze, the row check stays silent:   *)
(* no row is exported twice.                                               *)
QuietRunHasNoDefect ==
  [][pc = "part" /\ ~defect /\ defect' => disturbed]_vars

-----------------------------------------------------------------------------
(* The inductive strengthening of the properties above.                    *)

InFile(rows, t, p) == {r \in rows : TableOf[r] = t /\ PartOf(r) = p}

(* A file holds stored rows of its own table and partition.                *)
FilesOK ==
  /\ before \subseteq Stored
  /\ \A t \in TableNames : \A p \in Parts : cold[t][p] \subseteq InFile(Stored, t, p)

(* The query in progress returns rows of the partition at hand: all that   *)
(* were there when the run began, and all of the file it will replace.     *)
StreamOK ==
  pc = "stream" =>
    /\ MoreParts
    /\ result \subseteq InFile(Stored, T, part)
    /\ InFile(before, T, part) \subseteq result
    /\ part \in Parts => cold[T][part] \subseteq result

InArchive(r) == r \in cold[TableOf[r]][PartOf(r)]

(* A full run has archived what its walk has passed.                       *)
WalkOK ==
  full =>
    /\ pc # "failed" /\ table = 2 =>
         \A r \in before : TableOf[r] = Tables[1] => InArchive(r)
    /\ pc \in {"part", "stream"} => \A r \in before : TableOf[r] = T =>
         /\ bounds.first <= PartOf(r) /\ PartOf(r) <= bounds.last
         /\ PartOf(r) < part => InArchive(r)
    /\ pc = "done" => \A r \in before : InArchive(r)

IInv == TypeOK /\ FilesOK /\ StreamOK /\ WalkOK

-----------------------------------------------------------------------------
(* What the comments of the code say and its behaviour does not bear out.  *)

(* A partition is skipped since it is closed history, and re-exporting it  *)
(* would give a byte-identical result.                                     *)
SkippedIsIdentical ==
  pc = "part" /\ MoreParts /\ Skippable =>
    cold[T][part] = {r \in Hot(T) : InPartition(r, part)}
=============================================================================
