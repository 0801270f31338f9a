-------------------------- MODULE ColdExportProofs --------------------------
(***************************************************************************)
(* Theorems about the export, for any rows, partition width, row-group     *)
(* size and number of copies and runs.  The walk's bookkeeping is IInv of  *)
(* ColdExport; it gives completeness and, with a step simulation, the      *)
(* refinement of Archive.  CountOK gives the row check.                    *)
(***************************************************************************)
EXTENDS ColdExport, FiniteSetTheorems, TLAPS

USE ExportAssumption DEF TableNames

LEMMA TableFacts ==
  /\ Len(Tables) = 2
  /\ Tables[1] = "account_updates" /\ Tables[2] = "obligation_snapshots"
BY DEF Tables

(* A slot lies between the ends of exactly the partition it divides into.  *)
LEMMA PartitionOfSlot ==
  ASSUME NEW s \in Nat, NEW k \in Nat \ {0}, NEW p \in Nat
  PROVE  /\ s \div k \in Nat
         /\ p * k <= s /\ s < (p + 1) * k <=> p = s \div k
OBVIOUS

LEMMA PartFacts ==
  /\ \A r \in Rows : PartOf(r) \in Nat /\ PartOf(r) \in Parts
  /\ Parts \subseteq Nat
  /\ \A r \in Rows, p \in Nat : InPartition(r, p) <=> PartOf(r) = p
BY PartitionOfSlot DEF PartOf, Parts, InPartition

LEMMA FiniteRows ==
  ASSUME NEW S \in SUBSET Rows
  PROVE  IsFiniteSet(S) /\ Cardinality(S) \in Nat
BY FS_Subset, FS_CardinalityType

-----------------------------------------------------------------------------

LEMMA InitInv == Init => IInv
<1> SUFFICES ASSUME Init PROVE IInv
  OBVIOUS
<1>1. TypeOK
  <2>1. copies \in [Rows -> 0..MaxCopies] /\ cold \in [TableNames -> [Parts -> SUBSET Rows]]
    BY DEF Init
  <2>2. bounds.first \in Nat /\ bounds.last \in Nat /\ table \in 1..Len(Tables)
    BY TableFacts DEF Init
  <2>3. Cardinality(pending) < BatchRows
    BY FS_EmptySet DEF Init
  <2> QED
    BY <2>1, <2>2, <2>3 DEF Init, TypeOK
<1>2. FilesOK /\ StreamOK /\ WalkOK
  BY DEF Init, FilesOK, StreamOK, WalkOK
<1> QED
  BY <1>1, <1>2 DEF IInv

(* The writers only add rows: what the export knows of them stays true.    *)
LEMMA WriterStep ==
  ASSUME IInv, NEW r \in Rows, Ingest(r) \/ Replay(r) \/ Merge(r)
  PROVE  IInv' /\ Stored \subseteq Stored' /\ Archived' = Archived
<1> USE DEF Ingest, Replay, Merge, run
<1>1. copies' \in [Rows -> 0..MaxCopies] /\ \A q \in Rows : copies[q] > 0 => copies'[q] > 0
  <2>1. copies \in [Rows -> 0..MaxCopies]
    BY DEF IInv, TypeOK
  <2>2. CASE Ingest(r)
    BY <2>1, <2>2
  <2>3. CASE Replay(r)
    <3>1. copies[r] + 1 \in 0..MaxCopies /\ copies[r] + 1 > 0
      BY <2>1, <2>3
    <3> QED
      BY <2>1, <2>3, <3>1
  <2>4. CASE Merge(r)
    BY <2>1, <2>4
  <2> QED
    BY <2>2, <2>3, <2>4
<1>2. Stored \subseteq Stored'
  BY <1>1 DEF Stored
<1>3. TypeOK'
  BY <1>1 DEF IInv, TypeOK
<1>4. FilesOK' /\ StreamOK' /\ WalkOK'
  BY <1>2 DEF IInv, FilesOK, StreamOK, WalkOK, InFile, InArchive, MoreParts, T
<1> QED
  BY <1>2, <1>3, <1>4 DEF IInv, Archived

-----------------------------------------------------------------------------
(* The step of a run that leaves the archive alone, and the next run.      *)

LEMMA StartStep ==
  ASSUME IInv, NEW everything \in BOOLEAN, StartRun(everything)
  PROVE  IInv'
<1> USE DEF StartRun
<1>1. TypeOK'
  <2>1. table' \in 1..Len(Tables) /\ before' \subseteq Rows
    BY TableFacts DEF Stored
  <2>2. runs' \in Nat
    BY DEF IInv, TypeOK
  <2>3. defect' \in BOOLEAN /\ full' \in BOOLEAN
    OBVIOUS
  <2> QED
    BY <2>1, <2>2, <2>3 DEF IInv, TypeOK
<1>2. FilesOK' /\ StreamOK' /\ WalkOK'
  BY DEF IInv, FilesOK, StreamOK, WalkOK, InFile, Stored
<1> QED
  BY <1>1, <1>2 DEF IInv

(* A table whose every row that was there before is archived is done with. *)
LEMMA NextTableStep ==
  ASSUME IInv, pc \in {"bounds", "part"}, NextTable,
         full => \A r \in before : TableOf[r] = T => InArchive(r),
         UNCHANGED <<copies, cold, full, bounds, part, result, groups, pending,
                     total, before, runs, disturbed>>,
         defect' \in BOOLEAN
  PROVE  IInv'
<1>1. TypeOK'
  BY TableFacts DEF IInv, TypeOK, NextTable
<1>2. FilesOK' /\ StreamOK'
  BY DEF IInv, FilesOK, StreamOK, NextTable, InFile, Stored
<1>3. WalkOK'
  <2>1. CASE table = 1
    BY <2>1, TableFacts DEF IInv, WalkOK, NextTable, InArchive, T
  <2>2. CASE table = 2
    <3>1. before \subseteq Rows
      BY DEF IInv, TypeOK
    <3>2. full => \A r \in before : InArchive(r)
      BY <2>2, <3>1, TableFacts DEF IInv, WalkOK, T
    <3> QED
      BY <2>2, <3>2, TableFacts DEF IInv, WalkOK, NextTable, InArchive, T
  <2> QED
    BY <2>1, <2>2, TableFacts DEF IInv, TypeOK
<1> QED
  BY <1>1, <1>2, <1>3 DEF IInv

LEMMA BoundsStep ==
  ASSUME IInv, ReadBounds
  PROVE  IInv'
<1> PICK first \in {PartOf(r) : r \in Hot(T)}, last \in {PartOf(r) : r \in Hot(T)} :
      /\ \A r \in Hot(T) : PartOf(r) \in first..last
      /\ bounds' = [first |-> first, last |-> last, rows |-> CountRows(T)]
      /\ part' = first
  BY DEF ReadBounds
<1>1. first \in Nat /\ last \in Nat
  BY PartFacts DEF Hot, Stored
<1>2. bounds'.first = first /\ bounds'.last = last
  OBVIOUS
<1>3. TypeOK'
  BY <1>1, <1>2 DEF IInv, TypeOK, ReadBounds
<1>4. FilesOK' /\ StreamOK'
  BY DEF IInv, FilesOK, StreamOK, ReadBounds, InFile, Stored
<1>5. WalkOK'
  <2>1. \A r \in before : TableOf[r] = T => first <= PartOf(r) /\ PartOf(r) <= last
    BY DEF IInv, FilesOK, Hot
  <2>2. \A r \in before : TableOf[r] = T => ~(PartOf(r) < first)
    BY <2>1, <1>1, PartFacts DEF IInv, TypeOK
  <2> QED
    BY <2>1, <2>2, <1>2 DEF IInv, WalkOK, ReadBounds, InArchive, T
<1> QED
  BY <1>3, <1>4, <1>5 DEF IInv

(* Only a run that is not full skips.                                      *)
LEMMA SkipStep ==
  ASSUME IInv, SkipPartition
  PROVE  IInv'
<1> USE DEF SkipPartition
<1>1. TypeOK'
  BY DEF IInv, TypeOK
<1>2. FilesOK' /\ StreamOK' /\ WalkOK'
  BY DEF IInv, FilesOK, StreamOK, WalkOK, Skippable, InFile, Stored
<1> QED
  BY <1>1, <1>2 DEF IInv

LEMMA OpenStep ==
  ASSUME IInv, OpenPartition
  PROVE  IInv'
<1> USE DEF OpenPartition
<1>1. result' = InFile(Stored, T, part)
  BY PartFacts DEF IInv, TypeOK, Hot, Stored, InFile
<1>2. TypeOK'
  BY <1>1, FS_EmptySet DEF IInv, TypeOK, InFile, Stored
<1>3. FilesOK'
  BY DEF IInv, FilesOK, Stored, InFile
<1>4. StreamOK'
  <2>1. T \in TableNames
    BY TableFacts DEF IInv, TypeOK, T
  <2> QED
    BY <2>1, <1>1 DEF IInv, FilesOK, StreamOK, InFile, Stored, MoreParts, T
<1>5. WalkOK'
  BY DEF IInv, WalkOK, InArchive, T
<1> QED
  BY <1>2, <1>3, <1>4, <1>5 DEF IInv

LEMMA ReadStep ==
  ASSUME IInv, NEW r \in Rows, ReadRow(r)
  PROVE  IInv'
<1> USE DEF ReadRow
<1>1. TypeOK'
  <2>1. pending \cup {r} \subseteq Rows /\ groups \cup pending \cup {r} \subseteq result
    BY DEF IInv, TypeOK
  <2>2. Cardinality(pending \cup {r}) \in Nat /\ Cardinality({}) = 0
    BY <2>1, FiniteRows, FS_EmptySet
  <2>3. groups' \subseteq result' /\ pending' \subseteq result' /\ Cardinality(pending') < BatchRows
    <3>1. CASE GroupFull(pending \cup {r})
      <4>1. groups' = groups \cup pending \cup {r} /\ pending' = {} /\ result' = result
        BY <3>1
      <4>2. Cardinality({}) < BatchRows
        BY <2>2, ExportAssumption
      <4> QED
        BY <2>1, <4>1, <4>2
    <3>2. CASE ~GroupFull(pending \cup {r})
      <4>1. Cardinality(pending \cup {r}) < BatchRows
        BY <2>2, <3>2 DEF GroupFull
      <4> QED
        BY <2>1, <3>2, <4>1
    <3> QED
      BY <3>1, <3>2
  <2> QED
    BY <2>3 DEF IInv, TypeOK
<1>2. FilesOK' /\ StreamOK' /\ WalkOK'
  BY DEF IInv, FilesOK, StreamOK, WalkOK, InFile, Stored, InArchive, MoreParts, T
<1> QED
  BY <1>1, <1>2 DEF IInv

(* The file published is the whole answer of the query.                    *)
LEMMA EndPartitionFile ==
  ASSUME IInv, EndPartition
  PROVE  /\ WholeFile = result /\ result \subseteq Rows
         /\ T \in TableNames
         /\ result # {} => part \in Parts /\ cold' = [cold EXCEPT ![T][part] = result]
         /\ result = {} => cold' = cold
<1>1. WholeFile = result /\ result \subseteq Rows
  BY DEF IInv, TypeOK, EndPartition, WholeFile
<1>2. T \in TableNames
  BY TableFacts DEF IInv, TypeOK, T
<1>3. result # {} => part \in Parts
  BY <1>1, PartFacts DEF IInv, StreamOK, EndPartition, InFile
<1> QED
  BY <1>1, <1>2, <1>3 DEF EndPartition, Publish

LEMMA FilesAfter ==
  ASSUME IInv, EndPartition, NEW t \in TableNames, NEW p \in Parts
  PROVE  /\ cold'[t][p] = cold[t][p] \/ (cold'[t][p] = result /\ t = T /\ p = part)
         /\ t = T /\ p = part /\ result # {} => cold'[t][p] = result
         /\ t = T /\ p = part => cold[t][p] \subseteq result /\ result \subseteq cold'[t][p]
<1>1. cold \in [TableNames -> [Parts -> SUBSET Rows]]
  BY DEF IInv, TypeOK
<1>2. t = T /\ p = part => cold[t][p] \subseteq result
  BY DEF IInv, StreamOK, EndPartition
<1>3. CASE result = {}
  BY <1>2, <1>3, EndPartitionFile
<1>4. CASE result # {}
  <2>1. cold' = [cold EXCEPT ![T][part] = result] /\ T \in TableNames /\ part \in Parts
    BY <1>4, EndPartitionFile
  <2> QED
    BY <1>1, <1>2, <2>1
<1> QED
  BY <1>3, <1>4

LEMMA EndPartitionStep ==
  ASSUME IInv, EndPartition
  PROVE  IInv'
<1> USE DEF EndPartition
<1>1. cold' \in [TableNames -> [Parts -> SUBSET Rows]]
  <2>1. cold \in [TableNames -> [Parts -> SUBSET Rows]]
    BY DEF IInv, TypeOK
  <2>2. CASE result = {}
    BY <2>1, <2>2, EndPartitionFile
  <2>3. CASE result # {}
    <3>1. cold' = [cold EXCEPT ![T][part] = result] /\ result \subseteq Rows
      BY <2>3, EndPartitionFile
    <3> QED
      BY <2>1, <3>1
  <2> QED
    BY <2>2, <2>3
<1>2. TypeOK'
  <2>1. Cardinality(WholeFile) \in Nat
    BY EndPartitionFile, FiniteRows
  <2> QED
    BY <1>1, <2>1, FS_EmptySet DEF IInv, TypeOK
<1>3. \A t \in TableNames : \A p \in Parts :
        cold[t][p] \subseteq cold'[t][p] /\ cold'[t][p] \subseteq InFile(Stored, t, p)
  BY FilesAfter DEF IInv, FilesOK, StreamOK
<1>4. FilesOK' /\ StreamOK'
  BY <1>3 DEF IInv, FilesOK, StreamOK, InFile, Stored
<1>5. \A r \in before : InArchive(r) => InArchive(r)'
  BY <1>3, PartFacts DEF IInv, TypeOK, InArchive
<1>6. \A r \in before : TableOf[r] = T /\ PartOf(r) = part => InArchive(r)'
  <2> SUFFICES ASSUME NEW r \in before, TableOf[r] = T, PartOf(r) = part
               PROVE  r \in cold'[T][part]
    BY DEF InArchive
  <2>1. r \in result
    BY DEF IInv, StreamOK, InFile
  <2> QED
    BY <2>1, FilesAfter, EndPartitionFile, PartFacts DEF IInv, TypeOK
<1>7. \A r \in before : TableOf[r] = T => (PartOf(r) < part + 1 => PartOf(r) < part \/ PartOf(r) = part)
  BY PartFacts DEF IInv, TypeOK
<1>8. WalkOK'
  BY <1>5, <1>6, <1>7 DEF IInv, WalkOK, T
<1> QED
  BY <1>2, <1>4, <1>8 DEF IInv

LEMMA EndTableStep ==
  ASSUME IInv, EndTable
  PROVE  IInv'
<1>1. ~(part <= bounds.last)
  BY DEF EndTable, MoreParts
<1>2. full => \A r \in before : TableOf[r] = T => InArchive(r)
  BY <1>1, PartFacts DEF IInv, TypeOK, WalkOK, EndTable
<1>3. defect' \in BOOLEAN
  BY DEF EndTable
<1> QED
  BY <1>2, <1>3, NextTableStep DEF EndTable

LEMMA EmptyTableStep ==
  ASSUME IInv, EmptyTable
  PROVE  IInv'
<1>1. full => \A r \in before : TableOf[r] = T => InArchive(r)
  BY DEF EmptyTable, IInv, FilesOK, Hot
<1>2. defect' \in BOOLEAN
  BY DEF EmptyTable, IInv, TypeOK
<1> QED
  BY <1>1, <1>2, NextTableStep DEF EmptyTable

LEMMA FailStep ==
  ASSUME IInv, RunFails
  PROVE  IInv'
<1> USE DEF RunFails, LeftByFailure
<1>1. TypeOK'
  BY FS_EmptySet DEF IInv, TypeOK
<1>2. FilesOK' /\ StreamOK' /\ WalkOK'
  BY DEF IInv, FilesOK, StreamOK, WalkOK, InFile, Stored
<1> QED
  BY <1>1, <1>2 DEF IInv

LEMMA NextInv == IInv /\ [Next]_vars => IInv'
<1> SUFFICES ASSUME IInv, [Next]_vars PROVE IInv'
  OBVIOUS
<1>1. CASE \E r \in Rows : Ingest(r) \/ Replay(r) \/ Merge(r)
  BY <1>1, WriterStep
<1>2. CASE \E everything \in BOOLEAN : StartRun(everything)
  BY <1>2, StartStep
<1>3. CASE Exporter
  BY <1>3, EmptyTableStep, BoundsStep, SkipStep, OpenStep, ReadStep,
     EndPartitionStep, EndTableStep DEF Exporter
<1>4. CASE RunFails
  BY <1>4, FailStep
<1>5. CASE UNCHANGED vars
  BY <1>5 DEF vars, run, IInv, TypeOK, FilesOK, StreamOK, WalkOK, InFile, Stored,
     InArchive, MoreParts, T
<1> QED
  BY <1>1, <1>2, <1>3, <1>4, <1>5 DEF Next

LEMMA Invariance == Spec => []IInv
BY InitInv, NextInv, PTL DEF Spec

-----------------------------------------------------------------------------

(* Every variable keeps its type, and the builder stays below a row group. *)
THEOREM TypeCorrect == Spec => []TypeOK
BY Invariance, PTL DEF IInv

(* A full run that succeeds archives everything stored when it began: each *)
(* such row lies between the bounds read later, the walk passes every      *)
(* partition between them, and what it has passed is archived.             *)
THEOREM FullRunIsComplete == Spec => []FullRunArchivesAll
<1>1. IInv => FullRunArchivesAll
  <2> SUFFICES ASSUME IInv, pc = "done", full, NEW r \in before PROVE r \in Archived
    BY DEF FullRunArchivesAll
  <2>1. r \in Rows /\ r \in cold[TableOf[r]][PartOf(r)]
    BY DEF IInv, TypeOK, WalkOK, InArchive
  <2> QED
    BY <2>1, PartFacts DEF Archived
<1> QED
  BY <1>1, Invariance, PTL

(* A file that appears or is replaced is whole, whatever the store does    *)
(* while it is being written.                                              *)
THEOREM FilesAreWhole == Spec => PublishedIsWhole
<1> DEFINE Whole ==
      \A t \in TableNames : \A p \in Parts : cold'[t][p] # cold[t][p] =>
        {r \in before : TableOf[r] = t /\ PartOf(r) = p} \subseteq cold'[t][p]
<1>1. ASSUME IInv, [Next]_vars PROVE Whole
  <2>1. CASE EndPartition
    <3> SUFFICES ASSUME NEW t \in TableNames, NEW p \in Parts, cold'[t][p] # cold[t][p]
                 PROVE  InFile(before, t, p) \subseteq cold'[t][p]
      BY DEF InFile
    <3>1. cold'[t][p] = result /\ t = T /\ p = part
      BY <1>1, <2>1, FilesAfter
    <3>2. InFile(before, T, part) \subseteq result
      BY <1>1, <2>1 DEF IInv, StreamOK, EndPartition
    <3> QED
      BY <3>1, <3>2
  <2>2. CASE UNCHANGED cold
    BY <2>2
  <2> QED
    BY <1>1, <2>1, <2>2 DEF Next, Exporter, vars, run, Ingest, Replay, Merge, StartRun,
       EmptyTable, ReadBounds, SkipPartition, OpenPartition, ReadRow, EndTable,
       RunFails, LeftByFailure
<1>2. IInv /\ [Next]_vars => [Whole]_vars
  BY <1>1
<1> QED
  BY <1>2, Invariance, PTL DEF Spec, PublishedIsWhole

-----------------------------------------------------------------------------
(* The export implements an archive that only grows towards the store.     *)

LEMMA CopyInit == Init => Copy!Init
BY PartFacts DEF Init, Copy!Init, Stored, Archived

LEMMA ArchivedIsStored == IInv => Archived \subseteq Stored
BY DEF IInv, FilesOK, Archived, InFile

LEMMA CopyStep ==
  ASSUME IInv, IInv', [Next]_vars
  PROVE  [Copy!Next]_<<Stored, Archived>>
<1>1. CASE \E r \in Rows : Ingest(r) \/ Replay(r) \/ Merge(r)
  BY <1>1, WriterStep DEF Copy!Next, Copy!Ingest, Stored
<1>2. CASE EndPartition
  <2>1. Stored' = Stored
    BY <1>2 DEF EndPartition, Stored
  <2>2. Archived \subseteq Archived'
    <3>1. \A t \in TableNames : \A p \in Parts : cold[t][p] \subseteq cold'[t][p]
      BY <1>2, FilesAfter
    <3> QED
      BY <3>1 DEF Archived
  <2> QED
    BY <2>1, <2>2, ArchivedIsStored DEF Copy!Next, Copy!Export, IInv, FilesOK, Archived, InFile
<1>3. CASE UNCHANGED <<copies, cold>>
  BY <1>3 DEF Stored, Archived
<1> QED
  BY <1>1, <1>2, <1>3 DEF Next, Exporter, vars, run, StartRun, EmptyTable, ReadBounds,
     SkipPartition, OpenPartition, ReadRow, EndTable, RunFails, LeftByFailure

(* Through failed runs, re-exports and concurrent writers, the archive     *)
(* only grows and never holds a row the hot store does not.                *)
THEOREM ExportImplementsArchive == Spec => ImplementsArchive
BY CopyInit, CopyStep, Invariance, PTL DEF Spec, ImplementsArchive, Copy!Spec

-----------------------------------------------------------------------------
(* The row check.                                                          *)

Passed == {r \in Hot(T) : PartOf(r) < part}

(* As long as nothing is written, the table holds no more rows than the    *)
(* count that was read with the bounds, and what was exported of it lies   *)
(* in the partitions that the walk has passed.                             *)
CountOK ==
  pc \in {"part", "stream"} /\ ~disturbed =>
    /\ bounds.rows \in Nat /\ Cardinality(Hot(T)) <= bounds.rows
    /\ total <= Cardinality(Passed)

LEMMA CountOfBoth ==
  ASSUME NEW S, NEW R, IsFiniteSet(S), IsFiniteSet(R), S \cap R = {}
  PROVE  Cardinality(S \cup R) = Cardinality(S) + Cardinality(R)
<1>1. Cardinality(S \cup R) = Cardinality(S) + Cardinality(R) - Cardinality(S \cap R)
  BY FS_Union
<1>2. Cardinality(S \cap R) = 0 /\ Cardinality(S) \in Nat /\ Cardinality(R) \in Nat
  BY FS_EmptySet, FS_CardinalityType
<1> QED
  BY <1>1, <1>2

LEMMA RowsAreCopies ==
  ASSUME TypeOK, NEW t \in TableNames
  PROVE  CountRows(t) \in Nat /\ Cardinality(Hot(t)) <= CountRows(t)
<1>1. Hot(t) \subseteq Rows /\ \A r \in Hot(t) : copies[r] \in 1..MaxCopies
  BY DEF TypeOK, Hot, Stored
<1>2. IsFiniteSet(Copies(t))
  <2>1. IsFiniteSet(Hot(t)) /\ IsFiniteSet(1..MaxCopies)
    BY <1>1, FiniteRows, FS_Interval
  <2>2. IsFiniteSet(Hot(t) \X (1..MaxCopies))
    BY <2>1, FS_Product
  <2>3. Copies(t) \subseteq Hot(t) \X (1..MaxCopies)
    BY DEF Copies
  <2> QED
    BY <2>2, <2>3, FS_Subset
<1>3. [c \in Copies(t) |-> c[1]] \in Surjection(Copies(t), Hot(t))
  <2> DEFINE f == [c \in Copies(t) |-> c[1]]
  <2>1. f \in [Copies(t) -> Hot(t)]
    BY DEF Copies
  <2>2. ASSUME NEW r \in Hot(t) PROVE \E c \in Copies(t) : f[c] = r
    <3>1. <<r, 1>> \in Copies(t)
      BY <1>1 DEF Copies
    <3> QED
      BY <3>1
  <2> QED
    BY <2>1, <2>2 DEF Surjection
<1> QED
  BY <1>2, <1>3, FS_Surjection, FS_CardinalityType DEF CountRows

LEMMA CountStep ==
  ASSUME IInv, CountOK, [Next]_vars
  PROVE  CountOK'
<1>1. CASE \E r \in Rows : Ingest(r) \/ Replay(r)
  BY <1>1 DEF CountOK, Ingest, Replay
<1>2. CASE ReadBounds
  <2>1. bounds'.rows = CountRows(T) /\ total' = 0 /\ T' = T /\ Hot(T)' = Hot(T)
    BY <1>2 DEF ReadBounds, Hot, Stored, T
  <2>2. T \in TableNames /\ TypeOK
    BY TableFacts DEF IInv, TypeOK, T
  <2>3. Cardinality(Passed') \in Nat
    BY <2>1, FiniteRows DEF Passed, Hot, Stored
  <2> QED
    BY <2>1, <2>2, <2>3, RowsAreCopies DEF CountOK
<1>3. CASE EndPartition
  <2> SUFFICES ASSUME ~disturbed
               PROVE  bounds'.rows \in Nat /\ Cardinality(Hot(T)') <= bounds'.rows
                      /\ total' <= Cardinality(Passed')
    BY <1>3 DEF EndPartition, CountOK
  <2>1. bounds' = bounds /\ Hot(T)' = Hot(T) /\ part' = part + 1
    BY <1>3 DEF EndPartition, Hot, Stored, T
  <2>2. bounds.rows \in Nat /\ Cardinality(Hot(T)) <= bounds.rows
        /\ total <= Cardinality(Passed)
    BY <1>3 DEF CountOK, EndPartition
  <2>3. WholeFile = result /\ result \subseteq Hot(T) /\ \A r \in result : PartOf(r) = part
    BY <1>3, EndPartitionFile DEF IInv, StreamOK, EndPartition, InFile, Hot
  <2>4. Passed \cup result \subseteq Passed'
    BY <2>1, <2>3, PartFacts DEF Passed, Hot, Stored, IInv, TypeOK
  <2>5. /\ IsFiniteSet(Passed) /\ IsFiniteSet(result) /\ IsFiniteSet(Passed')
        /\ Passed \cap result = {}
    <3>1. Passed \subseteq Rows /\ result \subseteq Rows /\ Passed' \subseteq Rows
      BY <2>1, <2>3 DEF Passed, Hot, Stored
    <3>2. Passed \cap result = {}
      BY <2>3, PartFacts DEF Passed, IInv, TypeOK
    <3> QED
      BY <3>1, <3>2, FiniteRows
  <2>6. Cardinality(Passed \cup result) = Cardinality(Passed) + Cardinality(result)
    BY <2>5, CountOfBoth
  <2>7. Cardinality(Passed \cup result) <= Cardinality(Passed')
    BY <2>4, <2>5, FS_Subset
  <2>8. total' = total + Cardinality(result)
    BY <1>3, <2>3 DEF EndPartition
  <2>9. /\ total \in Nat /\ Cardinality(Passed) \in Nat
        /\ Cardinality(result) \in Nat /\ Cardinality(Passed') \in Nat
    BY <2>5, FS_CardinalityType DEF IInv, TypeOK
  <2> QED
    BY <2>1, <2>2, <2>6, <2>7, <2>8, <2>9
<1>4. CASE SkipPartition
  <2>1. Passed \subseteq Passed' /\ Passed' \subseteq Rows
    BY <1>4, PartFacts DEF SkipPartition, Passed, Hot, Stored, T, IInv, TypeOK
  <2>2. Cardinality(Passed) <= Cardinality(Passed') /\ Cardinality(Passed) \in Nat
        /\ Cardinality(Passed') \in Nat
    BY <2>1, FiniteRows, FS_Subset
  <2>3. Hot(T)' = Hot(T)
    BY <1>4 DEF SkipPartition, Hot, Stored, T
  <2> QED
    BY <1>4, <2>2, <2>3 DEF SkipPartition, CountOK, IInv, TypeOK
<1>5. CASE \E r \in Rows : Merge(r)
  <2>1. Stored' = Stored
    BY <1>5, ExportAssumption DEF Merge, Stored, IInv, TypeOK
  <2> QED
    BY <1>5, <2>1 DEF Merge, run, CountOK, Passed, Hot, T
<1>6. CASE EmptyTable \/ EndTable \/ StartRun(TRUE) \/ StartRun(FALSE) \/ RunFails
  BY <1>6 DEF EmptyTable, EndTable, StartRun, RunFails, NextTable, CountOK
<1>7. CASE OpenPartition \/ (\E r \in Rows : ReadRow(r)) \/ UNCHANGED vars
  BY <1>7 DEF OpenPartition, ReadRow, vars, run, CountOK, Passed, Hot, Stored, T
<1> QED
  BY <1>1, <1>2, <1>3, <1>4, <1>5, <1>6, <1>7 DEF Next, Exporter

(* With the writers stopped the row check cries no defect: what was        *)
(* exported is part of the table, every row of which has a copy in the     *)
(* count, and a merge only brings that count down afterwards.              *)
THEOREM QuietRunsAreSilent == Spec => QuietRunHasNoDefect
<1>1. Init => CountOK
  BY DEF Init, CountOK
<1>2. IInv /\ CountOK /\ [Next]_vars =>
        [pc = "part" /\ ~defect /\ defect' => disturbed]_vars
  <2> SUFFICES ASSUME IInv, CountOK, Next, pc = "part", ~defect, defect', ~disturbed
               PROVE  FALSE
    OBVIOUS
  <2>1. EndTable
    BY DEF Next, Exporter, run, Ingest, Replay, Merge, StartRun, EmptyTable,
       ReadBounds, SkipPartition, OpenPartition, ReadRow, EndPartition, RunFails
  <2>2. total > bounds.rows
    BY <2>1 DEF EndTable
  <2>3. /\ Cardinality(Passed) <= Cardinality(Hot(T)) /\ Cardinality(Passed) \in Nat
        /\ Cardinality(Hot(T)) \in Nat
    <3>1. Passed \subseteq Hot(T) /\ Hot(T) \subseteq Rows
      BY DEF Passed, Hot, Stored
    <3> QED
      BY <3>1, FiniteRows, FS_Subset
  <2> QED
    BY <2>2, <2>3 DEF CountOK, IInv, TypeOK
<1>3. IInv /\ CountOK /\ [Next]_vars => CountOK'
  BY CountStep
<1> QED
  BY <1>1, <1>2, <1>3, Invariance, PTL DEF Spec, QuietRunHasNoDefect
=============================================================================
